------------------------------ MODULE FifoQueue ------------------------------
(***************************************************************************)
(* What the packets container promises its two threads: a queue that gives *)
(* packets back once each, in the order in which they were added.          *)
(***************************************************************************)
EXTENDS Naturals, Sequences

VARIABLES
    queue,      \* the packets that wait, by arrival number
    added,      \* how many packets were added
    handled     \* the packets given back, in order

vars == <<queue, added, handled>>

Init == queue = << >> /\ added = 0 /\ handled = << >>

Add ==
    /\ added' = added + 1
    /\ queue' = Append(queue, added')
    /\ UNCHANGED handled

Take ==
    /\ queue # << >>
    /\ handled' = Append(handled, Head(queue))
    /\ queue' = Tail(queue)
    /\ UNCHANGED added

Next == Add \/ Take

Spec == Init /\ [][Next]_vars
=============================================================================
