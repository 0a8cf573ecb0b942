---------------------------- MODULE WorkStealing ----------------------------
(***************************************************************************)
(* The CPU work-stealing peers of src/work_stealing/protocol.cpp and       *)
(* node.cpp: N nodes search one branch-and-bound tree.  A node without     *)
(* work asks a random peer for some, a node with work gives part of its    *)
(* pool away, better schedules are flooded over the overlay tree, and the  *)
(* same tree runs the vote that decides when the search is over.           *)
(*                                                                         *)
(* Each node handles its packets and explores in ONE thread                *)
(* (cpu_workstealing_processing_bootstrap), so a handler, and one turn of  *)
(* the loop, is one action.  A send is a synchronous TCP connection and    *)
(* one listener thread queues the packets of each connection: packets of   *)
(* one sender reach one receiver in order, packets of different senders    *)
(* interleave freely.                                                      *)
(***************************************************************************)
EXTENDS Integers, Sequences, FiniteSets

CONSTANTS
    N,          \* number of nodes; ids are given in join order, 0 is the root
    Parent,     \* Parent[c]: the parent the manager assigned to node c
    Task, RootTask, Branch, Bound, Unsolved,    \* as in SearchPool
    BetterInit  \* what pbab's constructor may leave in betterSolutionState

Node == 0 .. N - 1
Root == 0
Children(n) == {c \in Node \ {Root} : Parent[c] = n}
(* Mutant of Neighbour: a better schedule goes up only. *)
ParentOnly(n) == IF n = Root THEN {} ELSE {Parent[n]}

Neighbour(n) == Children(n) \cup (IF n = Root THEN {} ELSE {Parent[n]})

Leaf(t) == Branch[t] = {}

ASSUME OverlayAssumption ==
    /\ N \in Nat \ {0}
    /\ Parent \in [Node \ {Root} -> Node]
    /\ \A c \in Node \ {Root} : Parent[c] < c

ASSUME TaskAssumption ==
    /\ RootTask \in Task
    /\ Branch \in [Task -> SUBSET ((SUBSET Task) \ {{}})]
    /\ Bound \in [Task -> Nat]
    /\ Unsolved \in Nat
    /\ \A t \in Task : Bound[t] < Unsolved
    /\ BetterInit \in (SUBSET {0, 1}) \ {{}}

VARIABLES
    trigger,                \* the manager's start signal has arrived
    tree,                   \* the open subproblems a node holds
    best,                   \* makespan of the schedule in wsltns
    betterSolutionState,    \* pbab's flag "flood what I just received"
    MTR,                    \* "me to random": a work request is outstanding
    pendingWorkRequest,     \* requesters waiting for an answer, in order
    terminationSignal,      \* a node's vote: 0 none, 1 positive, 2 negative
    sentTerminateDetection, \* it has voted in this round
    childSignal,            \* childSignal[c]: c's vote as its parent noted it
    jobFinished,
    net                     \* net[s][d]: packets from s that d has not handled

voteVars == <<terminationSignal, sentTerminateDetection, childSignal>>
searchVars == <<tree, best, betterSolutionState>>
stealVars == <<MTR, pendingWorkRequest>>
vars == <<trigger, searchVars, stealVars, voteVars, jobFinished, net>>

(* The packets, by their message_type of types.h; each with the fields a   *)
(* handler reads.                                                          *)
Message ==
    [type : {"WORK_REQUEST", "REJECT_WORK_REQUEST", "RESTART_VOTING_TERMINATION",
             "TERMINATION_SIGNAL"}]
    \cup [type : {"BB_PROBLEM_PACKET"}, tasks : (SUBSET Task) \ {{}}]
    \cup [type : {"OPTIMAL_SOLUTION_FOUND"}, cost : Nat]
    \cup [type : {"VOTE_TERMINATION"}, signal : {1, 2}]

TypeOK ==
    /\ trigger \in [Node -> BOOLEAN]
    /\ tree \in [Node -> SUBSET Task]
    /\ best \in [Node -> Nat]
    /\ betterSolutionState \in [Node -> {0, 1}]
    /\ MTR \in [Node -> {0, 1}]
    /\ pendingWorkRequest \in [Node -> Seq(Node)]
    /\ terminationSignal \in [Node -> {0, 1, 2}]
    /\ sentTerminateDetection \in [Node -> {0, 1}]
    /\ childSignal \in [Node -> {0, 1, 2}]
    /\ jobFinished \in [Node -> BOOLEAN]
    /\ net \in [Node -> [Node -> Seq(Message)]]

-----------------------------------------------------------------------------
(* Sending.  out[d] is the sequence of packets one handler sends to d.     *)

Post(nw, n, out) == [nw EXCEPT ![n] = [d \in Node |-> nw[n][d] \o out[d]]]

Nothing == [d \in Node |-> << >>]
ToAll(D, m) == [d \in Node |-> IF d \in D THEN <<m>> ELSE << >>]

Request == [type |-> "WORK_REQUEST"]
Reject == [type |-> "REJECT_WORK_REQUEST"]
Restart == [type |-> "RESTART_VOTING_TERMINATION"]
Terminate == [type |-> "TERMINATION_SIGNAL"]
Work(S) == [type |-> "BB_PROBLEM_PACKET", tasks |-> S]
Optimal(c) == [type |-> "OPTIMAL_SOLUTION_FOUND", cost |-> c]
Vote(s) == [type |-> "VOTE_TERMINATION", signal |-> s]

(* The overlay is complete (the manager has answered every join and every  *)
(* child has registered) and the root holds the root subproblem.           *)
Init ==
    /\ trigger = [n \in Node |-> FALSE]
    /\ tree = [n \in Node |-> IF n = Root THEN {RootTask} ELSE {}]
    /\ best = [n \in Node |-> Unsolved]
    /\ betterSolutionState \in [Node -> BetterInit]
    /\ MTR = [n \in Node |-> 0]
    /\ pendingWorkRequest = [n \in Node |-> << >>]
    /\ terminationSignal = [n \in Node |-> 0]
    /\ sentTerminateDetection = [n \in Node |-> 0]
    /\ childSignal = [n \in Node |-> 0]
    /\ jobFinished = [n \in Node |-> FALSE]
    /\ net = [s \in Node |-> [d \in Node |-> << >>]]

(* The manager's trigger packets reach the nodes one by one. *)
Trigger(n) ==
    /\ ~trigger[n] /\ ~jobFinished[n]
    /\ trigger' = [trigger EXCEPT ![n] = TRUE]
    /\ UNCHANGED <<searchVars, stealVars, voteVars, jobFinished, net>>

-----------------------------------------------------------------------------
(* Packet handlers of cpuProcessingIncomingPackets.  Node n handles the    *)
(* oldest unhandled packet of s; a node that has finished left its loop.   *)

Arrived(n, s, type) ==
    /\ ~jobFinished[n]
    /\ net[s][n] # << >>
    /\ Head(net[s][n]).type = type

Packet(n, s) == Head(net[s][n])
Consumed(n, s) == [net EXCEPT ![s][n] = Tail(@)]

(* recvWorkInWorkStealingGPU3 inserts every subproblem of the packet. *)
Unpacked(n, s) == tree[n] \cup Packet(n, s).tasks

(* Mutant of RecvWork: the request stays open. *)
RecvWorkStillAsking(n, s) ==
    /\ Arrived(n, s, "BB_PROBLEM_PACKET")
    /\ tree' = [tree EXCEPT ![n] = Unpacked(n, s)]
    /\ net' = Consumed(n, s)
    /\ UNCHANGED <<trigger, best, betterSolutionState, stealVars, voteVars, jobFinished>>

RecvWork(n, s) ==
    /\ Arrived(n, s, "BB_PROBLEM_PACKET")
    /\ MTR' = [MTR EXCEPT ![n] = 0]
    /\ tree' = [tree EXCEPT ![n] = Unpacked(n, s)]
    /\ net' = Consumed(n, s)
    /\ UNCHANGED <<trigger, best, betterSolutionState, pendingWorkRequest,
                   voteVars, jobFinished>>

(* Mutant of RecvReject: the rejected node never asks again. *)
RecvRejectUnnoticed(n, s) ==
    /\ Arrived(n, s, "REJECT_WORK_REQUEST")
    /\ net' = Consumed(n, s)
    /\ UNCHANGED <<trigger, searchVars, stealVars, voteVars, jobFinished>>

RecvReject(n, s) ==
    /\ Arrived(n, s, "REJECT_WORK_REQUEST")
    /\ MTR' = [MTR EXCEPT ![n] = 0]
    /\ net' = Consumed(n, s)
    /\ UNCHANGED <<trigger, searchVars, pendingWorkRequest, voteVars, jobFinished>>

RecvWorkRequest(n, s) ==
    /\ Arrived(n, s, "WORK_REQUEST")
    /\ pendingWorkRequest' = [pendingWorkRequest EXCEPT ![n] = Append(@, s)]
    /\ net' = Consumed(n, s)
    /\ UNCHANGED <<trigger, searchVars, MTR, voteVars, jobFinished>>

(* A better schedule is stored and flooded to the parent and all children, *)
(* the sender included.  The flag that says so is never initialised, so    *)
(* the first packet may be flooded although it improves nothing.           *)
RecvOptimalSolution(n, s) ==
    /\ Arrived(n, s, "OPTIMAL_SOLUTION_FOUND")
    /\ LET cost == Packet(n, s).cost
           inserable == cost < best[n]
           known == IF inserable THEN cost ELSE best[n]
           flood == inserable \/ betterSolutionState[n] = 1
       IN  /\ best' = [best EXCEPT ![n] = known]
           /\ net' = IF flood
                     THEN Post(Consumed(n, s), n, ToAll(Neighbour(n), Optimal(known)))
                     ELSE Consumed(n, s)
    /\ betterSolutionState' = [betterSolutionState EXCEPT ![n] = 0]
    /\ UNCHANGED <<trigger, tree, stealVars, voteVars, jobFinished>>

(* searchChild: only a registered child's vote counts.  A negative one     *)
(* makes the parent's own vote negative.                                   *)
RecvVote(n, s) ==
    /\ Arrived(n, s, "VOTE_TERMINATION")
    /\ IF s \in Children(n)
       THEN /\ childSignal' = [childSignal EXCEPT ![s] = Packet(n, s).signal]
            /\ terminationSignal' =
                  [terminationSignal EXCEPT ![n] = IF Packet(n, s).signal = 2 THEN 2 ELSE @]
       ELSE UNCHANGED <<childSignal, terminationSignal>>
    /\ net' = Consumed(n, s)
    /\ UNCHANGED <<trigger, searchVars, stealVars, sentTerminateDetection, jobFinished>>

(* child_t.termination_signal of every child of n. *)
ForgetVotes(n) == [c \in Node |-> IF c \in Children(n) THEN 0 ELSE childSignal[c]]

(* Mutant of RecvRestart: the node keeps in mind that it has voted. *)
RecvRestartStillVoted(n, s) ==
    /\ Arrived(n, s, "RESTART_VOTING_TERMINATION")
    /\ terminationSignal' = [terminationSignal EXCEPT ![n] = 0]
    /\ childSignal' = ForgetVotes(n)
    /\ net' = Post(Consumed(n, s), n, ToAll(Children(n), Restart))
    /\ UNCHANGED <<trigger, searchVars, stealVars, sentTerminateDetection, jobFinished>>

(* The root asks for a new round: forget this one, whatever was voted or   *)
(* is about to be, and pass the request on.                                *)
RecvRestart(n, s) ==
    /\ Arrived(n, s, "RESTART_VOTING_TERMINATION")
    /\ sentTerminateDetection' = [sentTerminateDetection EXCEPT ![n] = 0]
    /\ terminationSignal' = [terminationSignal EXCEPT ![n] = 0]
    /\ childSignal' = ForgetVotes(n)
    /\ net' = Post(Consumed(n, s), n, ToAll(Children(n), Restart))
    /\ UNCHANGED <<trigger, searchVars, stealVars, jobFinished>>

RecvTermination(n, s) ==
    /\ Arrived(n, s, "TERMINATION_SIGNAL")
    /\ jobFinished' = [jobFinished EXCEPT ![n] = TRUE]
    /\ net' = Post(Consumed(n, s), n, ToAll(Children(n), Terminate))
    /\ UNCHANGED <<trigger, searchVars, stealVars, voteVars>>

Receive(n, s) ==
    \/ RecvWork(n, s)
    \/ RecvReject(n, s)
    \/ RecvWorkRequest(n, s)
    \/ RecvOptimalSolution(n, s)
    \/ RecvVote(n, s)
    \/ RecvRestart(n, s)
    \/ RecvTermination(n, s)

-----------------------------------------------------------------------------
(* One turn of the exploring loop: answer the waiting requests, then       *)
(* explore.  A batch of _explore_cpu is at most 251 subproblems and only   *)
(* one when requests are waiting; a longer batch is several turns.         *)

Working(n) == trigger[n] /\ ~jobFinished[n] /\ tree[n] # {}

(* cpuServeWorkRequestsInWorkstealing: each requester in turn gets         *)
(* size * fraction subproblems, at least one and never all, until one      *)
(* subproblem is left.  fraction depends on measured node speeds, so any   *)
(* non-empty part that leaves something may be given.                      *)
Sharings(n) ==
    LET queue == pendingWorkRequest[n]
        Fair(share) ==
            LET kept == tree[n] \ UNION {share[i] : i \in DOMAIN share}
            IN  /\ kept # {}
                /\ \A i \in DOMAIN share : share[i] # {}
                /\ \A i, j \in DOMAIN share : i # j => share[i] \cap share[j] = {}
                /\ DOMAIN share = 1 .. Len(queue) \/ Cardinality(kept) = 1
    IN  UNION {{share \in [1 .. k -> SUBSET tree[n]] : Fair(share)} : k \in 0 .. Len(queue)}

(* Mutant of Shared: one packet is sent, whoever else was given a share. *)
SharedFirstOnly(n, share) ==
    [d \in Node |->
        IF 1 \in DOMAIN share /\ pendingWorkRequest[n][1] = d THEN <<Work(share[1])>> ELSE << >>]

(* A requester waits for one answer at a time (RequestAccounting), so it   *)
(* stands at most once in the queue.                                       *)
Shared(n, share) ==
    [d \in Node |->
        IF \E i \in DOMAIN share : pendingWorkRequest[n][i] = d
        THEN <<Work(UNION {share[i] : i \in {j \in DOMAIN share : pendingWorkRequest[n][j] = d}})>>
        ELSE << >>]

(* Mutant of Serve: giving work away leaves no mark on the vote. *)
ServeUnmarked(n, share) ==
    /\ pendingWorkRequest' =
          [pendingWorkRequest EXCEPT ![n] = SubSeq(@, Cardinality(DOMAIN share) + 1, Len(@))]
    /\ UNCHANGED <<trigger, MTR, voteVars, jobFinished, betterSolutionState>>

(* The bookkeeping of a turn that explores t after giving share away. *)
Serve(n, share) ==
    /\ pendingWorkRequest' =
          [pendingWorkRequest EXCEPT ![n] = SubSeq(@, Cardinality(DOMAIN share) + 1, Len(@))]
    /\ terminationSignal' =
          [terminationSignal EXCEPT ![n] = IF DOMAIN share = {} THEN @ ELSE 2]
    /\ UNCHANGED <<trigger, MTR, sentTerminateDetection, childSignal, jobFinished,
                   betterSolutionState>>

(* Mutant of Kept: the donor keeps what it gives. *)
KeptCopies(n, share) == tree[n]

Kept(n, share) == tree[n] \ UNION {share[i] : i \in DOMAIN share}

(* A leaf: solutions::insert keeps a strictly better schedule and it is    *)
(* sent to the neighbours.                                                 *)
ExploreLeaf(n) ==
    /\ Working(n)
    /\ \E share \in Sharings(n) : \E t \in Kept(n, share) :
          /\ Leaf(t)
          /\ Serve(n, share)
          /\ tree' = [tree EXCEPT ![n] = Kept(n, share) \ {t}]
          /\ IF Bound[t] < best[n]
             THEN /\ best' = [best EXCEPT ![n] = Bound[t]]
                  /\ net' = Post(Post(net, n, Shared(n, share)), n,
                                 ToAll(Neighbour(n), Optimal(Bound[t])))
             ELSE /\ UNCHANGED best
                  /\ net' = Post(net, n, Shared(n, share))

(* solutions::inserable: only a subproblem whose bound is strictly below   *)
(* the stored schedule is decomposed.                                      *)
ExploreBranch(n) ==
    /\ Working(n)
    /\ \E share \in Sharings(n) : \E t \in Kept(n, share) :
          /\ ~Leaf(t)
          /\ Bound[t] < best[n]
          /\ Serve(n, share)
          /\ \E D \in Branch[t] : tree' = [tree EXCEPT ![n] = (Kept(n, share) \ {t}) \cup D]
          /\ net' = Post(net, n, Shared(n, share))
    /\ UNCHANGED best

(* Mutant of ExplorePrune: a bound one better than the best is pruned too. *)
ExplorePruneNear(n) ==
    /\ Working(n)
    /\ \E share \in Sharings(n) : \E t \in Kept(n, share) :
          /\ ~Leaf(t)
          /\ Bound[t] + 1 >= best[n]
          /\ Serve(n, share)
          /\ tree' = [tree EXCEPT ![n] = Kept(n, share) \ {t}]
          /\ net' = Post(net, n, Shared(n, share))
    /\ UNCHANGED best

ExplorePrune(n) ==
    /\ Working(n)
    /\ \E share \in Sharings(n) : \E t \in Kept(n, share) :
          /\ ~Leaf(t)
          /\ Bound[t] >= best[n]
          /\ Serve(n, share)
          /\ tree' = [tree EXCEPT ![n] = Kept(n, share) \ {t}]
          /\ net' = Post(net, n, Shared(n, share))
    /\ UNCHANGED best

Explore(n) == ExploreLeaf(n) \/ ExploreBranch(n) \/ ExplorePrune(n)

-----------------------------------------------------------------------------
(* One turn of the loop of a node without work (workerState is idle when   *)
(* the loop is entered with an empty tree): take a positive stand if none  *)
(* was taken, reject the waiting requests, ask a random peer for work, and *)
(* vote, or at the root decide.                                            *)

Starving(n) == trigger[n] /\ ~jobFinished[n] /\ tree[n] = {}

Stand(n) == IF terminationSignal[n] = 0 THEN 1 ELSE terminationSignal[n]

(* Mutant of AllVoted: a vote that is still missing counts as one. *)
AllVotedSoFar(n) == \A c \in Children(n) : childSignal[c] # 2

AllVoted(n) == \A c \in Children(n) : childSignal[c] # 0
Unanimous == Stand(Root) = 1 /\ \A c \in Children(Root) : childSignal[c] = 1

Rejects(n, d) ==
    LET waiting == {i \in 1 .. Len(pendingWorkRequest[n]) : pendingWorkRequest[n][i] = d}
    IN  [i \in 1 .. Cardinality(waiting) |-> Reject]

(* The victims stealWork may pick: one peer of random_pool_of_nodes, or    *)
(* none while a request is outstanding.                                    *)
Victims(n) ==
    IF MTR[n] = 0 /\ Node # {n} THEN {{v} : v \in Node \ {n}} ELSE {{}}

(* control[d]: what the turn sends to d after the rejects and the request. *)
AskForWork(n, control) ==
    /\ Starving(n)
    /\ \E V \in Victims(n) :
          /\ MTR' = [MTR EXCEPT ![n] = IF V = {} THEN @ ELSE 1]
          /\ net' = Post(net, n, [d \in Node |->
                        Rejects(n, d) \o ToAll(V, Request)[d] \o control[d]])
    /\ pendingWorkRequest' = [pendingWorkRequest EXCEPT ![n] = << >>]
    /\ UNCHANGED <<trigger, searchVars>>

(* Nothing to vote yet, or the vote is cast already. *)
KeepAsking(n) ==
    /\ ~AllVoted(n) \/ (n # Root /\ sentTerminateDetection[n] = 1)
    /\ AskForWork(n, Nothing)
    /\ terminationSignal' = [terminationSignal EXCEPT ![n] = Stand(n)]
    /\ UNCHANGED <<sentTerminateDetection, childSignal, jobFinished>>

(* Mutants of CastVote: the vote is sent before the stand is taken, or the *)
(* node forgets that it has voted.                                         *)
CastVoteUndecided(n) ==
    /\ n # Root
    /\ AllVoted(n)
    /\ sentTerminateDetection[n] = 0
    /\ AskForWork(n, ToAll({Parent[n]}, Vote(terminationSignal[n])))
    /\ terminationSignal' = [terminationSignal EXCEPT ![n] = Stand(n)]
    /\ sentTerminateDetection' = [sentTerminateDetection EXCEPT ![n] = 1]
    /\ UNCHANGED <<childSignal, jobFinished>>

CastVoteUnrecorded(n) ==
    /\ n # Root
    /\ AllVoted(n)
    /\ sentTerminateDetection[n] = 0
    /\ AskForWork(n, ToAll({Parent[n]}, Vote(Stand(n))))
    /\ terminationSignal' = [terminationSignal EXCEPT ![n] = Stand(n)]
    /\ UNCHANGED <<sentTerminateDetection, childSignal, jobFinished>>

CastVote(n) ==
    /\ n # Root
    /\ AllVoted(n)
    /\ sentTerminateDetection[n] = 0
    /\ AskForWork(n, ToAll({Parent[n]}, Vote(Stand(n))))
    /\ terminationSignal' = [terminationSignal EXCEPT ![n] = Stand(n)]
    /\ sentTerminateDetection' = [sentTerminateDetection EXCEPT ![n] = 1]
    /\ UNCHANGED <<childSignal, jobFinished>>

(* terminateDetectionWorkStealing at the root, a negative vote present. *)
RestartVote ==
    /\ AllVoted(Root) /\ ~Unanimous
    /\ AskForWork(Root, ToAll(Children(Root), Restart))
    /\ terminationSignal' = [terminationSignal EXCEPT ![Root] = 0]
    /\ childSignal' = ForgetVotes(Root)
    /\ UNCHANGED <<sentTerminateDetection, jobFinished>>

(* The root sees no negative vote: it tells its children and leaves. *)
DetectTermination ==
    /\ AllVoted(Root) /\ Unanimous
    /\ AskForWork(Root, ToAll(Children(Root), Terminate))
    /\ terminationSignal' = [terminationSignal EXCEPT ![Root] = 1]
    /\ jobFinished' = [jobFinished EXCEPT ![Root] = TRUE]
    /\ UNCHANGED <<sentTerminateDetection, childSignal>>

IdleTurn(n) ==
    \/ KeepAsking(n)
    \/ CastVote(n)
    \/ n = Root /\ (RestartVote \/ DetectTermination)

(* Every node has left its loop; the processes end. *)
Finished ==
    /\ \A n \in Node : jobFinished[n]
    /\ UNCHANGED vars

Next ==
    \/ \E n \in Node : Trigger(n) \/ Explore(n) \/ IdleTurn(n)
    \/ \E n \in Node : \E s \in Node \ {n} : Receive(n, s)
    \/ Finished

Spec == Init /\ [][Next]_vars

(* Every processing thread keeps turning its loop until it finishes: it    *)
(* keeps exploring or asking, and each pass takes packets off its queue.   *)
Fairness ==
    /\ \A n \in Node : WF_vars(Trigger(n)) /\ WF_vars(Explore(n) \/ IdleTurn(n))
    /\ \A n \in Node : \A s \in Node \ {n} : WF_vars(Receive(n, s))

FairSpec == Spec /\ Fairness

-----------------------------------------------------------------------------
(* Properties.                                                             *)

(* The packets of the given types in a channel, and how many there are. *)
Positions(q, types) == {i \in 1 .. Len(q) : q[i].type \in types}
Count(q, types) == Cardinality(Positions(q, types))

(* Everything that stands for a work request of n: the request on its way, *)
(* its entry in a victim's queue, the answer on its way back.              *)
Outstanding(n) ==
    LET asked == UNION {{<<"asked", d, i>> :
                   i \in Positions(net[n][d], {"WORK_REQUEST"})} : d \in Node}
        waits == UNION {{<<"waits", d, i>> : i \in {j \in 1 .. Len(pendingWorkRequest[d]) :
                                             pendingWorkRequest[d][j] = n}} : d \in Node}
        answers == UNION {{<<"answer", s, i>> : i \in Positions(net[s][n],
                             {"BB_PROBLEM_PACKET", "REJECT_WORK_REQUEST"})} : s \in Node}
    IN  asked \cup waits \cup answers

(***************************************************************************)
(* MTR is exact: a node that has asked is owed exactly one answer and a    *)
(* node that has not is owed none, whatever finishes, serves or rejects in *)
(* between.  A second request or a lost answer would break it.             *)
(***************************************************************************)
RequestAccounting == \A n \in Node : Cardinality(Outstanding(n)) = MTR[n]

(***************************************************************************)
(* Only a node with an empty pool is waiting for work, so work never       *)
(* reaches a node that is exploring.                                       *)
(***************************************************************************)
ThiefHasNoWork == \A n \in Node : MTR[n] = 1 => tree[n] = {}

(***************************************************************************)
(* A vote is counted once per round: a node has voted exactly when its     *)
(* vote is on its way, or noted by its parent, or being called back by a   *)
(* restart; and it votes only after its whole subtree.                     *)
(***************************************************************************)
VoteAccounting ==
    \A c \in Node \ {Root} :
        LET p == Parent[c]
        IN  /\ Count(net[c][p], {"VOTE_TERMINATION"})
                + Count(net[p][c], {"RESTART_VOTING_TERMINATION"})
                + (IF childSignal[c] = 0 THEN 0 ELSE 1)
                  = sentTerminateDetection[c]
            /\ sentTerminateDetection[c] = 1 => AllVoted(c)

(***************************************************************************)
(* A negative vote cannot be outvoted on its way up: a node whose positive *)
(* vote is noted has only positive votes below it.                         *)
(***************************************************************************)
PositiveVotesAreDeep ==
    \A c \in Node \ {Root} :
        childSignal[c] = 1 => \A d \in Children(c) : childSignal[d] = 1

(* The parts of pools that a queue carries, and all open subproblems. *)
Shares(q) == {q[i].tasks : i \in Positions(q, {"BB_PROBLEM_PACKET"})}
OpenTasks == UNION ({tree[n] : n \in Node} \cup (UNION {Shares(net[s][d]) : s, d \in Node}))

(* The places that hold subproblem t: pools and work packets. *)
Holders(t) ==
    {<<n>> : n \in {m \in Node : t \in tree[m]}}
    \cup (UNION {{<<l[1], l[2], i>> :
                    i \in {j \in Positions(net[l[1]][l[2]], {"BB_PROBLEM_PACKET"}) :
                             t \in net[l[1]][l[2]][j].tasks}} : l \in Node \X Node})

(* Work sharing moves a subproblem and never copies it. *)
OneHolder == \A t \in OpenTasks : Cardinality(Holders(t)) = 1

(***************************************************************************)
(* "ROOT NODE: Job finished" (protocol.cpp:518, node.cpp:897) is printed   *)
(* only when no subproblem is open anywhere, on its way included.          *)
(***************************************************************************)
TerminationSound == jobFinished[Root] => OpenTasks = {}

(* The vote ends: every node learns that the search is over. *)
EveryNodeFinishes == <>(\A n \in Node : jobFinished[n])
=============================================================================
