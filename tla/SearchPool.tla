----------------------------- MODULE SearchPool -----------------------------
(***************************************************************************)
(* What a branch-and-bound search over a flowshop instance promises, with  *)
(* no nodes, messages or trees in it: a pool of open subproblems and the   *)
(* best makespan found so far.  One step of the program takes one open     *)
(* subproblem and evaluates it, branches on it or discards it; work        *)
(* stealing and gossip are stutters here.  WorkStealingRefinement shows    *)
(* that the distributed program implements this module.                    *)
(***************************************************************************)
EXTENDS Integers

CONSTANTS
    Task,       \* the subproblems: prefixes and suffixes of a permutation
    RootTask,   \* the subproblem of bb_problem_calculator::create_raw_problem
    Branch,     \* Branch[t]: the sets of children decompose may return for t
    Bound,      \* Bound[t]: couts_somme of t, the makespan when t is a leaf
    Opt,        \* Opt[t]: the best makespan of the schedules below t
    Unsolved    \* the incumbent while no schedule is known

Leaf(t) == Branch[t] = {}

ASSUME TaskAssumption ==
    /\ RootTask \in Task
    /\ Branch \in [Task -> SUBSET (SUBSET Task)]
    /\ Bound \in [Task -> Nat]
    /\ Unsolved \in Nat

(* The lower bound never exceeds a makespan below the subproblem, and both *)
(* ways of branching (from the beginning, from the end) keep the best one. *)
ASSUME OptAssumption ==
    /\ Opt \in [Task -> Nat]
    /\ \A t \in Task : Bound[t] <= Opt[t] /\ Opt[t] < Unsolved
    /\ \A t \in Task : Leaf(t) => Opt[t] = Bound[t]
    /\ \A t \in Task : \A D \in Branch[t] :
          /\ \A d \in D : Opt[t] <= Opt[d]
          /\ \E d \in D : Opt[t] = Opt[d]

VARIABLES
    todo,       \* the open subproblems
    incumbent   \* the best makespan found so far

vars == <<todo, incumbent>>

Init ==
    /\ todo = {RootTask}
    /\ incumbent = Unsolved

(* Mutant of Evaluate: the schedule found last is kept. *)
EvaluateLatest(t) ==
    /\ Leaf(t)
    /\ todo' = todo \ {t}
    /\ incumbent' = Bound[t]

(* A leaf is a complete schedule: keep its makespan if it is better. *)
Evaluate(t) ==
    /\ Leaf(t)
    /\ todo' = todo \ {t}
    /\ incumbent' = IF Bound[t] < incumbent THEN Bound[t] ELSE incumbent

(* Branching is always allowed: a node whose incumbent is stale branches  *)
(* on subproblems a better informed node would discard.                   *)
Expand(t) ==
    /\ \E D \in Branch[t] : todo' = (todo \ {t}) \cup D
    /\ UNCHANGED incumbent

(* Mutant of Discard: a bound one better than the incumbent will do. *)
DiscardNear(t) ==
    /\ Bound[t] + 1 >= incumbent
    /\ todo' = todo \ {t}
    /\ UNCHANGED incumbent

(* Discarding a subproblem needs a bound no better than the incumbent. *)
Discard(t) ==
    /\ Bound[t] >= incumbent
    /\ todo' = todo \ {t}
    /\ UNCHANGED incumbent

Next == \E t \in todo : Evaluate(t) \/ Expand(t) \/ Discard(t)

Spec == Init /\ [][Next]_vars

FairSpec == Spec /\ WF_vars(Next)

-----------------------------------------------------------------------------
TypeOK ==
    /\ todo \subseteq Task
    /\ incumbent \in Nat

(***************************************************************************)
(* The optimum is never lost: it is the incumbent or it lies below an open *)
(* subproblem, and the incumbent is never below it.                        *)
(***************************************************************************)
OptimumInReach ==
    /\ Opt[RootTask] <= incumbent
    /\ \A t \in todo : Opt[RootTask] <= Opt[t]
    /\ incumbent = Opt[RootTask] \/ \E t \in todo : Opt[t] = Opt[RootTask]

(* An exhausted pool has found the optimum. *)
Exact == todo = {} => incumbent = Opt[RootTask]
=============================================================================
