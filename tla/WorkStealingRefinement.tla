----------------------- MODULE WorkStealingRefinement -----------------------
(***************************************************************************)
(* The distributed search implements the abstract pool: the open           *)
(* subproblems are those in the nodes' pools and in work packets, and the  *)
(* incumbent is the best schedule any node has stored.                     *)
(***************************************************************************)
EXTENDS WorkStealing

CONSTANTS
    Opt,        \* as in SearchPool
    Below       \* Below[t]: the complete schedules below t

(* As in SearchPool: bounds are admissible and branching keeps an optimum. *)
ASSUME OptAssumption ==
    /\ Opt \in [Task -> Nat]
    /\ \A t \in Task : Bound[t] <= Opt[t] /\ Opt[t] < Unsolved
    /\ \A t \in Task : Leaf(t) => Opt[t] = Bound[t]
    /\ \A t \in Task : \A D \in Branch[t] :
          /\ \A d \in D : Opt[t] <= Opt[d]
          /\ \E d \in D : Opt[t] = Opt[d]

(* Branching makes a search tree: a subproblem has schedules below it, the *)
(* children of one branching share none, and each has some of its parent's *)
(* (SearchedOnce in ExplorerProofs: every child fixes another job at the   *)
(* same place).                                                            *)
ASSUME BelowAssumption ==
    /\ \A t \in Task : Below[t] # {}
    /\ \A t \in Task : \A D \in Branch[t] : \A d \in D :
          /\ Below[d] \subseteq Below[t]
          /\ \A e \in D \ {d} : Below[d] \cap Below[e] = {}

Incumbent == CHOOSE c \in {best[n] : n \in Node} : \A n \in Node : c <= best[n]

Pool == INSTANCE SearchPool WITH todo <- OpenTasks, incumbent <- Incumbent

(***************************************************************************)
(* Stealing, gossip and voting never lose, copy or invent a subproblem,    *)
(* and a subproblem is discarded only against a schedule some node has.    *)
(***************************************************************************)
ImplementsPool == Pool!Spec

(* The nodes together never stop searching while a subproblem is open. *)
ImplementsFairPool == Pool!FairSpec

(***************************************************************************)
(* A node that has finished (printOptimalSolution) holds an optimal        *)
(* schedule: the last improvement has overtaken the termination signal.    *)
(***************************************************************************)
FinishedIsExact == \A n \in Node : jobFinished[n] => best[n] = Opt[RootTask]
=============================================================================
