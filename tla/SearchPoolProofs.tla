-------------------------- MODULE SearchPoolProofs --------------------------
(***************************************************************************)
(* The abstract search is exact, for every search tree whose bounds are    *)
(* admissible and whose branchings keep an optimum.                        *)
(***************************************************************************)
EXTENDS SearchPool, TLAPS

(* TypeOK makes the comparisons of OptimumInReach comparisons of numbers. *)
PoolInv == TypeOK /\ OptimumInReach

LEMMA OptType ==
    /\ RootTask \in Task
    /\ \A t \in Task : /\ Bound[t] \in Nat /\ Opt[t] \in Nat
                       /\ Bound[t] <= Opt[t]
                       /\ Leaf(t) => Opt[t] = Bound[t]
                       /\ \A D \in Branch[t] : D \subseteq Task
BY TaskAssumption, OptAssumption

(* A leaf that is optimal becomes the incumbent; another leaf is no loss. *)
LEMMA EvaluateStep ==
    ASSUME PoolInv, NEW t \in todo, Evaluate(t)
    PROVE  PoolInv'
<1>1. /\ t \in Task /\ Bound[t] \in Nat /\ Opt[t] = Bound[t] /\ incumbent \in Nat
      /\ Opt[RootTask] \in Nat /\ Opt[RootTask] <= Opt[t] /\ Opt[RootTask] <= incumbent
    BY OptType DEF PoolInv, TypeOK, OptimumInReach, Evaluate
<1>2. /\ todo' = todo \ {t}
      /\ incumbent' = IF Bound[t] < incumbent THEN Bound[t] ELSE incumbent
    BY DEF Evaluate
<1>3. incumbent' \in Nat /\ Opt[RootTask] <= incumbent' /\ incumbent' <= incumbent
      /\ incumbent' <= Opt[t]
    BY <1>1, <1>2
<1>4. \A u \in todo : Opt[u] = Opt[RootTask] => u \in todo' \/ incumbent' = Opt[RootTask]
  <2>. SUFFICES ASSUME NEW u \in todo, Opt[u] = Opt[RootTask], u = t
                PROVE  incumbent' = Opt[RootTask]
      BY <1>2
  <2>. QED
      BY <1>1, <1>3
<1>5. incumbent = Opt[RootTask] => incumbent' = Opt[RootTask]
    BY <1>1, <1>3
<1>. QED
    BY <1>2, <1>3, <1>4, <1>5 DEF PoolInv, TypeOK, OptimumInReach

(* Branching keeps a child as good as the subproblem itself. *)
LEMMA ExpandStep ==
    ASSUME PoolInv, NEW t \in todo, Expand(t)
    PROVE  PoolInv'
<1>1. PICK D \in Branch[t] : todo' = (todo \ {t}) \cup D
    BY DEF Expand
<1>2. /\ t \in Task /\ D \subseteq Task /\ incumbent' = incumbent
      /\ \A d \in D : Opt[t] <= Opt[d]
      /\ \E d \in D : Opt[t] = Opt[d]
    BY OptType, OptAssumption DEF PoolInv, TypeOK, Expand
<1>3. \A u \in todo' : Opt[RootTask] <= Opt[u]
  <2>. SUFFICES ASSUME NEW d \in D PROVE Opt[RootTask] <= Opt[d]
      BY <1>1 DEF PoolInv, OptimumInReach
  <2>1. Opt[RootTask] <= Opt[t] /\ Opt[t] <= Opt[d]
      BY <1>2 DEF PoolInv, OptimumInReach
  <2>2. Opt[RootTask] \in Nat /\ Opt[t] \in Nat /\ Opt[d] \in Nat
      BY <1>2, OptType
  <2>. QED
      BY <2>1, <2>2
<1>4. incumbent' = Opt[RootTask] \/ \E u \in todo' : Opt[u] = Opt[RootTask]
    BY <1>1, <1>2 DEF PoolInv, OptimumInReach
<1>. QED
    BY <1>1, <1>2, <1>3, <1>4 DEF PoolInv, TypeOK, OptimumInReach

(* A subproblem that is discarded held nothing better than the incumbent. *)
LEMMA DiscardStep ==
    ASSUME PoolInv, NEW t \in todo, Discard(t)
    PROVE  PoolInv'
<1>1. /\ Bound[t] \in Nat /\ Opt[t] \in Nat /\ incumbent \in Nat /\ Opt[RootTask] \in Nat
      /\ Bound[t] <= Opt[t] /\ Opt[RootTask] <= incumbent /\ Bound[t] >= incumbent
      /\ todo' = todo \ {t} /\ incumbent' = incumbent
    BY OptType DEF PoolInv, TypeOK, OptimumInReach, Discard
<1>2. Opt[t] = Opt[RootTask] => incumbent = Opt[RootTask]
    BY <1>1
<1>3. incumbent' = Opt[RootTask] \/ \E u \in todo' : Opt[u] = Opt[RootTask]
    BY <1>1, <1>2 DEF PoolInv, OptimumInReach
<1>. QED
    BY <1>1, <1>3 DEF PoolInv, TypeOK, OptimumInReach

LEMMA PoolInit == Init => PoolInv
<1>1. Unsolved \in Nat /\ RootTask \in Task /\ Opt[RootTask] \in Nat
    BY TaskAssumption, OptType
<1>2. Opt[RootTask] <= Unsolved
    BY OptAssumption, TaskAssumption
<1>. QED
    BY <1>1, <1>2 DEF Init, PoolInv, TypeOK, OptimumInReach

LEMMA PoolStep == PoolInv /\ [Next]_vars => PoolInv'
<1>. SUFFICES ASSUME PoolInv, [Next]_vars PROVE PoolInv'
    OBVIOUS
<1>1. ASSUME NEW t \in todo, Evaluate(t) \/ Expand(t) \/ Discard(t) PROVE PoolInv'
    BY <1>1, EvaluateStep, ExpandStep, DiscardStep
<1>2. CASE UNCHANGED vars
    BY <1>2 DEF vars, PoolInv, TypeOK, OptimumInReach
<1>. QED
    BY <1>1, <1>2 DEF Next

(***************************************************************************)
(* The optimum is never lost by branching, evaluating or discarding: it is *)
(* stored, or below an open subproblem.                                    *)
(***************************************************************************)
THEOREM OptimumKept == Spec => []OptimumInReach
<1>1. PoolInv => OptimumInReach
    BY DEF PoolInv
<1>. QED
    BY <1>1, PoolInit, PoolStep, PTL DEF Spec

(***************************************************************************)
(* A search that has nothing left has found the optimum.                   *)
(***************************************************************************)
THEOREM SearchExact == Spec => []Exact
<1>1. PoolInv => Exact
    BY DEF PoolInv, OptimumInReach, Exact
<1>. QED
    BY <1>1, PoolInit, PoolStep, PTL DEF Spec
=============================================================================
