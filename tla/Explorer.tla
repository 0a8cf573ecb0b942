------------------------------ MODULE Explorer ------------------------------
(***************************************************************************)
(* One CPU explorer down to the permutations: _explore_cpu takes the top   *)
(* of the tree, evaluates, branches or prunes it; a schedule may arrive    *)
(* from another peer at any time between two turns.  SearchPool assumes    *)
(* what Branching and FlowshopBound do; here they are what is checked.     *)
(***************************************************************************)
EXTENDS FlowshopBound

CONSTANTS
    Instances,      \* the matrices of processing times considered
    Strategies,     \* arguments::strategy: "d" depth first, "b" best first
    best,           \* decompose_beginend::best, never updated
    costv           \* arguments::costv, the first value of tree::cout

ASSUME InstanceAssumption ==
    /\ Instances \subseteq [Machine -> [Position -> Nat]]
    /\ Strategies \subseteq {"d", "b"}
    /\ best \in Nat /\ costv \in Nat

VARIABLES
    tables,                 \* bound_flowshop: the instance and what init makes of it
    strategy,
    tree,                   \* the open subproblems
    wsltns,                 \* couts_somme of the schedules kept
    cout,                   \* tree::cout
    cpu_explored_leaves

vars == <<tables, strategy, tree, wsltns, cout, cpu_explored_leaves>>

(* add_root, before any schedule is known: solutions::init finds an empty *)
(* list at the head of the file, for save writes it before it grows.      *)
Init ==
    /\ \E tempsJob \in Instances : tables \in initialiserVar(tempsJob)
    /\ strategy \in Strategies
    /\ tree = {Root}
    /\ wsltns = {}
    /\ cout = costv
    /\ cpu_explored_leaves = 0

-----------------------------------------------------------------------------
Evaluated(p) == [p EXCEPT !.couts_somme = bornes_calculer(tables, p)]

coupe(ns) == Cardinality({p \in ns : p.couts_somme >= best})
sum(ns) ==
    LET kept == {p \in ns : p.couts_somme < best}
    IN  SumFunction([p \in kept |-> p.couts_somme])

(* Branch at the end where more children are cut, then where they cost    *)
(* more in sum; at the end if both ends are alike.                        *)
choise(debut, fin) ==
    \/ coupe(debut) > coupe(fin)
    \/ coupe(debut) = coupe(fin) /\ sum(debut) > sum(fin)

decompose(n) ==
    IF simple(n) THEN Ranked({Evaluated(p) : p \in leaves_generate(n)}, 1)
    ELSE LET debut == {Evaluated(p) : p \in problems_generate(n, BEGIN_ORDER)}
             fin == {Evaluated(p) : p \in problems_generate(n, END_ORDER)}
         IN  Ranked(IF choise(debut, fin) THEN debut ELSE fin, 0)

(* comparator_depth: the first rank that differs decides. *)
Deeper(n1, n2) ==
    \E d \in 0 .. Size :
        /\ n1.ranks[d] < n2.ranks[d]
        /\ \A e \in 0 .. d - 1 : n1.ranks[e] = n2.ranks[e]

(* Mutant of top: a subproblem that is not the smallest is taken. *)
TopAny(n) == TRUE

top(n) ==
    IF strategy = "d" THEN \A p \in tree \ {n} : Deeper(n, p)
    ELSE \A p \in tree : n.couts_somme <= p.couts_somme

-----------------------------------------------------------------------------
(* Mutant of inserable: a bound one better than the best is too weak. *)
inserableNear(cost) == \A i \in wsltns : ~(i <= cost + 1)

(* eliminate_pareto: a schedule as good keeps a subproblem out. *)
inserable(cost) == \A i \in wsltns : ~(i <= cost)

(* solutions::insert with tree::improve. *)
insert(cost) ==
    IF inserable(cost)
    THEN /\ wsltns' = {i \in wsltns : ~(cost <= i)} \cup {cost}
         /\ cout' = IF cout > cost THEN cost ELSE cout
    ELSE UNCHANGED <<wsltns, cout>>

(* Mutant of Evaluate: the leaf is not counted when it is no improvement. *)
EvaluateCountsBetter(n) ==
    /\ leaf(n)
    /\ insert(n.couts_somme)
    /\ tree' = tree \ {n}
    /\ cpu_explored_leaves' =
          cpu_explored_leaves + (IF inserable(n.couts_somme) THEN weights[n.depth] ELSE 0)

Evaluate(n) ==
    /\ leaf(n)
    /\ insert(n.couts_somme)
    /\ tree' = tree \ {n}
    /\ cpu_explored_leaves' = cpu_explored_leaves + weights[n.depth]

Branch(n) ==
    /\ ~leaf(n)
    /\ inserable(n.couts_somme)
    /\ tree' = (tree \ {n}) \cup decompose(n)
    /\ UNCHANGED <<wsltns, cout, cpu_explored_leaves>>

Prune(n) ==
    /\ ~leaf(n)
    /\ ~inserable(n.couts_somme)
    /\ tree' = tree \ {n}
    /\ cpu_explored_leaves' = cpu_explored_leaves + weights[n.depth]
    /\ UNCHANGED <<wsltns, cout>>

(* One round of the loop of _explore_cpu. *)
Explore ==
    /\ \E n \in tree : top(n) /\ (Evaluate(n) \/ Branch(n) \/ Prune(n))
    /\ UNCHANGED <<tables, strategy>>

(* OPTIMAL_SOLUTION from another peer: any schedule, with its makespan. *)
Receive ==
    /\ \E s \in Schedule : insert(criteres_calculer(tables, s))
    /\ UNCHANGED <<tables, strategy, tree, cpu_explored_leaves>>

Next == Explore \/ Receive

Spec == Init /\ [][Next]_vars

-----------------------------------------------------------------------------
(* The fields of a subproblem agree as problem.h describes them: limite2 - *)
(* limite1 counts the jobs not placed, there is no subproblem with one,    *)
(* and a leaf is one with none.  (The type invariant.)                     *)
WellFormed(p) ==
    /\ p.permutation \in Schedule
    /\ p.limite1 \in -1 .. Size - 1
    /\ p.limite2 \in 0 .. Size
    /\ p.depth \in 0 .. Size /\ p.depth # Size - 1
    /\ p.limite2 - p.limite1 - 1 = Size - p.depth

TypeOK ==
    /\ \E tempsJob \in Instances : tables \in initialiserVar(tempsJob)
    /\ strategy \in Strategies
    /\ \A p \in tree : WellFormed(p) /\ p.couts_somme \in Nat
    /\ wsltns \subseteq Nat /\ \A c, d \in wsltns : c = d
    /\ cout \in Nat /\ \A cost \in wsltns : cout <= cost

(* No schedule that is better than the best one kept is ever lost: it      *)
(* completes an open subproblem.  Branching at either end, the swaps of    *)
(* the permutation and the pruning all have to be right for that.          *)
NothingLost ==
    \A s \in Schedule :
        \/ \E p \in tree : Completes(s, p)
        \/ \E cost \in wsltns : cost <= criteres_calculer(tables, s)

(* No schedule is searched twice: two open subproblems have no completion *)
(* in common, whichever ends their ancestors were branched at.            *)
NoScheduleTwice ==
    \A s \in Schedule : \A p, q \in {r \in tree : Completes(s, r)} : p = q

(* The count of leaves that ~tree reports is true: with what is still open *)
(* it always makes the number of schedules, pruned subtrees included.      *)
LeavesAccounted ==
    cpu_explored_leaves + SumFunction([p \in tree |-> weights[p.depth]]) = weights[0]

(* The cost on which a subproblem is pruned never exceeds the makespan of *)
(* a schedule below it, and a leaf costs its makespan.                    *)
BoundAdmissible ==
    \A p \in tree : \A s \in Schedule :
        Completes(s, p) =>
            /\ p.couts_somme <= criteres_calculer(tables, s)
            /\ leaf(p) => p.couts_somme = criteres_calculer(tables, s)

(* Johnson's rule as coded is optimal for its pair of machines: after the *)
(* fixed jobs, no order of the open ones, with their lags, ends earlier on *)
(* the second machine, however quicksort leaves the ties.                  *)
JohnsonOptimal ==
    \A p \in tree : top(p) /\ ~leaf(p) =>
        \A ma \in Pairs :
            LET johnson == heuristiqueCmax(tables, p, ma, tables.tabJohnson[ma])[2]
            IN  \A ordo \in Orders : johnson <= heuristiqueCmax(tables, p, ma, ordo)[2]

(* comparator_depth never has to order two equal subproblems, for which it *)
(* is no strict order: the ranks of any two open subproblems differ before *)
(* the ranks nobody has set.                                               *)
RanksDiffer == \A p, q \in tree : p # q => Deeper(p, q) \/ Deeper(q, p)

(* Depth first, the tree never holds more than the siblings along one path. *)
TreeStaysSmall == strategy = "d" => Cardinality(tree) <= (Size * (Size - 1)) \div 2 + 1
=============================================================================
