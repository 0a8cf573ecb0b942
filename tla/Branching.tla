----------------------------- MODULE Branching -----------------------------
(***************************************************************************)
(* Subproblems of the permutation flowshop and how one is branched:        *)
(* bb_problem_calculator and the generators of decompose_beginend.  A      *)
(* subproblem fixes the jobs at positions up to limite1 and from limite2   *)
(* on; a child fixes one more at either end.                               *)
(***************************************************************************)
EXTENDS Integers, FiniteSets

CONSTANT Size       \* pbb->size, the number of jobs

ASSUME SizeAssumption == Size \in Nat /\ Size >= 2

Position == 0 .. Size - 1
Schedule ==                                     \* position |-> job
    {s \in [Position -> Position] :
        /\ \A i, j \in Position : s[i] = s[j] => i = j
        /\ \A job \in Position : \E i \in Position : s[i] = job}

BEGIN_ORDER == 0
END_ORDER == 1

(* create_raw_problem, with the rank that add_root gives it. *)
Root ==
    [permutation |-> [j \in Position |-> j], limite1 |-> -1, limite2 |-> Size,
     depth |-> 0, job |-> -1, ranks |-> [d \in 0 .. Size |-> 0], couts_somme |-> 0]

leaf(p) == p.depth = Size
simple(p) == p.depth = Size - 2

Free(p) == p.limite1 + 1 .. p.limite2 - 1       \* the positions still open

(* Mutant of limites_set: the last job is not fixed with the one before. *)
limites_setLastOpen(father, begin_end) ==
    IF begin_end = BEGIN_ORDER THEN <<father.limite1 + 1, father.limite2>>
                               ELSE <<father.limite1, father.limite2 - 1>>

(* A single open position is fixed together with the one before it. *)
limites_set(father, begin_end) ==
    LET l1 == IF begin_end = BEGIN_ORDER THEN father.limite1 + 1 ELSE father.limite1
        l2 == IF begin_end = BEGIN_ORDER THEN father.limite2 ELSE father.limite2 - 1
    IN  <<IF l2 - l1 = 2 THEN l1 + 1 ELSE l1, l2>>

depth_set(father) == IF simple(father) THEN Size ELSE father.depth + 1

(* Mutant of permutation_set: the job goes to the wrong side of the limit. *)
permutation_setOffByOne(father, indice, begin_end) ==
    LET tmp_indice == IF begin_end = BEGIN_ORDER THEN father.limite1 + 1
                      ELSE father.limite2 - 2
    IN  [father.permutation EXCEPT ![tmp_indice] = father.permutation[indice],
                                   ![indice] = father.permutation[tmp_indice]]

(* The chosen job trades places with the one at the limit. *)
permutation_set(father, indice, begin_end) ==
    LET tmp_indice == IF begin_end = BEGIN_ORDER THEN father.limite1 + 1
                                                 ELSE father.limite2 - 1
    IN  [father.permutation EXCEPT ![tmp_indice] = father.permutation[indice],
                                   ![indice] = father.permutation[tmp_indice]]

(* couts_somme has no value until bornes_calculer sets it: the callers do *)
(* so before they read it.                                                *)
create_raw_problem3(father, indice, begin_end) ==
    [permutation |-> permutation_set(father, indice, begin_end),
     limite1 |-> limites_set(father, begin_end)[1],
     limite2 |-> limites_set(father, begin_end)[2],
     depth |-> depth_set(father),
     job |-> father.permutation[indice],
     ranks |-> father.ranks,
     couts_somme |-> 0]

(* The children that place each open job next at one end. *)
problems_generate(n, begin_end) ==
    {create_raw_problem3(n, j, begin_end) : j \in Free(n)}

(* The two schedules below a subproblem with two open positions. *)
leaves_generate(n) ==
    {create_raw_problem3(n, n.limite1 + 1, BEGIN_ORDER),
     create_raw_problem3(n, n.limite1 + 2, BEGIN_ORDER)}

(* select_worst, read from the back as problems::ranks does: lowest bound *)
(* first, then the smaller job.                                           *)
Before(n1, n2) ==
    \/ n1.couts_somme < n2.couts_somme
    \/ n1.couts_somme = n2.couts_somme /\ n1.job < n2.job

(* Mutant of Numbered: siblings with the same bound share a rank. *)
NumberedByBound(ns, off, c) ==
    [c EXCEPT !.ranks[c.depth - off] =
        Cardinality({d \in ns : d.couts_somme < c.couts_somme})]

(* problems::ranks and ranks2 number the sorted siblings at their depth; *)
(* there is no depth Size - 1, and leaves use its place (off = 1).       *)
Numbered(ns, off, c) ==
    [c EXCEPT !.ranks[c.depth - off] = Cardinality({d \in ns : Before(d, c)})]
Ranked(ns, off) == {Numbered(ns, off, c) : c \in ns}

(* The number of leaves below a subproblem of each depth. *)
weights ==
    LET depths[d \in 0 .. Size] ==
            IF d >= Size - 1 THEN 1 ELSE depths[d + 1] * (Size - d)
    IN  depths

(* A schedule completes a subproblem when it agrees with the fixed jobs. *)
Completes(s, p) ==
    \A i \in Position : i <= p.limite1 \/ i >= p.limite2 => s[i] = p.permutation[i]
=============================================================================
