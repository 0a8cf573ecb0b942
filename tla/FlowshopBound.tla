--------------------------- MODULE FlowshopBound ---------------------------
(***************************************************************************)
(* The cost of a subproblem: bound_flowshop.  A complete permutation costs *)
(* its makespan.  Otherwise every pair of machines gives a bound, from the *)
(* times of the fixed jobs and Johnson's order of the open ones, and the   *)
(* greatest counts.  t holds the instance, tempsJob[machine][job], and the *)
(* tables made from it.                                                    *)
(***************************************************************************)
EXTENDS Branching, SequencesExt

CONSTANT nbMachines

ASSUME MachineAssumption == nbMachines \in Nat /\ nbMachines >= 2

Machine == 0 .. nbMachines - 1
leMeilleur == 999999            \* the value bornes_calculer always passes

max(i, j) == IF i > j THEN i ELSE j

(* One job goes through the machines, entering at machine `from`. *)
Through(tempsJob, from, temps, job) ==
    LET after[m \in from .. nbMachines - 1] ==
            IF m = from THEN temps[m] + tempsJob[m][job]
            ELSE max(temps[m], after[m - 1]) + tempsJob[m][job]
    IN  [m \in Machine |-> IF m < from THEN 0 ELSE after[m]]

(* The machine times after the jobs at positions first to last. *)
Passage(tempsJob, from, permutation, first, last) ==
    FoldLeft(LAMBDA temps, job : Through(tempsJob, from, temps, job),
             [m \in Machine |-> 0],
             [i \in 1 .. last - first + 1 |-> permutation[first + i - 1]])

(* The makespan of a complete permutation. *)
criteres_calculer(t, permutation) ==
    Passage(t.tempsJob, 0, permutation, 0, Size - 1)[nbMachines - 1]

-----------------------------------------------------------------------------
(* The tables that init makes from the instance. *)
Pairs == {ma \in Machine \X Machine : ma[1] < ma[2]}
Orders == {[i \in 1 .. Size |-> s[i - 1]] : s \in Schedule}

(* The time of job j on a range of machines. *)
Between(tempsJob, j, machines) ==
    SumFunctionOnSet([k \in Machine |-> tempsJob[k][j]], machines)

tempsLag(tempsJob, ma, j) == Between(tempsJob, j, ma[1] + 1 .. ma[2] - 1)

(* Mutant of minTempsDep: the machine itself is counted. *)
minTempsDepInclusive(tempsJob, m) ==
    Min({Between(tempsJob, j, m .. nbMachines - 1) : j \in Position})

(* The least time any job needs to reach a machine, and to leave after it. *)
minTempsArr(tempsJob, m) == Min({Between(tempsJob, j, 0 .. m - 1) : j \in Position})
minTempsDep(tempsJob, m) ==
    Min({Between(tempsJob, j, m + 1 .. nbMachines - 1) : j \in Position})

(* Johnson's rule with lags: jobs shorter on the first machine go first,   *)
(* by growing time up to the second; then the others, by shrinking time    *)
(* after the first.                                                        *)
Shorter(tempsJob, ma, j) == tempsJob[ma[1]][j] < tempsJob[ma[2]][j]
pluspetit(tempsJob, ma, j) ==
    tempsLag(tempsJob, ma, j) +
        (IF Shorter(tempsJob, ma, j) THEN tempsJob[ma[1]][j] ELSE tempsJob[ma[2]][j])

(* Mutant of estInf: the second group grows like the first. *)
estInfGrowing(tempsJob, ma, i, j) ==
    IF Shorter(tempsJob, ma, i) # Shorter(tempsJob, ma, j) THEN Shorter(tempsJob, ma, i)
    ELSE pluspetit(tempsJob, ma, i) < pluspetit(tempsJob, ma, j)

estInf(tempsJob, ma, i, j) ==
    IF Shorter(tempsJob, ma, i) # Shorter(tempsJob, ma, j) THEN Shorter(tempsJob, ma, i)
    ELSE IF Shorter(tempsJob, ma, i)
    THEN pluspetit(tempsJob, ma, i) < pluspetit(tempsJob, ma, j)
    ELSE pluspetit(tempsJob, ma, i) > pluspetit(tempsJob, ma, j)

(* What quicksort may leave: jobs that tie come in any order. *)
Johnson(tempsJob, ma) ==
    {ordo \in Orders : \A i, j \in 1 .. Size :
        i < j => ~estInf(tempsJob, ma, ordo[j], ordo[i])}

(* The pairs of machines, in the order of remplirMachine. *)
Earlier(ma, mb) == ma[1] < mb[1] \/ (ma[1] = mb[1] /\ ma[2] < mb[2])
machine ==
    CHOOSE q \in [1 .. Cardinality(Pairs) -> Pairs] :
        \A i, j \in DOMAIN q : i < j => Earlier(q[i], q[j])

initialiserVar(tempsJob) ==
    [tempsJob : {tempsJob},
     tempsLag : {[ma \in Pairs |-> [j \in Position |-> tempsLag(tempsJob, ma, j)]]},
     minTempsArr : {[m \in Machine |-> minTempsArr(tempsJob, m)]},
     minTempsDep : {[m \in Machine |-> minTempsDep(tempsJob, m)]},
     tabJohnson : {tab \in [Pairs -> UNION {Johnson(tempsJob, ma) : ma \in Pairs}] :
                     \A ma \in Pairs : tab[ma] \in Johnson(tempsJob, ma)}]

-----------------------------------------------------------------------------
(* When each machine is through with the jobs fixed at the beginning, and *)
(* how long the jobs fixed at the end take from each machine on.          *)
tempsMachines(t, p) == Passage(t.tempsJob, 0, p.permutation, 0, p.limite1)
tempsMachinesFin(t, p) ==
    [m \in Machine |->
        Passage(t.tempsJob, m, p.permutation, p.limite2, Size - 1)[nbMachines - 1]]

(* The two machines' times before the open jobs. *)
initCmax(t, p, ma) ==
    LET ready == tempsMachines(t, p)
    IN  IF p.limite1 + 1 # 0 THEN <<ready[ma[1]], ready[ma[2]]>>
        ELSE <<t.minTempsArr[ma[1]], t.minTempsArr[ma[2]]>>

(* The open jobs follow on the two machines, in the order given. *)
heuristiqueCmax(t, p, ma, ordo) ==
    LET open == {p.permutation[i] : i \in Free(p)}
        place(tmp, j) ==
            LET first == tmp[1] + t.tempsJob[ma[1]][j]
            IN  <<first, max(tmp[2], first + t.tempsLag[ma][j]) + t.tempsJob[ma[2]][j]>>
    IN  FoldLeft(LAMBDA tmp, j : IF j \in open THEN place(tmp, j) ELSE tmp,
                 initCmax(t, p, ma), ordo)

(* The jobs fixed at the end follow, or at least the shortest way from the *)
(* second machine to the last.                                             *)
cmaxFin(t, p, ma, tmp) ==
    LET fin == tempsMachinesFin(t, p)
    IN  IF p.limite2 # Size THEN max(tmp[2] + fin[ma[2]], tmp[1] + fin[ma[1]])
        ELSE tmp[2] + t.minTempsDep[ma[2]]

(* The greatest bound of a pair; no more pairs once it exceeds leMeilleur. *)
borneInfMakespan(t, p) ==
    LET borne(ma) == cmaxFin(t, p, ma, heuristiqueCmax(t, p, ma, t.tabJohnson[ma]))
    IN  FoldLeft(LAMBDA moinsBon, ma :
                    IF moinsBon > leMeilleur THEN moinsBon ELSE max(moinsBon, borne(ma)),
                 0, machine)

bornes_calculer(t, p) ==
    IF p.limite2 - p.limite1 = 1 THEN criteres_calculer(t, p.permutation)
    ELSE borneInfMakespan(t, p)
=============================================================================
