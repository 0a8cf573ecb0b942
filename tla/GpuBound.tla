------------------------------ MODULE GpuBound ------------------------------
(***************************************************************************)
(* The bound as the device computes it: bound_flowshop_gpu.  The host      *)
(* sorts its own tables and copies them; a kernel thread evaluates one     *)
(* child.  The kernel has no branches: where bound_flowshop tests,         *)
(* it multiplies by coefficients that are 0 or 1, and it never stops early *)
(* in the pairs of machines.                                               *)
(***************************************************************************)
EXTENDS FlowshopBound

(* Johnson_g: two groups, and the key by which each is sorted. *)
pluspetit_g(tempsJob, ma) ==
    [j \in Position |->
        IF tempsJob[ma[1]][j] < tempsJob[ma[2]][j]
        THEN [group |-> 1, key |-> tempsJob[ma[1]][j] + tempsLag(tempsJob, ma, j)]
        ELSE [group |-> 2, key |-> tempsJob[ma[2]][j] + tempsLag(tempsJob, ma, j)]]

estInf_g(i, j) ==
    \/ i.group < j.group
    \/ i.group = j.group /\ i.group = 1 /\ i.key < j.key
    \/ i.group = j.group /\ i.group # 1 /\ i.key > j.key
estSup_g(i, j) == estInf_g(j, i)

(* Both indices step at least once, past what is on its own side of the *)
(* pivot; what they stop at trades places until they meet, which takes no *)
(* more rounds than there are jobs.                                       *)
partionner_g(keys, ordo, deb, fin) ==
    LET pivot == keys[ordo[deb]]
        down(x) == Max({k \in deb .. x.f - 1 : ~estSup_g(keys[x.ordo[k]], pivot)})
        up(x) == Min({k \in x.d + 1 .. fin : ~estInf_g(keys[x.ordo[k]], pivot)})
        trade(x) ==
            [ordo |-> [x.ordo EXCEPT ![up(x)] = x.ordo[down(x)], ![down(x)] = x.ordo[up(x)]],
             d |-> up(x), f |-> down(x)]
        met == FoldLeft(LAMBDA x, round : IF up(x) < down(x) THEN trade(x) ELSE x,
                        [ordo |-> ordo, d |-> deb - 1, f |-> fin + 1],
                        [round \in 1 .. Size |-> round])
    IN  [ordo |-> met.ordo, k |-> down(met)]

quicksort_g(keys) ==
    LET sorted[x \in [ordo : Schedule, deb : Position, fin : Position]] ==
            IF x.fin <= x.deb THEN x.ordo
            ELSE LET part == partionner_g(keys, x.ordo, x.deb, x.fin)
                     left == sorted[[ordo |-> part.ordo, deb |-> x.deb, fin |-> part.k]]
                 IN  sorted[[ordo |-> left, deb |-> part.k + 1, fin |-> x.fin]]
    IN  sorted[[ordo |-> [i \in Position |-> i], deb |-> 0, fin |-> Size - 1]]

(* remplirTempsArriverDepart_g: the least time of any job up to a machine *)
(* and after it.                                                          *)
tempsArriver_g(tempsJob, j) ==
    LET arr[k \in Machine] == IF k = 0 THEN 0 ELSE arr[k - 1] + tempsJob[k - 1][j]
    IN  arr
tempsDepart_g(tempsJob, j) ==
    LET dep[k \in Machine] ==
            IF k = nbMachines - 1 THEN 0 ELSE dep[k + 1] + tempsJob[k + 1][j]
    IN  dep

(* The host sorts tables of its own for the device. *)
initialiserVar_g(tempsJob) ==
    [tempsJob |-> tempsJob,
     tempsLag |-> [ma \in Pairs |-> [j \in Position |-> tempsLag(tempsJob, ma, j)]],
     minTempsArr |-> [m \in Machine |-> Min({tempsArriver_g(tempsJob, j)[m] : j \in Position})],
     minTempsDep |-> [m \in Machine |-> Min({tempsDepart_g(tempsJob, j)[m] : j \in Position})],
     tabJohnson |-> [ma \in Pairs |->
        LET ordo == quicksort_g(pluspetit_g(tempsJob, ma))
        IN  [i \in 1 .. Size |-> ordo[i - 1]]]]

(* Each block keeps the processing times as unsigned char. *)
shared(t) == [m \in Machine |-> [j \in Position |-> t.tempsJob[m][j] % 256]]

criteres_calculer_g(t, p) ==
    Passage(shared(t), 0, p.permutation, 0, Size - 1)[nbMachines - 1]

set_tempsMachines_g(t, p) == Passage(shared(t), 0, p.permutation, 0, p.limite1)

(* job[j] is the position of a fixed job and 0 for an open one. *)
set_job_g(p) ==
    [j \in Position |->
        LET at == CHOOSE i \in Position : p.permutation[i] = j
        IN  IF at \in Free(p) THEN 0 ELSE at + 1]

(* jobFin[k], the job at position k, is read from limite2 on. *)
set_tempsMachinesFin_g(t, p) ==
    [m \in Machine |->
        Passage(shared(t), m, p.permutation, p.limite2, Size - 1)[nbMachines - 1]]

(* The cosine of a count, cut to an integer: 1 for 0, otherwise 0, as long *)
(* as it does not round to 1 or -1; the least count that does is 355, and  *)
(* the counts are below MAX_NBJOBS = 20.                                   *)
cosf(n) == IF n = 0 THEN 1 ELSE 0

(* Mutant of initCmax_g: the index of the last fixed job for their number. *)
initCmax_gFromLimit(t, p, ma) ==
    LET ready == set_tempsMachines_g(t, p)
        coeff == cosf(p.limite1)
        start(m) == (1 - coeff) * ready[m] + coeff * t.minTempsArr[m]
    IN  <<start(ma[1]), start(ma[2])>>

initCmax_g(t, p, ma) ==
    LET ready == set_tempsMachines_g(t, p)
        coeff == cosf(p.limite1 + 1)
        start(m) == (1 - coeff) * ready[m] + coeff * t.minTempsArr[m]
    IN  <<start(ma[1]), start(ma[2])>>

heuristiqueCmax_g(t, p, ma) ==
    LET job == set_job_g(p)
        follow(tmp, j) ==
            LET first == tmp[1] + shared(t)[ma[1]][j]
            IN  <<first, max(tmp[2], first + t.tempsLag[ma][j]) + shared(t)[ma[2]][j]>>
    IN  FoldLeft(LAMBDA tmp, j : IF job[j] = 0 THEN follow(tmp, j) ELSE tmp,
                 initCmax_g(t, p, ma), t.tabJohnson[ma])

(* cmaxFin_g when jobs are fixed at the end, otherwise the least tail. *)
borne_g(t, p, ma) ==
    LET tmp == heuristiqueCmax_g(t, p, ma)
        fin == set_tempsMachinesFin_g(t, p)
    IN  IF Size - p.limite2 # 0 THEN max(tmp[2] + fin[ma[2]], tmp[1] + fin[ma[1]])
        ELSE tmp[2] + t.minTempsDep[ma[2]]

borneInfMakespan_g(t, p) ==
    FoldLeft(LAMBDA moinsBon, ma : max(moinsBon, borne_g(t, p, ma)), 0, machine)

Evaluate_ON_GPU(t, p) ==
    IF p.limite2 - p.limite1 = 1 THEN criteres_calculer_g(t, p)
    ELSE borneInfMakespan_g(t, p)

-----------------------------------------------------------------------------
(* What the device needs of an instance to agree with the host: its times  *)
(* fit in bytes, and no schedule takes longer than the value that ends the *)
(* host's loop over the pairs.                                             *)
Bytes(t) == \A m \in Machine, j \in Position : t.tempsJob[m][j] < 256
Short(t) == \A s \in Schedule : criteres_calculer(t, s) <= leMeilleur
=============================================================================
