--------------------------- MODULE ExplorerProofs ---------------------------
(***************************************************************************)
(* The bound of a subproblem, as bound_flowshop computes it and as the     *)
(* device does, and the search of one explorer, for every number of jobs   *)
(* and machines, every instance and both orders of exploration: the bound  *)
(* is a lower bound and the device's the same, branching covers every      *)
(* schedule and none twice, so that no better schedule is ever lost, every *)
(* leaf is accounted for, the order of the subproblems is strict and depth *)
(* first the tree stays small.                                             *)
(***************************************************************************)
EXTENDS Explorer, GpuBound, Sums

-----------------------------------------------------------------------------
(* One job, and a sequence of jobs, on the machines.                       *)

Times == [Machine -> [Position -> Nat]]
Loads == [Machine -> Nat]
L == nbMachines - 1

LEMMA SizeFacts == Size \in Nat /\ Size >= 2 /\ Position = 0 .. Size - 1
BY SizeAssumption DEF Position

LEMMA MachineFacts == /\ nbMachines \in Nat /\ L \in Nat /\ L >= 1 /\ Machine = 0 .. L
                      /\ L = nbMachines - 1
BY MachineAssumption DEF Machine, L

LEMMA MaxFacts ==
    ASSUME NEW i \in Int, NEW j \in Int
    PROVE  /\ max(i, j) \in Int /\ i <= max(i, j) /\ j <= max(i, j)
           /\ max(i, j) = i \/ max(i, j) = j
BY DEF max

(* A job passes one machine after the other, and each when it is free. *)
LEMMA ThroughSteps ==
    ASSUME NEW tempsJob \in Times, NEW from \in Machine, NEW temps \in Loads,
           NEW job \in Position
    PROVE  LET end == Through(tempsJob, from, temps, job)
           IN  /\ end \in Loads
               /\ \A m \in Machine : m < from => end[m] = 0
               /\ end[from] = temps[from] + tempsJob[from][job]
               /\ \A m \in from + 1 .. L :
                     end[m] = max(temps[m], end[m - 1]) + tempsJob[m][job]
<1>. DEFINE n == L - from
            step == [i \in 1 .. n |->
                        [a \in Nat |-> max(temps[from + i], a) + tempsJob[from + i][job]]]
            base == temps[from] + tempsJob[from][job]
            Def(a) == [m \in from .. L |->
                          IF m = from THEN temps[m] + tempsJob[m][job]
                          ELSE max(temps[m], a[m - 1]) + tempsJob[m][job]]
<1>. L \in Nat /\ Machine = 0 .. L /\ L = nbMachines - 1 /\ nbMachines \in Nat
    BY MachineFacts
<1>1. n \in Nat /\ base \in Nat /\ Turns(step, 1 .. n, Nat)
  <2>1. \A i \in 1 .. n : from + i \in Machine
      OBVIOUS
  <2>2. \A m \in Machine : temps[m] \in Nat /\ tempsJob[m][job] \in Nat
      BY DEF Times, Loads
  <2>3. \A i \in 1 .. n : temps[from + i] \in Nat /\ tempsJob[from + i][job] \in Nat
      BY <2>1, <2>2
  <2>4. n \in Nat /\ base \in Nat
      BY <2>2
  <2>5. \A x, y \in Nat : max(x, y) \in Nat
      BY DEF max
  <2>6. ASSUME NEW i \in 1 .. n, NEW a \in Nat
        PROVE  max(temps[from + i], a) + tempsJob[from + i][job] \in Nat
    <3>1. temps[from + i] \in Nat /\ tempsJob[from + i][job] \in Nat
        BY <2>3
    <3>2. max(temps[from + i], a) \in Nat
        BY <2>5, <3>1
    <3>. QED
        BY <3>1, <3>2
  <2>7. step \in [1 .. n -> [Nat -> Nat]]
      BY <2>6
  <2>. QED
      BY <2>4, <2>7 DEF Turns
<1>. HIDE DEF step, base
<1>2. PICK f : Recursive(f, n, Nat, base, step)
  <2>. HIDE DEF n
  <2>. QED
      BY <1>1, Recursion
<1>2a. /\ f \in [0 .. n -> Nat] /\ f[0] = base
       /\ \A i \in 1 .. n : f[i] = step[i][f[i - 1]]
    BY <1>2 DEF Recursive
<1>3. \E a : a = Def(a)
  <2>. DEFINE a == [m \in from .. L |-> f[m - from]]
  <2>1. ASSUME NEW m \in from .. L
        PROVE  a[m] = IF m = from THEN temps[m] + tempsJob[m][job]
                      ELSE max(temps[m], a[m - 1]) + tempsJob[m][job]
    <3>1. CASE m = from
        BY <1>2a, <3>1 DEF base
    <3>2. CASE m # from
      <4>1. m - from \in 1 .. n /\ m - 1 \in from .. L /\ (m - 1) - from = (m - from) - 1
            /\ from + (m - from) = m
          BY <3>2
      <4>2. a[m] = step[m - from][f[(m - from) - 1]] /\ f[(m - from) - 1] \in Nat
          BY <1>2a, <4>1
      <4>3. a[m - 1] = f[(m - from) - 1]
          BY <4>1
      <4>. HIDE DEF a, n
      <4>. QED
          BY <3>2, <4>1, <4>2, <4>3 DEF step
    <3>. QED
        BY <3>1, <3>2
  <2>2. a = Def(a)
      BY <2>1
  <2>. QED
      BY <2>2
<1>4. PICK a : a = Def(a) /\ Through(tempsJob, from, temps, job)
                               = [m \in Machine |-> IF m < from THEN 0 ELSE a[m]]
  <2>. DEFINE chosen == CHOOSE b : b = Def(b)
  <2>1. chosen = Def(chosen)
      BY <1>3
  <2>2. Through(tempsJob, from, temps, job)
           = [m \in Machine |-> IF m < from THEN 0 ELSE chosen[m]]
      BY DEF Through
  <2>. HIDE DEF chosen
  <2>. QED
      BY <2>1, <2>2
<1>5. /\ a[from] = temps[from] + tempsJob[from][job]
      /\ \A m \in from + 1 .. L : a[m] = max(temps[m], a[m - 1]) + tempsJob[m][job]
  <2>1. \A m \in from .. L : a[m] = IF m = from THEN temps[m] + tempsJob[m][job]
                                    ELSE max(temps[m], a[m - 1]) + tempsJob[m][job]
      BY <1>4
  <2>. QED
      BY <2>1
<1>6. \A i \in 0 .. n : a[from + i] \in Nat
  <2>. DEFINE S == {i \in 0 .. n : a[from + i] \in Nat}
  <2>0. \A m \in Machine : temps[m] \in Nat /\ tempsJob[m][job] \in Nat
      BY DEF Times, Loads
  <2>1. 0 \in S
      BY <1>1, <1>5, <2>0
  <2>2. ASSUME NEW i \in 1 .. n, i - 1 \in S PROVE i \in S
    <3>1. from + i \in from + 1 .. L /\ (from + i) - 1 = from + (i - 1) /\ from + i \in Machine
        OBVIOUS
    <3>2. a[from + i] = max(temps[from + i], a[from + (i - 1)]) + tempsJob[from + i][job]
        BY <1>5, <3>1
    <3>3. a[from + (i - 1)] \in Nat
        BY <2>2
    <3>4. temps[from + i] \in Nat /\ tempsJob[from + i][job] \in Nat
        BY <2>0, <3>1
    <3>5. a[from + i] \in Nat
        BY SMTT(30), <3>2, <3>3, <3>4 DEF max
    <3>. QED
        BY <3>5
  <2>. HIDE DEF S
  <2>3. 0 .. n \subseteq S
      BY <1>1, <2>1, <2>2, UpTo
  <2>. QED
      BY <2>3 DEF S
<1>7. \A m \in from .. L : a[m] \in Nat
  <2>1. \A m \in from .. L : m - from \in 0 .. n /\ from + (m - from) = m
      OBVIOUS
  <2>. QED
      BY <1>6, <2>1
<1>. DEFINE end == Through(tempsJob, from, temps, job)
<1>8. end \in Loads
    BY <1>4, <1>7 DEF Loads
<1>9. \A m \in Machine : end[m] = IF m < from THEN 0 ELSE a[m]
    BY <1>4
<1>10. from \in Machine /\ \A m \in from + 1 .. L : m \in Machine /\ ~(m < from) /\ m - 1 \in Machine
                                                  /\ ~(m - 1 < from)
    OBVIOUS
<1>. HIDE DEF end
<1>11. /\ \A m \in Machine : m < from => end[m] = 0
       /\ end[from] = temps[from] + tempsJob[from][job]
    BY <1>5, <1>9, <1>10
<1>12. \A m \in from + 1 .. L : end[m] = max(temps[m], end[m - 1]) + tempsJob[m][job]
    BY <1>5, <1>9, <1>10
<1>. QED
    BY <1>8, <1>11, <1>12 DEF end

(* The times after each of n jobs, the first at a given position. *)
Passes(f, tempsJob, from, permutation, first, n) ==
    /\ f \in [0 .. n -> Loads] /\ f[0] = [m \in Machine |-> 0]
    /\ \A k \in 1 .. n : f[k] = Through(tempsJob, from, f[k - 1], permutation[first + k - 1])

LEMMA PassageSteps ==
    ASSUME NEW tempsJob \in Times, NEW from \in Machine,
           NEW permutation \in [Position -> Position],
           NEW first \in Nat, NEW last \in Int, last <= Size - 1, last - first + 1 \in Nat
    PROVE  \E f : /\ Passes(f, tempsJob, from, permutation, first, last - first + 1)
                  /\ Passage(tempsJob, from, permutation, first, last) = f[last - first + 1]
<1>. DEFINE n == last - first + 1
            q == [i \in 1 .. n |-> permutation[first + i - 1]]
            base == [m \in Machine |-> 0]
            step == [j \in Position |-> [temps \in Loads |-> Through(tempsJob, from, temps, j)]]
            Def(a) == [s \in SUBSET (1 .. n) |->
                          IF s = {} THEN base
                          ELSE Through(tempsJob, from, a[s \ {Max(s)}], q[Max(s)])]
<1>1. n \in Nat /\ \A i \in 1 .. n : first + i - 1 \in Position
    BY SizeFacts
<1>2. q \in [1 .. n -> Position] /\ Listed(q, n, Position) /\ base \in Loads
    BY <1>1 DEF Loads, Listed
<1>3. Turns(step, Position, Loads)
    BY ThroughSteps DEF Turns
<1>4. Passage(tempsJob, from, permutation, first, last) = (CHOOSE a : a = Def(a))[1 .. n]
    BY DEF Passage, FoldLeft, MapThenFoldSet
<1>. HIDE DEF n, q, base
<1>5. PICK f : FoldOfPlaces(f, n, q, Loads, base, step)
  <2>. HIDE DEF step
  <2>. QED
      BY <1>1, <1>2, <1>3, FoldOverPlaces
<1>6. f = Def(f)
  <2>0. /\ f \in [SUBSET (1 .. n) -> Loads] /\ f[{}] = base
        /\ \A s \in SUBSET (1 .. n) : s # {} => f[s] = step[q[Max(s)]][f[s \ {Max(s)}]]
      BY <1>5 DEF FoldOfPlaces
  <2>1. \A s \in SUBSET (1 .. n) : s # {} => Max(s) \in 1 .. n
      BY <1>1, Greatest
  <2>2. \A s \in SUBSET (1 .. n) : s # {} => q[Max(s)] \in Position /\ f[s \ {Max(s)}] \in Loads
      BY <1>2, <2>0, <2>1
  <2>. QED
      BY <2>0, <2>2
<1>. DEFINE a == CHOOSE a : a = Def(a)
<1>7. a = Def(a)
    BY <1>6
<1>. HIDE DEF a
<1>8. a[{}] = base
    BY <1>7
<1>9. ASSUME NEW k \in 1 .. n, a[1 .. k - 1] \in Loads
      PROVE  a[1 .. k] = step[q[k]][a[1 .. k - 1]]
  <2>1. /\ 1 .. k \in SUBSET (1 .. n) /\ 1 .. k # {}
        /\ Max(1 .. k) = k /\ (1 .. k) \ {k} = 1 .. k - 1
      BY <1>1, Initial
  <2>2. a[1 .. k] = Through(tempsJob, from, a[1 .. k - 1], q[k])
      BY <1>7, <2>1
  <2>3. q[k] \in Position
      BY <1>2
  <2>. QED
      BY <1>9, <2>2, <2>3
<1>9a. Unfolds(a, n, q, Loads, base, step)
    BY <1>8, <1>9 DEF Unfolds
<1>10. PICK g : LeftFold(g, n, q, Loads, base, step) /\ g[n] = a[1 .. n]
  <2>. HIDE DEF step
  <2>. QED
      BY <1>1, <1>2, <1>3, <1>9a, FoldOverPrefixes
<1>11. Passes(g, tempsJob, from, permutation, first, n)
  <2>1. /\ g \in [0 .. n -> Loads] /\ g[0] = base
        /\ \A k \in 1 .. n : g[k] = step[q[k]][g[k - 1]]
      BY <1>10 DEF LeftFold
  <2>2a. \A k \in 1 .. n : k - 1 \in 0 .. n
      BY <1>1
  <2>2b. \A k \in 1 .. n : q[k] \in Position /\ g[k - 1] \in Loads
      BY <1>2, <2>1, <2>2a
  <2>2. \A k \in 1 .. n : q[k] \in Position /\ g[k - 1] \in Loads /\ q[k] = permutation[first + k - 1]
      BY <2>2b DEF q
  <2>3. \A k \in 1 .. n : g[k] = Through(tempsJob, from, g[k - 1], permutation[first + k - 1])
      BY <2>1, <2>2
  <2>. QED
      BY <2>1, <2>3 DEF Passes, base
<1>12. Passage(tempsJob, from, permutation, first, last) = g[n]
    BY <1>4, <1>10 DEF a
<1>. QED
    BY <1>11, <1>12 DEF n

-----------------------------------------------------------------------------
(* The tables of an instance.                                              *)

LEMMA IntervalFinite == IsFiniteSet(Machine) /\ IsFiniteSet(Position)
BY FS_Interval, MachineFacts, SizeFacts

LEMMA BetweenFacts ==
    ASSUME NEW tempsJob \in Times, NEW j \in Position
    PROVE  /\ \A M \in SUBSET Machine : Between(tempsJob, j, M) \in Nat
           /\ Between(tempsJob, j, {}) = 0
           /\ \A M \in SUBSET Machine, m \in Machine :
                 m \notin M => Between(tempsJob, j, M \cup {m})
                                  = Between(tempsJob, j, M) + tempsJob[m][j]
<1>. DEFINE f == [k \in Machine |-> tempsJob[k][j]]
<1>1. \A M : Between(tempsJob, j, M) = Total(f, M)
    BY DEF Between, Total
<1>2. \A k \in Machine : f[k] \in Nat /\ f[k] = tempsJob[k][j]
    BY DEF Times
<1>. HIDE DEF f
<1>3. ASSUME NEW M \in SUBSET Machine PROVE Total(f, M) \in Nat
  <2>1. IsFiniteSet(M) /\ \A k \in M : f[k] \in Int /\ f[k] >= 0
      BY <1>2, IntervalFinite, FS_Subset
  <2>2. Total(f, M) >= 0
      BY <2>1, TotalSign
  <2>3. Total(f, M) \in Int
    <3>1. M \in SUBSET M
        OBVIOUS
    <3>. QED
        BY <2>1, <3>1, TotalWithout
  <2>. QED
      BY <2>2, <2>3
<1>4. ASSUME NEW M \in SUBSET Machine, NEW m \in Machine, m \notin M
      PROVE  Total(f, M \cup {m}) = Total(f, M) + f[m]
    BY <1>2, <1>4, IntervalFinite, TotalWith
<1>. QED
    BY <1>1, <1>2, <1>3, <1>4, TotalNone

(* One machine more on either side of a range. *)
LEMMA BetweenSteps ==
    ASSUME NEW tempsJob \in Times, NEW j \in Position, NEW a \in Machine, NEW b \in Machine, a <= b
    PROVE  /\ Between(tempsJob, j, a .. b) = Between(tempsJob, j, a .. b - 1) + tempsJob[b][j]
           /\ Between(tempsJob, j, a .. b) \in Nat /\ Between(tempsJob, j, a .. b - 1) \in Nat
<1>1. a .. b = (a .. b - 1) \cup {b} /\ b \notin a .. b - 1
    BY MachineFacts
<1>2. a .. b - 1 \in SUBSET Machine /\ a .. b \in SUBSET Machine
    BY MachineFacts
<1>3. /\ Between(tempsJob, j, a .. b) \in Nat /\ Between(tempsJob, j, a .. b - 1) \in Nat
      /\ Between(tempsJob, j, (a .. b - 1) \cup {b}) = Between(tempsJob, j, a .. b - 1) + tempsJob[b][j]
    BY <1>1, <1>2, BetweenFacts
<1>. QED
    BY <1>1, <1>3

LEMMA LeastOf ==
    ASSUME NEW T, T \subseteq Nat, T # {}
    PROVE  Min(T) \in T /\ \A x \in T : Min(T) <= x
<1>1. \E n \in T : \A m \in T : n <= m
    BY LeastNumber
<1>. QED
    BY <1>1 DEF Min

(* What the proofs use of the tables. *)
Tables(t) ==
    /\ t.tempsJob \in Times
    /\ \A ma \in Pairs, j \in Position :
          t.tempsLag[ma][j] = Between(t.tempsJob, j, ma[1] + 1 .. ma[2] - 1)
    /\ \A m \in Machine :
          /\ t.minTempsArr[m] \in Nat /\ t.minTempsDep[m] \in Nat
          /\ \A j \in Position :
                /\ t.minTempsArr[m] <= Between(t.tempsJob, j, 0 .. m - 1)
                /\ t.minTempsDep[m] <= Between(t.tempsJob, j, m + 1 .. L)
    /\ \A ma \in Pairs : t.tabJohnson[ma] \in Johnson(t.tempsJob, ma)

LEMMA TablesMade ==
    ASSUME NEW tempsJob \in Times, NEW t \in initialiserVar(tempsJob)
    PROVE  Tables(t) /\ t.tempsJob = tempsJob
<1>1. /\ t.tempsJob = tempsJob
      /\ t.tempsLag = [ma \in Pairs |-> [j \in Position |-> tempsLag(tempsJob, ma, j)]]
      /\ t.minTempsArr = [m \in Machine |-> minTempsArr(tempsJob, m)]
      /\ t.minTempsDep = [m \in Machine |-> minTempsDep(tempsJob, m)]
      /\ \A ma \in Pairs : t.tabJohnson[ma] \in Johnson(tempsJob, ma)
    BY DEF initialiserVar
<1>2. ASSUME NEW m \in Machine
      PROVE  /\ minTempsArr(tempsJob, m) \in Nat /\ minTempsDep(tempsJob, m) \in Nat
             /\ \A j \in Position :
                   /\ minTempsArr(tempsJob, m) <= Between(tempsJob, j, 0 .. m - 1)
                   /\ minTempsDep(tempsJob, m) <= Between(tempsJob, j, m + 1 .. L)
  <2>. DEFINE A == {Between(tempsJob, j, 0 .. m - 1) : j \in Position}
              D == {Between(tempsJob, j, m + 1 .. nbMachines - 1) : j \in Position}
  <2>1. 0 .. m - 1 \in SUBSET Machine /\ m + 1 .. nbMachines - 1 \in SUBSET Machine
      BY MachineFacts
  <2>2. 0 \in Position
      BY SizeFacts
  <2>2a. \A j \in Position : Between(tempsJob, j, 0 .. m - 1) \in Nat
                             /\ Between(tempsJob, j, m + 1 .. nbMachines - 1) \in Nat
      BY <2>1, BetweenFacts
  <2>3. A \subseteq Nat /\ A # {} /\ D \subseteq Nat /\ D # {}
      BY <2>2, <2>2a
  <2>4. /\ Min(A) \in A /\ \A x \in A : Min(A) <= x
        /\ Min(D) \in D /\ \A x \in D : Min(D) <= x
    <3>. HIDE DEF A, D
    <3>. QED
        BY <2>3, LeastOf
  <2>5. minTempsArr(tempsJob, m) = Min(A) /\ minTempsDep(tempsJob, m) = Min(D)
      BY DEF minTempsArr, minTempsDep
  <2>6. \A j \in Position : Between(tempsJob, j, 0 .. m - 1) \in A
                            /\ Between(tempsJob, j, m + 1 .. L) \in D
      BY MachineFacts
  <2>. HIDE DEF A, D
  <2>. QED
      BY <2>3, <2>4, <2>5, <2>6
<1>. QED
    BY <1>1, <1>2 DEF Tables, tempsLag

-----------------------------------------------------------------------------
(* What comes of a passage. *)
LEMMA PassageType ==
    ASSUME NEW tempsJob \in Times, NEW from \in Machine,
           NEW permutation \in [Position -> Position],
           NEW first \in Nat, NEW last \in Int, last <= Size - 1, last - first + 1 \in Nat
    PROVE  Passage(tempsJob, from, permutation, first, last) \in Loads
<1>. DEFINE n == last - first + 1
<1>1. PICK f : /\ Passes(f, tempsJob, from, permutation, first, n)
               /\ Passage(tempsJob, from, permutation, first, last) = f[n]
    BY PassageSteps
<1>. QED
    BY <1>1 DEF Passes

LEMMA ScheduleFacts ==
    ASSUME NEW s \in Schedule
    PROVE  /\ s \in [Position -> Position]
           /\ \A i, j \in Position : s[i] = s[j] => i = j
           /\ \A v \in Position : \E i \in Position : s[i] = v
BY DEF Schedule

LEMMA MakespanType ==
    ASSUME NEW t, Tables(t), NEW s \in Schedule
    PROVE  criteres_calculer(t, s) \in Nat
<1>1. 0 \in Machine /\ L \in Machine
    BY MachineFacts
<1>2. s \in [Position -> Position] /\ t.tempsJob \in Times
    BY ScheduleFacts DEF Tables
<1>3. Size - 1 \in Int /\ (Size - 1) - 0 + 1 \in Nat /\ 0 \in Nat /\ Size - 1 <= Size - 1
    BY SizeFacts
<1>4. Passage(t.tempsJob, 0, s, 0, Size - 1) \in Loads
    BY <1>1, <1>2, <1>3, PassageType
<1>. QED
    BY <1>1, <1>4 DEF criteres_calculer, Loads, L

(* The fields of a subproblem that the bound reads. *)
Frame(p) ==
    /\ p.permutation \in Schedule
    /\ p.limite1 \in -1 .. Size - 1 /\ p.limite2 \in 0 .. Size /\ p.limite1 < p.limite2

LEMMA MachineTimes ==
    ASSUME NEW t, Tables(t), NEW p, Frame(p)
    PROVE  /\ tempsMachines(t, p) \in Loads
           /\ tempsMachinesFin(t, p) \in Loads
<1>1. 0 \in Machine /\ L \in Machine /\ p.permutation \in [Position -> Position] /\ t.tempsJob \in Times
    BY MachineFacts, ScheduleFacts DEF Frame, Tables
<1>2. /\ p.limite1 \in Int /\ p.limite1 <= Size - 1 /\ p.limite1 - 0 + 1 \in Nat
      /\ p.limite2 \in Nat /\ Size - 1 \in Int /\ (Size - 1) - p.limite2 + 1 \in Nat
    BY SizeFacts DEF Frame
<1>3. tempsMachines(t, p) \in Loads
    BY <1>1, <1>2, PassageType DEF tempsMachines
<1>4. \A m \in Machine : Passage(t.tempsJob, m, p.permutation, p.limite2, Size - 1) \in Loads
    BY <1>1, <1>2, PassageType
<1>5. tempsMachinesFin(t, p) \in Loads
    BY <1>1, <1>4, MachineFacts DEF tempsMachinesFin, Loads
<1>. QED
    BY <1>3, <1>5

LEMMA PairFacts ==
    ASSUME NEW ma \in Pairs
    PROVE  ma[1] \in Machine /\ ma[2] \in Machine /\ ma[1] < ma[2] /\ ma = <<ma[1], ma[2]>>
BY DEF Pairs

LEMMA InitCmaxType ==
    ASSUME NEW t, Tables(t), NEW p, Frame(p), NEW ma \in Pairs
    PROVE  initCmax(t, p, ma)[1] \in Nat /\ initCmax(t, p, ma)[2] \in Nat
           /\ initCmax(t, p, ma) = <<initCmax(t, p, ma)[1], initCmax(t, p, ma)[2]>>
<1>1. tempsMachines(t, p)[ma[1]] \in Nat /\ tempsMachines(t, p)[ma[2]] \in Nat
    BY MachineTimes, PairFacts DEF Loads
<1>2. t.minTempsArr[ma[1]] \in Nat /\ t.minTempsArr[ma[2]] \in Nat
    BY PairFacts DEF Tables
<1>. QED
    BY <1>1, <1>2 DEF initCmax

-----------------------------------------------------------------------------
(* Two machines with lags: the open jobs in some order.                    *)
LEMMA OrderFacts ==
    ASSUME NEW ordo \in Orders
    PROVE  /\ ordo \in [1 .. Size -> Position]
           /\ \A h, i \in 1 .. Size : ordo[h] = ordo[i] => h = i
           /\ \A j \in Position : \E i \in 1 .. Size : ordo[i] = j
<1>1. PICK s \in Schedule : ordo = [i \in 1 .. Size |-> s[i - 1]]
    BY DEF Orders
<1>2. \A i \in 1 .. Size : i - 1 \in Position
    BY SizeFacts
<1>3. \A h, i \in 1 .. Size : ordo[h] = ordo[i] => h = i
  <2>. SUFFICES ASSUME NEW h \in 1 .. Size, NEW i \in 1 .. Size, ordo[h] = ordo[i] PROVE h = i
      OBVIOUS
  <2>1. h - 1 = i - 1
      BY <1>1, <1>2, ScheduleFacts
  <2>. QED
      BY <2>1
<1>4. \A j \in Position : \E i \in 1 .. Size : ordo[i] = j
  <2>. SUFFICES ASSUME NEW j \in Position PROVE \E i \in 1 .. Size : ordo[i] = j
      OBVIOUS
  <2>1. PICK k \in Position : s[k] = j
      BY ScheduleFacts
  <2>2. k + 1 \in 1 .. Size /\ (k + 1) - 1 = k
      BY SizeFacts
  <2>. QED
      BY <1>1, <2>1, <2>2
<1>5. ordo \in [1 .. Size -> Position]
    BY <1>1, <1>2, ScheduleFacts
<1>. QED
    BY <1>3, <1>4, <1>5

OpenJobs(p) == {p.permutation[i] : i \in Free(p)}
Pair == Nat \X Nat

Placed(t, ma, j, tmp) ==
    LET first == tmp[1] + t.tempsJob[ma[1]][j]
    IN  <<first, max(tmp[2], first + t.tempsLag[ma][j]) + t.tempsJob[ma[2]][j]>>

LEMMA PlacedType ==
    ASSUME NEW t, Tables(t), NEW ma \in Pairs, NEW j \in Position, NEW tmp \in Pair
    PROVE  /\ Placed(t, ma, j, tmp) \in Pair
           /\ t.tempsJob[ma[1]][j] \in Nat /\ t.tempsJob[ma[2]][j] \in Nat /\ t.tempsLag[ma][j] \in Nat
<1>1. t.tempsJob[ma[1]][j] \in Nat /\ t.tempsJob[ma[2]][j] \in Nat
    BY PairFacts DEF Tables, Times
<1>2. t.tempsLag[ma][j] \in Nat
  <2>1. ma[1] + 1 .. ma[2] - 1 \in SUBSET Machine
      BY PairFacts, MachineFacts
  <2>2. Between(t.tempsJob, j, ma[1] + 1 .. ma[2] - 1) \in Nat
      BY <2>1, BetweenFacts DEF Tables
  <2>. QED
      BY <2>2 DEF Tables
<1>3. tmp[1] \in Nat /\ tmp[2] \in Nat
    BY DEF Pair
<1>4. \A a, b \in Nat : max(a, b) \in Nat
    BY DEF max
<1>5. Placed(t, ma, j, tmp) \in Pair
  <2>. DEFINE first == tmp[1] + t.tempsJob[ma[1]][j]
  <2>1. first \in Nat /\ first + t.tempsLag[ma][j] \in Nat
      BY <1>1, <1>2, <1>3
  <2>2. max(tmp[2], first + t.tempsLag[ma][j]) \in Nat
      BY <1>3, <1>4, <2>1
  <2>3. max(tmp[2], first + t.tempsLag[ma][j]) + t.tempsJob[ma[2]][j] \in Nat
      BY <1>1, <2>2
  <2>. QED
      BY <2>1, <2>3 DEF Placed, Pair
<1>. QED
    BY <1>1, <1>2, <1>5

(* The times of the two machines after each job of the order. *)
Follows(f, t, p, ma, ordo) ==
    /\ f \in [0 .. Size -> Pair] /\ f[0] = initCmax(t, p, ma)
    /\ \A i \in 1 .. Size :
          f[i] = IF ordo[i] \in OpenJobs(p) THEN Placed(t, ma, ordo[i], f[i - 1]) ELSE f[i - 1]

LEMMA HeuristicSteps ==
    ASSUME NEW t, Tables(t), NEW p, Frame(p), NEW ma \in Pairs, NEW ordo \in Orders
    PROVE  \E f : Follows(f, t, p, ma, ordo) /\ heuristiqueCmax(t, p, ma, ordo) = f[Size]
<1>. DEFINE n == Size
            base == initCmax(t, p, ma)
            step == [j \in Position |-> [tmp \in Pair |->
                        IF j \in OpenJobs(p) THEN Placed(t, ma, j, tmp) ELSE tmp]]
            Def(a) == [s \in SUBSET (1 .. n) |->
                          IF s = {} THEN base
                          ELSE IF ordo[Max(s)] \in OpenJobs(p)
                               THEN Placed(t, ma, ordo[Max(s)], a[s \ {Max(s)}])
                               ELSE a[s \ {Max(s)}]]
<1>1. n \in Nat
    BY SizeFacts
<1>2. ordo \in [1 .. n -> Position] /\ Listed(ordo, n, Position) /\ base \in Pair
  <2>1. base \in Pair
    <3>. HIDE DEF base
    <3>1. base[1] \in Nat /\ base[2] \in Nat /\ base = <<base[1], base[2]>>
        BY InitCmaxType DEF base
    <3>. QED
        BY <3>1 DEF Pair
  <2>. QED
      BY <2>1, OrderFacts DEF Listed
<1>3. Turns(step, Position, Pair)
    BY PlacedType DEF Turns
<1>4. heuristiqueCmax(t, p, ma, ordo) = (CHOOSE a : a = Def(a))[1 .. n]
  <2>1. DOMAIN ordo = 1 .. n
      BY <1>2
  <2>. QED
      BY <2>1 DEF heuristiqueCmax, FoldLeft, MapThenFoldSet, OpenJobs, Placed
<1>. HIDE DEF n, base
<1>5. PICK f : FoldOfPlaces(f, n, ordo, Pair, base, step)
  <2>. HIDE DEF step
  <2>. QED
      BY <1>1, <1>2, <1>3, FoldOverPlaces
<1>6. f = Def(f)
  <2>0. /\ f \in [SUBSET (1 .. n) -> Pair] /\ f[{}] = base
        /\ \A s \in SUBSET (1 .. n) : s # {} => f[s] = step[ordo[Max(s)]][f[s \ {Max(s)}]]
      BY <1>5 DEF FoldOfPlaces
  <2>1. \A s \in SUBSET (1 .. n) : s # {} => Max(s) \in 1 .. n
      BY <1>1, Greatest
  <2>2. \A s \in SUBSET (1 .. n) : s # {} => ordo[Max(s)] \in Position /\ f[s \ {Max(s)}] \in Pair
      BY <1>2, <2>0, <2>1
  <2>. QED
      BY <2>0, <2>2
<1>. DEFINE a == CHOOSE a : a = Def(a)
<1>7. a = Def(a)
    BY <1>6
<1>. HIDE DEF a
<1>8. a[{}] = base
    BY <1>7
<1>9. ASSUME NEW k \in 1 .. n, a[1 .. k - 1] \in Pair
      PROVE  a[1 .. k] = step[ordo[k]][a[1 .. k - 1]]
  <2>1. /\ 1 .. k \in SUBSET (1 .. n) /\ 1 .. k # {}
        /\ Max(1 .. k) = k /\ (1 .. k) \ {k} = 1 .. k - 1
      BY <1>1, Initial
  <2>2. a[1 .. k] = IF ordo[k] \in OpenJobs(p) THEN Placed(t, ma, ordo[k], a[1 .. k - 1])
                    ELSE a[1 .. k - 1]
      BY <1>7, <2>1
  <2>3. ordo[k] \in Position
      BY <1>2
  <2>. QED
      BY <1>9, <2>2, <2>3
<1>10. Unfolds(a, n, ordo, Pair, base, step)
    BY <1>8, <1>9 DEF Unfolds
<1>11. PICK g : LeftFold(g, n, ordo, Pair, base, step) /\ g[n] = a[1 .. n]
  <2>. HIDE DEF step
  <2>. QED
      BY <1>1, <1>2, <1>3, <1>10, FoldOverPrefixes
<1>12. Follows(g, t, p, ma, ordo)
  <2>1. /\ g \in [0 .. n -> Pair] /\ g[0] = base
        /\ \A k \in 1 .. n : g[k] = step[ordo[k]][g[k - 1]]
      BY <1>11 DEF LeftFold
  <2>2. \A k \in 1 .. n : k - 1 \in 0 .. n
      BY <1>1
  <2>3. \A k \in 1 .. n : ordo[k] \in Position /\ g[k - 1] \in Pair
      BY <1>2, <2>1, <2>2
  <2>4. \A k \in 1 .. n : g[k] = IF ordo[k] \in OpenJobs(p) THEN Placed(t, ma, ordo[k], g[k - 1])
                                 ELSE g[k - 1]
      BY <2>1, <2>3
  <2>. QED
      BY <2>1, <2>4 DEF Follows, base, n
<1>13. heuristiqueCmax(t, p, ma, ordo) = g[n]
    BY <1>4, <1>11 DEF a
<1>. QED
    BY <1>12, <1>13 DEF n

(* The open jobs among the first of an order. *)
Done(p, ordo, i) == OpenJobs(p) \cap {ordo[h] : h \in 1 .. i}

LEMMA DoneSteps ==
    ASSUME NEW p, Frame(p), NEW ordo \in Orders
    PROVE  /\ OpenJobs(p) \in SUBSET Position
           /\ Done(p, ordo, 0) = {} /\ Done(p, ordo, Size) = OpenJobs(p)
           /\ \A i \in 1 .. Size :
                 /\ ordo[i] \in OpenJobs(p) => /\ ordo[i] \notin Done(p, ordo, i - 1)
                                           /\ Done(p, ordo, i) = Done(p, ordo, i - 1) \cup {ordo[i]}
                 /\ ordo[i] \notin OpenJobs(p) => Done(p, ordo, i) = Done(p, ordo, i - 1)
<1>1. OpenJobs(p) \in SUBSET Position
  <2>1. \A i \in Free(p) : i \in Position
      BY SizeFacts DEF Free, Frame
  <2>2. \A i \in Position : p.permutation[i] \in Position
      BY ScheduleFacts DEF Frame
  <2>. QED
      BY <2>1, <2>2 DEF OpenJobs
<1>2. Done(p, ordo, 0) = {}
    BY DEF Done
<1>3. Done(p, ordo, Size) = OpenJobs(p)
    BY <1>1, OrderFacts DEF Done
<1>4. ASSUME NEW i \in 1 .. Size
      PROVE  /\ ordo[i] \in OpenJobs(p) => /\ ordo[i] \notin Done(p, ordo, i - 1)
                                       /\ Done(p, ordo, i) = Done(p, ordo, i - 1) \cup {ordo[i]}
             /\ ordo[i] \notin OpenJobs(p) => Done(p, ordo, i) = Done(p, ordo, i - 1)
  <2>1. 1 .. i = (1 .. i - 1) \cup {i} /\ i \notin 1 .. i - 1 /\ 1 .. i - 1 \subseteq 1 .. Size
      BY SizeFacts
  <2>2. {ordo[h] : h \in 1 .. i} = {ordo[h] : h \in 1 .. i - 1} \cup {ordo[i]}
      BY <2>1
  <2>3. ordo[i] \notin {ordo[h] : h \in 1 .. i - 1}
      BY <2>1, OrderFacts
  <2>. QED
      BY <2>2, <2>3 DEF Done
<1>. QED
    BY <1>1, <1>2, <1>3, <1>4

Gain(t, ma) == [j \in Position |-> t.tempsJob[ma[1]][j] - t.tempsJob[ma[2]][j]]

(* When the i-th job of an order keeps the second machine waiting, and all *)
(* the jobs after it follow at once, the time at which they end is this    *)
(* and the sum of all times on the second machine.                         *)
Term(t, p, ma, ordo, i) ==
    initCmax(t, p, ma)[1] + t.tempsJob[ma[1]][ordo[i]] + t.tempsLag[ma][ordo[i]]
        + Total(Gain(t, ma), Done(p, ordo, i - 1))

(* Max-plus: the times after i jobs. *)
Reached(f, t, p, ma, ordo, i) ==
    LET b == initCmax(t, p, ma)
        q == Total(t.tempsJob[ma[2]], Done(p, ordo, i))
        placed == {h \in 1 .. i : ordo[h] \in OpenJobs(p)}
    IN  /\ f[i][1] = b[1] + Total(t.tempsJob[ma[1]], Done(p, ordo, i))
        /\ f[i][2] >= b[2] + q
        /\ \A h \in placed : f[i][2] >= q + Term(t, p, ma, ordo, h)
        /\ f[i][2] = b[2] + q \/ \E h \in placed : f[i][2] = q + Term(t, p, ma, ordo, h)

LEMMA ReachedNext ==
    ASSUME NEW t, Tables(t), NEW p, Frame(p), NEW ma \in Pairs, NEW ordo \in Orders,
           NEW f, Follows(f, t, p, ma, ordo),
           NEW i \in 1 .. Size, Reached(f, t, p, ma, ordo, i - 1)
    PROVE  Reached(f, t, p, ma, ordo, i)
<1>. DEFINE b == initCmax(t, p, ma)
            P == t.tempsJob[ma[1]]
            Q == t.tempsJob[ma[2]]
            lag == t.tempsLag[ma]
            j == ordo[i]
            D == Done(p, ordo, i - 1)
            E == Done(p, ordo, i)
            term(h) == Term(t, p, ma, ordo, h)
            q == Total(Q, D)
            old == {h \in 1 .. i - 1 : ordo[h] \in OpenJobs(p)}
            new == {h \in 1 .. i : ordo[h] \in OpenJobs(p)}
<1>1. /\ f \in [0 .. Size -> Pair]
      /\ f[i] = IF j \in OpenJobs(p) THEN Placed(t, ma, j, f[i - 1]) ELSE f[i - 1]
    BY DEF Follows
<1>2. f[i - 1] \in Pair /\ f[i - 1][1] \in Nat /\ f[i - 1][2] \in Nat
  <2>1. i - 1 \in 0 .. Size
      BY SizeFacts
  <2>. QED
      BY <1>1, <2>1 DEF Pair
<1>3. /\ f[i - 1][1] = b[1] + Total(P, D)
      /\ f[i - 1][2] >= b[2] + q
      /\ \A h \in old : f[i - 1][2] >= q + term(h)
      /\ f[i - 1][2] = b[2] + q \/ \E h \in old : f[i - 1][2] = q + term(h)
    BY DEF Reached
<1>4. CASE j \notin OpenJobs(p)
  <2>1. E = D /\ f[i] = f[i - 1]
      BY <1>1, <1>4, DoneSteps
  <2>2. new = old
      BY <1>4, SizeFacts
  <2>3. /\ f[i][1] = b[1] + Total(P, E)
        /\ f[i][2] >= b[2] + Total(Q, E)
        /\ \A h \in new : f[i][2] >= Total(Q, E) + term(h)
        /\ f[i][2] = b[2] + Total(Q, E) \/ \E h \in new : f[i][2] = Total(Q, E) + term(h)
    <3>. HIDE DEF old, new, term, E, D, P, Q, b
    <3>. QED
        BY <1>3, <2>1, <2>2
  <2>. QED
      BY <2>3 DEF Reached
<1>5. CASE j \in OpenJobs(p)
  <2>1. /\ E = D \cup {j} /\ j \notin D /\ j \in Position /\ D \in SUBSET Position
      BY <1>5, DoneSteps DEF Done
  <2>2. \A k \in Position : P[k] \in Int /\ Q[k] \in Int /\ Gain(t, ma)[k] = P[k] - Q[k]
      BY PlacedType, <1>2 DEF Gain
  <2>3. IsFiniteSet(Position) /\ IsFiniteSet(D)
      BY <2>1, IntervalFinite, FS_Subset
  <2>4. /\ Total(P, E) = Total(P, D) + P[j] /\ Total(P, D) \in Int
        /\ Total(Q, E) = q + Q[j] /\ q \in Int
    <3>. HIDE DEF P, Q, D, E, j
    <3>. QED
        BY <2>1, <2>2, <2>3, TotalWith
  <2>5. Total(Gain(t, ma), D) = Total(P, D) - q
    <3>. HIDE DEF P, Q, D, E, j
    <3>. QED
        BY <2>1, <2>2, <2>3, TotalDifference
  <2>6. P[j] \in Nat /\ Q[j] \in Nat /\ lag[j] \in Nat
      BY <2>1, <1>2, PlacedType
  <2>7. term(i) = b[1] + P[j] + lag[j] + (Total(P, D) - q)
      BY <2>5 DEF Term
  <2>8. /\ f[i][1] = f[i - 1][1] + P[j]
        /\ f[i][2] = max(f[i - 1][2], f[i - 1][1] + P[j] + lag[j]) + Q[j]
      BY <1>1, <1>5 DEF Placed
  <2>9. b[1] \in Nat /\ b[2] \in Nat
      BY InitCmaxType
  <2>10. i \in new /\ old \subseteq new /\ \A h \in new : h \in old \/ h = i
      BY <1>5
  <2>11. ASSUME NEW h \in new PROVE term(h) \in Int
    <3>0. h \in 1 .. Size
        BY SizeFacts
    <3>1. ordo[h] \in Position /\ h \in 1 .. Size
        BY <3>0, OrderFacts
    <3>2. P[ordo[h]] \in Nat /\ lag[ordo[h]] \in Nat
        BY <3>1, <1>2, PlacedType
    <3>3. Total(Gain(t, ma), Done(p, ordo, h - 1)) \in Int
      <4>1. Done(p, ordo, h - 1) \in SUBSET Position
          BY DoneSteps DEF Done
      <4>2. \A k \in Position : Gain(t, ma)[k] \in Int
          BY <2>2
      <4>. QED
          BY <2>3, <4>1, <4>2, TotalWithout
    <3>. QED
        BY <2>9, <3>2, <3>3 DEF Term
  <2>. HIDE DEF old, new, term, E, D, P, Q, b, q, j, lag
  <2>. DEFINE x == f[i - 1][1]
              y == f[i - 1][2]
              p1 == P[j]
              q1 == Q[j]
              l1 == lag[j]
  <2>12. /\ x \in Nat /\ y \in Nat /\ p1 \in Nat /\ q1 \in Nat /\ l1 \in Nat /\ b[1] \in Nat
         /\ b[2] \in Nat /\ q \in Int /\ Total(P, D) \in Int
      BY <1>2, <2>4, <2>6, <2>9
  <2>13. x = b[1] + Total(P, D) /\ y >= b[2] + q
      BY <1>3
  <2>14. /\ f[i][2] \in Int /\ f[i][2] >= y + q1 /\ f[i][2] >= x + p1 + l1 + q1
         /\ f[i][2] = y + q1 \/ f[i][2] = x + p1 + l1 + q1
    <3>. HIDE DEF x, y, p1, q1, l1
    <3>1. f[i][2] = max(y, x + p1 + l1) + q1
        BY <2>8 DEF x, y, p1, q1, l1
    <3>. QED
        BY <2>12, <3>1 DEF max
  <2>15. f[i][1] = b[1] + Total(P, E)
      BY <2>4, <2>8, <2>12, <2>13
  <2>16. f[i][2] >= b[2] + Total(Q, E)
      BY <2>4, <2>12, <2>13, <2>14
  <2>17. term(i) = x + p1 + l1 - q
      BY <2>7, <2>12, <2>13
  <2>18. \A h \in new : f[i][2] >= Total(Q, E) + term(h)
    <3>. SUFFICES ASSUME NEW h \in new PROVE f[i][2] >= Total(Q, E) + term(h)
        OBVIOUS
    <3>1. CASE h \in old
      <4>1. y >= q + term(h) /\ term(h) \in Int
          BY <1>3, <2>11, <3>1
      <4>. QED
          BY <2>4, <2>12, <2>14, <4>1
    <3>2. CASE h = i
      <4>1. term(h) = x + p1 + l1 - q
          BY <2>17, <3>2
      <4>. QED
          BY <2>4, <2>12, <2>14, <4>1
    <3>. QED
        BY <2>10, <3>1, <3>2
  <2>19. f[i][2] = b[2] + Total(Q, E) \/ \E h \in new : f[i][2] = Total(Q, E) + term(h)
    <3>1. CASE f[i][2] = x + p1 + l1 + q1
      <4>1. f[i][2] = Total(Q, E) + term(i)
          BY <2>4, <2>12, <2>17, <3>1
      <4>. QED
          BY <2>10, <4>1
    <3>2. CASE f[i][2] = y + q1
      <4>1. CASE y = b[2] + q
        <5>1. f[i][2] = b[2] + Total(Q, E)
            BY <2>4, <2>12, <3>2, <4>1
        <5>. QED
            BY <5>1
      <4>2. CASE \E h \in old : y = q + term(h)
        <5>1. PICK h \in old : y = q + term(h)
            BY <4>2
        <5>2. term(h) \in Int /\ h \in new
            BY <2>10, <2>11
        <5>3. f[i][2] = Total(Q, E) + term(h)
            BY <2>4, <2>12, <3>2, <5>1, <5>2
        <5>. QED
            BY <5>2, <5>3
      <4>. QED
          BY <1>3, <4>1, <4>2
    <3>. QED
        BY <2>14, <3>1, <3>2
  <2>. QED
      BY <2>15, <2>16, <2>18, <2>19 DEF Reached, E, Q, P, b, new, term
<1>. QED
    BY <1>4, <1>5

(* The two times at the end, as sums: the first machine is never idle, and *)
(* the second is busy from its start on or from the job it waits for last. *)
LEMMA ClosedForm ==
    ASSUME NEW t, Tables(t), NEW p, Frame(p), NEW ma \in Pairs, NEW ordo \in Orders
    PROVE  LET c == heuristiqueCmax(t, p, ma, ordo)
               b == initCmax(t, p, ma)
               q == Total(t.tempsJob[ma[2]], OpenJobs(p))
               placed == {h \in 1 .. Size : ordo[h] \in OpenJobs(p)}
           IN  /\ c \in Pair
               /\ c[1] = b[1] + Total(t.tempsJob[ma[1]], OpenJobs(p))
               /\ c[2] >= b[2] + q
               /\ \A h \in placed : c[2] >= q + Term(t, p, ma, ordo, h)
               /\ c[2] = b[2] + q \/ \E h \in placed : c[2] = q + Term(t, p, ma, ordo, h)
<1>1. PICK f : Follows(f, t, p, ma, ordo) /\ heuristiqueCmax(t, p, ma, ordo) = f[Size]
    BY HeuristicSteps
<1>. DEFINE S == {i \in 0 .. Size : Reached(f, t, p, ma, ordo, i)}
<1>2. 0 \in S
  <2>1. f[0] = initCmax(t, p, ma) /\ Done(p, ordo, 0) = {}
      BY <1>1, DoneSteps DEF Follows
  <2>2. Total(t.tempsJob[ma[1]], {}) = 0 /\ Total(t.tempsJob[ma[2]], {}) = 0
      BY TotalNone
  <2>3. initCmax(t, p, ma)[1] \in Nat /\ initCmax(t, p, ma)[2] \in Nat
      BY InitCmaxType
  <2>4. {h \in 1 .. 0 : ordo[h] \in OpenJobs(p)} = {}
      OBVIOUS
  <2>5. Reached(f, t, p, ma, ordo, 0)
      BY <2>1, <2>2, <2>3, <2>4 DEF Reached
  <2>. QED
      BY <2>5, SizeFacts
<1>3. \A i \in 1 .. Size : i - 1 \in S => i \in S
    BY <1>1, ReachedNext, SizeFacts
<1>4. Size \in S
  <2>. HIDE DEF S
  <2>1. 0 .. Size \subseteq S
      BY <1>2, <1>3, UpTo, SizeFacts
  <2>. QED
      BY <2>1, SizeFacts
<1>5. Reached(f, t, p, ma, ordo, Size) /\ Done(p, ordo, Size) = OpenJobs(p)
    BY <1>4, DoneSteps
<1>6. f[Size] \in Pair
    BY <1>1, SizeFacts DEF Follows
<1>. QED
    BY <1>1, <1>5, <1>6 DEF Reached

-----------------------------------------------------------------------------
(* Johnson's rule.                                                         *)
LEMMA KeyFacts ==
    ASSUME NEW t, Tables(t), NEW ma \in Pairs, NEW j \in Position
    PROVE  LET P == t.tempsJob[ma[1]][j]
               Q == t.tempsJob[ma[2]][j]
               key == pluspetit(t.tempsJob, ma, j)
           IN  /\ P \in Nat /\ Q \in Nat /\ t.tempsLag[ma][j] \in Nat
               /\ Gain(t, ma)[j] = P - Q
               /\ Shorter(t.tempsJob, ma, j) => P - Q <= 0 /\ key = t.tempsLag[ma][j] + P
               /\ ~Shorter(t.tempsJob, ma, j) => P - Q >= 0 /\ key = t.tempsLag[ma][j] + Q
               /\ key \in Nat
<1>1. <<0, 0>> \in Pair
    BY DEF Pair
<1>2. /\ t.tempsJob[ma[1]][j] \in Nat /\ t.tempsJob[ma[2]][j] \in Nat /\ t.tempsLag[ma][j] \in Nat
    BY <1>1, PlacedType
<1>3. tempsLag(t.tempsJob, ma, j) = t.tempsLag[ma][j]
    BY DEF tempsLag, Tables
<1>. QED
    BY <1>2, <1>3 DEF Shorter, pluspetit, Gain

(* Of two jobs in the order that quicksort leaves. *)
LEMMA RuleOrder ==
    ASSUME NEW t, Tables(t), NEW ma \in Pairs,
           NEW h \in 1 .. Size, NEW k \in 1 .. Size, h <= k
    PROVE  LET a == t.tabJohnson[ma][h]
               b == t.tabJohnson[ma][k]
               short(j) == Shorter(t.tempsJob, ma, j)
               key(j) == pluspetit(t.tempsJob, ma, j)
           IN  /\ short(b) => short(a) /\ key(a) <= key(b)
               /\ ~short(a) => ~short(b) /\ key(b) <= key(a)
<1>. DEFINE s == t.tabJohnson[ma]
            short(j) == Shorter(t.tempsJob, ma, j)
            key(j) == pluspetit(t.tempsJob, ma, j)
<1>1. s \in Orders /\ \A i, j \in 1 .. Size : i < j => ~estInf(t.tempsJob, ma, s[j], s[i])
    BY DEF Tables, Johnson
<1>2. key(s[h]) \in Nat /\ key(s[k]) \in Nat
  <2>1. s[h] \in Position /\ s[k] \in Position
    <3>1. s \in [1 .. Size -> Position]
        BY <1>1, OrderFacts
    <3>. QED
        BY <3>1
  <2>2. \A j \in Position : key(j) \in Nat
      BY KeyFacts
  <2>. QED
      BY Zenon, <2>1, <2>2
<1>3. h = k \/ h < k
    BY SizeFacts
<1>4. CASE h < k
  <2>1. ~estInf(t.tempsJob, ma, s[k], s[h])
      BY <1>1, <1>4
  <2>2. short(s[k]) \in BOOLEAN /\ short(s[h]) \in BOOLEAN
      BY DEF Shorter
  <2>3. /\ short(s[k]) # short(s[h]) => ~short(s[k])
        /\ short(s[k]) = short(s[h]) /\ short(s[k]) => ~(key(s[k]) < key(s[h]))
        /\ short(s[k]) = short(s[h]) /\ ~short(s[k]) => ~(key(s[k]) > key(s[h]))
      BY <2>1 DEF estInf
  <2>. HIDE DEF short, key, s
  <2>4. /\ short(s[k]) => short(s[h]) /\ ~(key(s[k]) < key(s[h]))
        /\ ~short(s[h]) => ~short(s[k]) /\ ~(key(s[k]) > key(s[h]))
      BY Zenon, <2>2, <2>3
  <2>5. /\ ~(key(s[k]) < key(s[h])) => key(s[h]) <= key(s[k])
        /\ ~(key(s[k]) > key(s[h])) => key(s[k]) <= key(s[h])
      BY <1>2
  <2>6. /\ short(s[k]) => short(s[h]) /\ key(s[h]) <= key(s[k])
        /\ ~short(s[h]) => ~short(s[k]) /\ key(s[k]) <= key(s[h])
      BY <2>4, <2>5
  <2>. QED
      BY <2>6 DEF short, key, s
<1>5. CASE h = k
    BY <1>2, <1>5
<1>. QED
    BY <1>3, <1>4, <1>5

LEMMA DoneIn ==
    ASSUME NEW p, Frame(p), NEW ordo \in Orders, NEW i \in 0 .. Size
    PROVE  /\ \A x \in OpenJobs(p) : \E h \in 1 .. Size : ordo[h] = x
           /\ \A h \in 1 .. Size : ordo[h] \in Done(p, ordo, i) <=> ordo[h] \in OpenJobs(p) /\ h <= i
           /\ Done(p, ordo, i) \in SUBSET OpenJobs(p) /\ OpenJobs(p) \in SUBSET Position
<1>1. OpenJobs(p) \in SUBSET Position
    BY DoneSteps
<1>2. \A x \in OpenJobs(p) : \E h \in 1 .. Size : ordo[h] = x
    BY <1>1, OrderFacts
<1>3. ASSUME NEW h \in 1 .. Size
      PROVE  ordo[h] \in Done(p, ordo, i) <=> ordo[h] \in OpenJobs(p) /\ h <= i
  <2>1. \A g \in 1 .. i : g \in 1 .. Size
      BY SizeFacts
  <2>2. (\E g \in 1 .. i : ordo[g] = ordo[h]) <=> h <= i
    <3>1. \A g \in 1 .. i : ordo[g] = ordo[h] => g = h
        BY <2>1, OrderFacts
    <3>. QED
        BY <3>1, SizeFacts
  <2>. QED
      BY <2>2 DEF Done
<1>. QED
    BY <1>1, <1>2, <1>3 DEF Done

(* The open jobs before the i-th, the i-th and those after it. *)
LEMMA GainSplit ==
    ASSUME NEW t, Tables(t), NEW p, Frame(p), NEW ma \in Pairs, NEW ordo \in Orders,
           NEW i \in 1 .. Size, ordo[i] \in OpenJobs(p)
    PROVE  LET G == Gain(t, ma) IN
           /\ Total(G, OpenJobs(p)) = Total(G, Done(p, ordo, i - 1)) + G[ordo[i]]
                                    + Total(G, OpenJobs(p) \ Done(p, ordo, i))
           /\ Total(G, OpenJobs(p)) \in Int /\ Total(G, Done(p, ordo, i - 1)) \in Int
           /\ Total(G, OpenJobs(p) \ Done(p, ordo, i)) \in Int /\ G[ordo[i]] \in Int
<1>. DEFINE G == Gain(t, ma)
            D == Done(p, ordo, i - 1)
            E == Done(p, ordo, i)
            O == OpenJobs(p)
            R == O \ E
            j == ordo[i]
<1>1. O \in SUBSET Position /\ j \notin D /\ E = D \cup {j} /\ j \in O /\ E \in SUBSET O
    BY DoneSteps DEF Done
<1>2. IsFiniteSet(Position) /\ \A x \in Position : G[x] \in Int
    BY IntervalFinite, KeyFacts
<1>. HIDE DEF G, D, E, O, j
<1>3. /\ D \in SUBSET Position /\ E \in SUBSET Position /\ R \in SUBSET Position /\ j \in Position
      /\ E \cap R = {} /\ E \cup R = O
    BY <1>1
<1>. HIDE DEF R
<1>4. Total(G, E \cup R) = Total(G, E) + Total(G, R)
    BY <1>2, <1>3, TotalUnion
<1>5. Total(G, D \cup {j}) = Total(G, D) + G[j]
    BY <1>1, <1>2, <1>3, TotalWith
<1>6. Total(G, O) \in Int /\ Total(G, D) \in Int /\ Total(G, R) \in Int /\ G[j] \in Int
    BY <1>1, <1>2, <1>3, TotalWithout
<1>7. Total(G, O) = Total(G, D) + G[j] + Total(G, R)
    BY <1>1, <1>3, <1>4, <1>5
<1>. QED
    BY <1>6, <1>7 DEF G, D, E, R, O, j

(* A job that Johnson's order makes the second machine wait for last has   *)
(* in every order a job that ends as late.                                 *)
LEMMA JohnsonTerm ==
    ASSUME NEW t, Tables(t), NEW p, Frame(p), NEW ma \in Pairs, NEW ordo \in Orders,
           NEW k \in 1 .. Size, t.tabJohnson[ma][k] \in OpenJobs(p)
    PROVE  \E m \in 1 .. Size :
              /\ ordo[m] \in OpenJobs(p)
              /\ Term(t, p, ma, t.tabJohnson[ma], k) <= Term(t, p, ma, ordo, m)
<1>. DEFINE s == t.tabJohnson[ma]
            O == OpenJobs(p)
            G == Gain(t, ma)
            short(j) == Shorter(t.tempsJob, ma, j)
            key(j) == pluspetit(t.tempsJob, ma, j)
            P(j) == t.tempsJob[ma[1]][j]
            Q(j) == t.tempsJob[ma[2]][j]
            lag(j) == t.tempsLag[ma][j]
            b == initCmax(t, p, ma)[1]
<1>1. s \in Orders
    BY DEF Tables, Johnson
<1>2. /\ O \in SUBSET Position
      /\ \A x \in O : \E h \in 1 .. Size : s[h] = x
      /\ \A x \in O : \E h \in 1 .. Size : ordo[h] = x
  <2>1. O \in SUBSET Position
      BY DoneSteps
  <2>. HIDE DEF O, s
  <2>. QED
      BY <1>1, <2>1, OrderFacts
<1>3. \A j \in Position : /\ P(j) \in Nat /\ Q(j) \in Nat /\ lag(j) \in Nat /\ key(j) \in Nat
                          /\ G[j] = P(j) - Q(j)
                          /\ short(j) => P(j) - Q(j) <= 0 /\ key(j) = lag(j) + P(j)
                          /\ ~short(j) => P(j) - Q(j) >= 0 /\ key(j) = lag(j) + Q(j)
    BY KeyFacts
<1>4. \A h, g \in 1 .. Size : h <= g =>
         /\ short(s[g]) => short(s[h]) /\ key(s[h]) <= key(s[g])
         /\ ~short(s[h]) => ~short(s[g]) /\ key(s[g]) <= key(s[h])
    BY RuleOrder
<1>5. b \in Nat
    BY InitCmaxType
<1>6. \A h \in 1 .. Size : Term(t, p, ma, s, h) = b + P(s[h]) + lag(s[h]) + Total(G, Done(p, s, h - 1))
    BY DEF Term
<1>7. \A h \in 1 .. Size : Term(t, p, ma, ordo, h) = b + P(ordo[h]) + lag(ordo[h]) + Total(G, Done(p, ordo, h - 1))
    BY DEF Term
<1>8. IsFiniteSet(Position) /\ \A j \in Position : G[j] \in Int
    BY <1>3, IntervalFinite
<1>9. \A i \in 1 .. Size : i \in 0 .. Size /\ i - 1 \in 0 .. Size /\ i \in Int
    BY SizeFacts
<1>10. \A i \in 0 .. Size : /\ Done(p, s, i) \in SUBSET O /\ Done(p, ordo, i) \in SUBSET O
                            /\ \A h \in 1 .. Size : /\ s[h] \in Done(p, s, i) <=> s[h] \in O /\ h <= i
                                                    /\ ordo[h] \in Done(p, ordo, i) <=> ordo[h] \in O /\ h <= i
    BY <1>1, DoneIn
<1>11. s[k] \in O
    OBVIOUS
<1>. HIDE DEF s, O, G, short, key, P, Q, lag, b
<1>12. CASE short(s[k])
  <2>. DEFINE Y == Done(p, s, k - 1)
              B == {i \in 1 .. Size : ordo[i] \in O /\ short(ordo[i]) /\ ordo[i] \notin Y}
  <2>1. B \subseteq Nat /\ B # {}
    <3>1. PICK i \in 1 .. Size : ordo[i] = s[k]
        BY <1>2, <1>11
    <3>2. s[k] \notin Y
      <4>1. ~(k <= k - 1)
          BY <1>9
      <4>. QED
          BY <1>9, <1>10, <4>1
    <3>3. i \in B
        BY <1>11, <1>12, <3>1, <3>2
    <3>. QED
        BY <3>3
  <2>2. PICK m \in B : \A i \in B : m <= i
    <3>. HIDE DEF B
    <3>. QED
        BY <2>1, LeastNumber
  <2>3. m \in 1 .. Size /\ ordo[m] \in O /\ short(ordo[m]) /\ ordo[m] \notin Y
      BY <2>2
  <2>. DEFINE X == Done(p, ordo, m - 1)
  <2>4. X \in SUBSET O /\ Y \in SUBSET O
      BY <1>9, <1>10, <2>3
  <2>5. ASSUME NEW x \in Y \ X PROVE G[x] <= 0
    <3>1. PICK h \in 1 .. Size : s[h] = x
        BY <1>2, <2>4
    <3>2. h <= k - 1
        BY <1>9, <1>10, <3>1
    <3>3. h <= k
        BY <1>9, <3>2
    <3>4. short(x)
        BY <1>4, <1>12, <3>1, <3>3
    <3>. QED
        BY <1>2, <1>3, <2>4, <3>4
  <2>6. ASSUME NEW x \in X \ Y PROVE G[x] >= 0
    <3>1. PICK h \in 1 .. Size : ordo[h] = x
        BY <1>2, <2>4
    <3>2. h <= m - 1 /\ ~(m <= h)
      <4>1. h <= m - 1
          BY <1>9, <1>10, <2>3, <3>1
      <4>. QED
          BY <1>9, <2>3, <4>1
    <3>3. h \notin B
        BY <2>2, <3>2
    <3>4. ~short(x)
        BY <2>4, <3>1, <3>3
    <3>. QED
        BY <1>2, <1>3, <2>4, <3>4
  <2>7. PICK g \in 1 .. Size : s[g] = ordo[m]
      BY <1>2, <2>3
  <2>8. k <= g
    <3>1. ~(g <= k - 1)
        BY <1>9, <1>10, <2>3, <2>7
    <3>. QED
        BY <1>9, <3>1
  <2>9. key(s[k]) <= key(ordo[m])
      BY <1>4, <2>3, <2>7, <2>8
  <2>. HIDE DEF X, Y
  <2>10. Total(G, Y) <= Total(G, X) /\ Total(G, Y) \in Int /\ Total(G, X) \in Int
    <3>1. Y \in SUBSET Position /\ X \in SUBSET Position
        BY <1>2, <2>4
    <3>2. Total(G, Y) <= Total(G, X)
        BY <1>8, <2>5, <2>6, <3>1, TotalCompare
    <3>3. Total(G, Y) \in Int /\ Total(G, X) \in Int
        BY <1>8, <3>1, TotalWithout
    <3>. QED
        BY <3>2, <3>3
  <2>11. Term(t, p, ma, s, k) = b + P(s[k]) + lag(s[k]) + Total(G, Y)
      BY <1>6 DEF Y
  <2>12. Term(t, p, ma, ordo, m) = b + P(ordo[m]) + lag(ordo[m]) + Total(G, X)
      BY <1>7, <2>3 DEF X
  <2>13. /\ P(s[k]) \in Nat /\ lag(s[k]) \in Nat /\ key(s[k]) = lag(s[k]) + P(s[k])
         /\ P(ordo[m]) \in Nat /\ lag(ordo[m]) \in Nat /\ key(ordo[m]) = lag(ordo[m]) + P(ordo[m])
      BY <1>2, <1>3, <1>11, <1>12, <2>3
  <2>14. Term(t, p, ma, s, k) <= Term(t, p, ma, ordo, m)
      BY <1>5, <2>9, <2>10, <2>11, <2>12, <2>13
  <2>. QED
      BY <2>3, <2>14 DEF s, O
<1>13. CASE ~short(s[k])
  <2>. DEFINE E == Done(p, s, k)
              A == {i \in 1 .. Size : ordo[i] \in O /\ ~short(ordo[i]) /\ ordo[i] \in E}
  <2>1. A \in SUBSET (1 .. Size) /\ A # {}
    <3>1. PICK i \in 1 .. Size : ordo[i] = s[k]
        BY <1>2, <1>11
    <3>2. s[k] \in E
      <4>1. k <= k
          BY <1>9
      <4>. QED
          BY <1>9, <1>10, <1>11, <4>1
    <3>3. i \in A
        BY <1>11, <1>13, <3>1, <3>2
    <3>. QED
        BY <3>3
  <2>2. PICK m \in A : \A i \in A : i <= m
    <3>. HIDE DEF A
    <3>. QED
        BY <2>1, Greatest, SizeFacts
  <2>3. m \in 1 .. Size /\ ordo[m] \in O /\ ~short(ordo[m]) /\ ordo[m] \in E
      BY <2>2
  <2>. DEFINE X == O \ Done(p, ordo, m)
              Y == O \ E
  <2>5. ASSUME NEW x \in X \ Y PROVE G[x] <= 0
    <3>1. x \in O /\ x \in E /\ x \notin Done(p, ordo, m)
        OBVIOUS
    <3>2. PICK h \in 1 .. Size : ordo[h] = x
        BY <1>2, <3>1
    <3>3. ~(h <= m)
        BY <1>9, <1>10, <2>3, <3>1, <3>2
    <3>4. h \notin A
        BY <2>2, <3>3
    <3>5. short(x)
        BY <3>1, <3>2, <3>4
    <3>. QED
        BY <1>2, <1>3, <3>1, <3>5
  <2>6. ASSUME NEW x \in Y \ X PROVE G[x] >= 0
    <3>1. x \in O /\ x \notin E
        OBVIOUS
    <3>2. PICK h \in 1 .. Size : s[h] = x
        BY <1>2, <3>1
    <3>3. k <= h
      <4>1. ~(h <= k)
          BY <1>9, <1>10, <3>1, <3>2
      <4>. QED
          BY <1>9, <4>1
    <3>4. ~short(x)
        BY <1>4, <1>13, <3>2, <3>3
    <3>. QED
        BY <1>2, <1>3, <3>1, <3>4
  <2>7. PICK g \in 1 .. Size : s[g] = ordo[m]
      BY <1>2, <2>3
  <2>8. g <= k
      BY <1>9, <1>10, <2>3, <2>7
  <2>9. key(s[k]) <= key(ordo[m])
      BY <1>4, <2>3, <2>7, <2>8
  <2>10. Total(G, X) <= Total(G, Y)
    <3>1. Y \in SUBSET Position /\ X \in SUBSET Position
        BY <1>2
    <3>. HIDE DEF X, Y
    <3>. QED
        BY <1>8, <2>5, <2>6, <3>1, TotalCompare
  <2>11. Term(t, p, ma, s, k) = b + P(s[k]) + lag(s[k]) + Total(G, Done(p, s, k - 1))
      BY <1>6
  <2>12. Term(t, p, ma, ordo, m) = b + P(ordo[m]) + lag(ordo[m]) + Total(G, Done(p, ordo, m - 1))
      BY <1>7, <2>3
  <2>13. /\ Total(G, O) = Total(G, Done(p, s, k - 1)) + G[s[k]] + Total(G, Y)
         /\ Total(G, O) \in Int /\ Total(G, Done(p, s, k - 1)) \in Int /\ Total(G, Y) \in Int
      BY <1>1, <1>11, GainSplit DEF G, O
  <2>14. /\ Total(G, O) = Total(G, Done(p, ordo, m - 1)) + G[ordo[m]] + Total(G, X)
         /\ Total(G, Done(p, ordo, m - 1)) \in Int /\ Total(G, X) \in Int
      BY <2>3, GainSplit DEF G, O
  <2>15. /\ P(s[k]) \in Nat /\ lag(s[k]) \in Nat /\ key(s[k]) = lag(s[k]) + Q(s[k])
         /\ P(ordo[m]) \in Nat /\ lag(ordo[m]) \in Nat /\ key(ordo[m]) = lag(ordo[m]) + Q(ordo[m])
         /\ Q(s[k]) \in Nat /\ Q(ordo[m]) \in Nat
         /\ G[s[k]] = P(s[k]) - Q(s[k]) /\ G[ordo[m]] = P(ordo[m]) - Q(ordo[m])
      BY <1>2, <1>3, <1>11, <1>13, <2>3
  <2>. HIDE DEF X, Y
  <2>16. Term(t, p, ma, s, k) <= Term(t, p, ma, ordo, m)
      BY <1>5, <2>9, <2>10, <2>11, <2>12, <2>13, <2>14, <2>15
  <2>. QED
      BY <2>3, <2>16 DEF s, O
<1>. QED
    BY <1>12, <1>13

(* No order of the open jobs ends earlier on the second machine, for every *)
(* pair of machines, every instance and whatever quicksort does with ties. *)
THEOREM JohnsonBest ==
    ASSUME NEW t, Tables(t), NEW p, Frame(p), NEW ma \in Pairs, NEW ordo \in Orders
    PROVE  /\ heuristiqueCmax(t, p, ma, t.tabJohnson[ma])[1] = heuristiqueCmax(t, p, ma, ordo)[1]
           /\ heuristiqueCmax(t, p, ma, t.tabJohnson[ma])[2] <= heuristiqueCmax(t, p, ma, ordo)[2]
           /\ heuristiqueCmax(t, p, ma, t.tabJohnson[ma]) \in Pair
<1>. DEFINE s == t.tabJohnson[ma]
            c == heuristiqueCmax(t, p, ma, s)
            e == heuristiqueCmax(t, p, ma, ordo)
            b == initCmax(t, p, ma)
            q == Total(t.tempsJob[ma[2]], OpenJobs(p))
<1>1. s \in Orders
    BY DEF Tables, Johnson
<1>2. /\ c \in Pair /\ c[1] = b[1] + Total(t.tempsJob[ma[1]], OpenJobs(p))
      /\ \/ c[2] = b[2] + q
         \/ \E h \in {h \in 1 .. Size : s[h] \in OpenJobs(p)} : c[2] = q + Term(t, p, ma, s, h)
    BY <1>1, ClosedForm
<1>3. /\ e \in Pair /\ e[1] = b[1] + Total(t.tempsJob[ma[1]], OpenJobs(p))
      /\ e[2] >= b[2] + q
      /\ \A h \in {h \in 1 .. Size : ordo[h] \in OpenJobs(p)} : e[2] >= q + Term(t, p, ma, ordo, h)
    BY ClosedForm
<1>4. q \in Int
  <2>1. OpenJobs(p) \in SUBSET Position
      BY DoneSteps, <1>1
  <2>2. \A j \in Position : t.tempsJob[ma[2]][j] \in Int
      BY PairFacts DEF Tables, Times
  <2>. QED
      BY <2>1, <2>2, IntervalFinite, TotalWithout
<1>5. \A o \in Orders, h \in 1 .. Size : Term(t, p, ma, o, h) \in Int
  <2>. SUFFICES ASSUME NEW o \in Orders, NEW h \in 1 .. Size PROVE Term(t, p, ma, o, h) \in Int
      OBVIOUS
  <2>0. h - 1 \in 0 .. Size
      BY SizeFacts
  <2>1. o[h] \in Position /\ h - 1 \in 0 .. Size
      BY <2>0, OrderFacts
  <2>2. Done(p, o, h - 1) \in SUBSET Position /\ \A j \in Position : Gain(t, ma)[j] \in Int
      BY <2>1, DoneIn, KeyFacts
  <2>3. Total(Gain(t, ma), Done(p, o, h - 1)) \in Int
      BY <2>2, IntervalFinite, TotalWithout
  <2>4. /\ t.tempsJob[ma[1]][o[h]] \in Nat /\ t.tempsLag[ma][o[h]] \in Nat
        /\ initCmax(t, p, ma)[1] \in Nat
      BY <2>1, KeyFacts, InitCmaxType
  <2>. QED
      BY <2>3, <2>4 DEF Term
<1>6. c[2] \in Nat /\ e[2] \in Nat /\ b[2] \in Nat
    BY <1>2, <1>3, InitCmaxType DEF Pair
<1>. HIDE DEF c, e, q, s, b
<1>7. c[2] <= e[2]
  <2>1. CASE c[2] = b[2] + q
      BY <1>3, <1>4, <1>6, <2>1
  <2>2. CASE \E h \in {h \in 1 .. Size : s[h] \in OpenJobs(p)} : c[2] = q + Term(t, p, ma, s, h)
    <3>1. PICK h \in 1 .. Size : s[h] \in OpenJobs(p) /\ c[2] = q + Term(t, p, ma, s, h)
        BY <2>2
    <3>2. PICK m \in 1 .. Size : /\ ordo[m] \in OpenJobs(p)
                                 /\ Term(t, p, ma, s, h) <= Term(t, p, ma, ordo, m)
        BY <3>1, JohnsonTerm DEF s
    <3>3. e[2] >= q + Term(t, p, ma, ordo, m)
        BY <1>3, <3>2
    <3>4. Term(t, p, ma, s, h) \in Int /\ Term(t, p, ma, ordo, m) \in Int
        BY <1>1, <1>5
    <3>. QED
        BY <1>4, <1>6, <3>1, <3>2, <3>3, <3>4
  <2>. QED
      BY <1>2, <2>1, <2>2
<1>. QED
    BY <1>2, <1>3, <1>7 DEF c, e, s

-----------------------------------------------------------------------------
(* The bound of a pair, and the greatest of them.                          *)
LEMMA EarlierFacts ==
    /\ IsFiniteSet(Pairs)
    /\ \A x \in Pairs : ~Earlier(x, x)
    /\ \A x, y \in Pairs : x = y \/ Earlier(x, y) \/ Earlier(y, x)
    /\ \A x, y, z \in Pairs : Earlier(x, y) /\ Earlier(y, z) => Earlier(x, z)
<1>1. IsFiniteSet(Machine \X Machine)
    BY IntervalFinite, FS_Product
<1>2. IsFiniteSet(Pairs)
    BY <1>1, FS_Subset DEF Pairs
<1>3. \A x \in Pairs : x[1] \in Int /\ x[2] \in Int /\ x = <<x[1], x[2]>>
    BY PairFacts, MachineFacts
<1>4. \A x, y \in Pairs : x = y \/ Earlier(x, y) \/ Earlier(y, x)
  <2>. SUFFICES ASSUME NEW x \in Pairs, NEW y \in Pairs, ~Earlier(x, y), ~Earlier(y, x) PROVE x = y
      OBVIOUS
  <2>1. x[1] = y[1] /\ x[2] = y[2]
      BY <1>3 DEF Earlier
  <2>. QED
      BY <1>3, <2>1
<1>5. \A x, y, z \in Pairs : Earlier(x, y) /\ Earlier(y, z) => Earlier(x, z)
    BY <1>3 DEF Earlier
<1>. QED
    BY <1>2, <1>3, <1>4, <1>5 DEF Earlier

(* The pairs can be listed in their order. *)
LEMMA MachineType == Cardinality(Pairs) \in Nat /\ machine \in [1 .. Cardinality(Pairs) -> Pairs]
<1>. DEFINE n == Cardinality(Pairs)
            below(x) == {y \in Pairs : Earlier(y, x)}
            rank == [x \in Pairs |-> Cardinality(below(x)) + 1]
<1>1. n \in Nat
    BY EarlierFacts, FS_CardinalityType
<1>2. ASSUME NEW x \in Pairs
      PROVE  IsFiniteSet(below(x)) /\ Cardinality(below(x)) \in Nat /\ rank[x] \in 1 .. n
  <2>1. IsFiniteSet(Pairs \ {x}) /\ Cardinality(Pairs \ {x}) = n - 1
      BY EarlierFacts, FS_RemoveElement
  <2>2. below(x) \in SUBSET (Pairs \ {x})
      BY EarlierFacts
  <2>. HIDE DEF below
  <2>3. IsFiniteSet(below(x)) /\ Cardinality(below(x)) <= n - 1
      BY <2>1, <2>2, FS_Subset
  <2>4. Cardinality(below(x)) \in Nat
      BY <2>3, FS_CardinalityType
  <2>. QED
      BY <1>1, <2>3, <2>4
<1>3. ASSUME NEW x \in Pairs, NEW y \in Pairs, Earlier(x, y) PROVE rank[x] < rank[y]
  <2>1. below(x) \in SUBSET below(y) /\ x \in below(y) /\ x \notin below(x)
      BY <1>3, EarlierFacts
  <2>2. rank[x] = Cardinality(below(x)) + 1 /\ rank[y] = Cardinality(below(y)) + 1
      OBVIOUS
  <2>. HIDE DEF below, rank
  <2>3. Cardinality(below(x)) <= Cardinality(below(y)) /\ Cardinality(below(x)) # Cardinality(below(y))
      BY <1>2, <2>1, FS_Subset
  <2>. QED
      BY <1>2, <2>2, <2>3
<1>. HIDE DEF rank, n
<1>4. rank \in [Pairs -> 1 .. n]
    BY <1>2 DEF rank
<1>5. \A x, y \in Pairs : rank[x] = rank[y] => x = y
  <2>1. \A x \in Pairs : rank[x] \in Int
      BY <1>1, <1>4
  <2>2. \A x, y \in Pairs : Earlier(x, y) => rank[x] # rank[y]
      BY <1>3, <2>1
  <2>. QED
      BY <2>2, EarlierFacts
<1>6. rank \in Injection(Pairs, 1 .. n)
    BY <1>4, <1>5 DEF Injection, IsInjective
<1>7. IsFiniteSet(1 .. n) /\ Cardinality(1 .. n) = n
    BY <1>1, FS_Interval
<1>8. rank \in Surjection(Pairs, 1 .. n)
    BY <1>6, <1>7, FS_Injection DEF n
<1>9. \A i \in 1 .. n : \E x \in Pairs : rank[x] = i
    BY <1>8 DEF Surjection
<1>. DEFINE q == [i \in 1 .. n |-> CHOOSE x \in Pairs : rank[x] = i]
<1>10. \A i \in 1 .. n : q[i] \in Pairs /\ rank[q[i]] = i
    BY <1>9
<1>11. q \in [1 .. n -> Pairs]
    BY <1>10
<1>12. \A i, j \in 1 .. n : i < j => Earlier(q[i], q[j])
  <2>. SUFFICES ASSUME NEW i \in 1 .. n, NEW j \in 1 .. n, i < j PROVE Earlier(q[i], q[j])
      OBVIOUS
  <2>. HIDE DEF q
  <2>1. q[i] \in Pairs /\ q[j] \in Pairs /\ rank[q[i]] = i /\ rank[q[j]] = j
      BY <1>10
  <2>2. q[i] # q[j] /\ ~(rank[q[j]] < rank[q[i]])
      BY <1>1, <2>1
  <2>3. ~Earlier(q[j], q[i])
      BY <1>3, <2>1, <2>2
  <2>. QED
      BY <2>1, <2>2, <2>3, EarlierFacts
<1>. HIDE DEF q
<1>13. \E r \in [1 .. n -> Pairs] : \A i, j \in DOMAIN r : i < j => Earlier(r[i], r[j])
  <2>1. DOMAIN q = 1 .. n
      BY <1>11
  <2>. QED
      BY <1>11, <1>12, <2>1
<1>. QED
    BY <1>1, <1>13 DEF machine, n

LEMMA HeuristicType ==
    ASSUME NEW t, Tables(t), NEW p, Frame(p), NEW ma \in Pairs, NEW ordo \in Orders
    PROVE  heuristiqueCmax(t, p, ma, ordo) \in Pair
BY ClosedForm

(* What a pair of machines makes of two times. *)
LEMMA EndType ==
    ASSUME NEW t, Tables(t), NEW p, Frame(p), NEW ma \in Pairs, NEW tmp \in Pair
    PROVE  cmaxFin(t, p, ma, tmp) \in Nat
<1>1. tmp[1] \in Nat /\ tmp[2] \in Nat
    BY DEF Pair
<1>2. /\ tempsMachinesFin(t, p)[ma[1]] \in Nat /\ tempsMachinesFin(t, p)[ma[2]] \in Nat
      /\ t.minTempsDep[ma[2]] \in Nat
    BY MachineTimes, PairFacts DEF Loads, Tables
<1>3. \A a, b \in Nat : max(a, b) \in Nat
    BY DEF max
<1>4. /\ tmp[2] + tempsMachinesFin(t, p)[ma[2]] \in Nat
      /\ tmp[1] + tempsMachinesFin(t, p)[ma[1]] \in Nat
      /\ tmp[2] + t.minTempsDep[ma[2]] \in Nat
    BY <1>1, <1>2
<1>. QED
    BY <1>3, <1>4 DEF cmaxFin

Borne(t, p, ma) == cmaxFin(t, p, ma, heuristiqueCmax(t, p, ma, t.tabJohnson[ma]))

LEMMA BorneType ==
    ASSUME NEW t, Tables(t), NEW p, Frame(p), NEW ma \in Pairs
    PROVE  Borne(t, p, ma) \in Nat
<1>1. t.tabJohnson[ma] \in Orders
    BY DEF Tables, Johnson
<1>. QED
    BY <1>1, HeuristicType, EndType DEF Borne

Raised(t, p, ma, moinsBon) ==
    IF moinsBon > leMeilleur THEN moinsBon ELSE max(moinsBon, Borne(t, p, ma))

(* The bound of a subproblem, pair after pair. *)
Rises(f, t, p) ==
    /\ f \in [0 .. Cardinality(Pairs) -> Nat] /\ f[0] = 0
    /\ \A k \in 1 .. Cardinality(Pairs) : f[k] = Raised(t, p, machine[k], f[k - 1])

LEMMA RaisedType ==
    ASSUME NEW t, Tables(t), NEW p, Frame(p), NEW ma \in Pairs, NEW a \in Nat
    PROVE  Raised(t, p, ma, a) \in Nat
BY BorneType DEF Raised, max

LEMMA BorneInfSteps ==
    ASSUME NEW t, Tables(t), NEW p, Frame(p)
    PROVE  \E f : Rises(f, t, p) /\ borneInfMakespan(t, p) = f[Cardinality(Pairs)]
<1>. DEFINE n == Cardinality(Pairs)
            T == Nat
            step == [ma \in Pairs |-> [a \in T |-> Raised(t, p, ma, a)]]
            Def(a) == [s \in SUBSET (1 .. n) |->
                          IF s = {} THEN 0
                          ELSE Raised(t, p, machine[Max(s)], a[s \ {Max(s)}])]
<1>1. n \in Nat /\ 0 \in T
    BY MachineType
<1>2. machine \in [1 .. n -> Pairs] /\ Listed(machine, n, Pairs)
    BY MachineType DEF Listed
<1>3. Turns(step, Pairs, T)
    BY RaisedType DEF Turns
<1>4. borneInfMakespan(t, p) = (CHOOSE a : a = Def(a))[1 .. n]
  <2>1. DOMAIN machine = 1 .. n
      BY <1>2
  <2>. QED
      BY <2>1 DEF borneInfMakespan, FoldLeft, MapThenFoldSet, Raised, Borne
<1>. HIDE DEF n, T
<1>5. PICK f : FoldOfPlaces(f, n, machine, T, 0, step)
  <2>. HIDE DEF step
  <2>. QED
      BY <1>1, <1>2, <1>3, FoldOverPlaces
<1>6. f = Def(f)
  <2>0. /\ f \in [SUBSET (1 .. n) -> T] /\ f[{}] = 0
        /\ \A s \in SUBSET (1 .. n) : s # {} => f[s] = step[machine[Max(s)]][f[s \ {Max(s)}]]
      BY <1>5 DEF FoldOfPlaces
  <2>1. \A s \in SUBSET (1 .. n) : s # {} => Max(s) \in 1 .. n
      BY <1>1, Greatest
  <2>2. \A s \in SUBSET (1 .. n) : s # {} => machine[Max(s)] \in Pairs /\ f[s \ {Max(s)}] \in T
      BY <1>2, <2>0, <2>1
  <2>. QED
      BY <2>0, <2>2
<1>. DEFINE a == CHOOSE a : a = Def(a)
<1>7. a = Def(a)
    BY <1>6
<1>. HIDE DEF a
<1>8. a[{}] = 0
    BY <1>7
<1>9. ASSUME NEW k \in 1 .. n, a[1 .. k - 1] \in T
      PROVE  a[1 .. k] = step[machine[k]][a[1 .. k - 1]]
  <2>1. /\ 1 .. k \in SUBSET (1 .. n) /\ 1 .. k # {}
        /\ Max(1 .. k) = k /\ (1 .. k) \ {k} = 1 .. k - 1
      BY <1>1, Initial
  <2>2. a[1 .. k] = Raised(t, p, machine[k], a[1 .. k - 1])
      BY <1>7, <2>1
  <2>3. machine[k] \in Pairs
      BY <1>2
  <2>. QED
      BY <1>9, <2>2, <2>3
<1>10. Unfolds(a, n, machine, T, 0, step)
    BY <1>8, <1>9 DEF Unfolds
<1>11. PICK g : LeftFold(g, n, machine, T, 0, step) /\ g[n] = a[1 .. n]
  <2>. HIDE DEF step
  <2>. QED
      BY <1>1, <1>2, <1>3, <1>10, FoldOverPrefixes
<1>12. Rises(g, t, p)
  <2>1. /\ g \in [0 .. n -> T] /\ g[0] = 0
        /\ \A k \in 1 .. n : g[k] = step[machine[k]][g[k - 1]]
      BY <1>11 DEF LeftFold
  <2>2. \A k \in 1 .. n : k - 1 \in 0 .. n
      BY <1>1
  <2>3. \A k \in 1 .. n : machine[k] \in Pairs /\ g[k - 1] \in T
      BY <1>2, <2>1, <2>2
  <2>4. \A k \in 1 .. n : g[k] = Raised(t, p, machine[k], g[k - 1])
      BY <2>1, <2>3
  <2>. QED
      BY <2>1, <2>4 DEF Rises, n, T
<1>. QED
    BY <1>4, <1>11, <1>12 DEF a, n

(* The bound is a number, and never more than what no pair exceeds. *)
LEMMA BorneInfBelow ==
    ASSUME NEW t, Tables(t), NEW p, Frame(p)
    PROVE  /\ borneInfMakespan(t, p) \in Nat
           /\ \A c \in Nat : (\A ma \in Pairs : Borne(t, p, ma) <= c) => borneInfMakespan(t, p) <= c
<1>. DEFINE n == Cardinality(Pairs)
<1>1. PICK f : Rises(f, t, p) /\ borneInfMakespan(t, p) = f[n]
    BY BorneInfSteps
<1>2. n \in Nat /\ n \in 0 .. n /\ machine \in [1 .. n -> Pairs]
    BY MachineType
<1>3. /\ f \in [0 .. n -> Nat] /\ f[0] = 0
      /\ \A k \in 1 .. n : f[k] = Raised(t, p, machine[k], f[k - 1])
    BY <1>1 DEF Rises
<1>. HIDE DEF n
<1>4. ASSUME NEW c \in Nat, \A ma \in Pairs : Borne(t, p, ma) <= c
      PROVE  f[n] <= c
  <2>. DEFINE S == {k \in 0 .. n : f[k] <= c}
  <2>1. 0 \in S
      BY <1>2, <1>3
  <2>2. ASSUME NEW k \in 1 .. n, k - 1 \in S PROVE k \in S
    <3>1. machine[k] \in Pairs /\ f[k - 1] \in Nat /\ f[k - 1] <= c
        BY <1>2, <1>3, <2>2
    <3>2. Borne(t, p, machine[k]) <= c /\ Borne(t, p, machine[k]) \in Nat
        BY <1>4, <3>1, BorneType
    <3>3. Raised(t, p, machine[k], f[k - 1]) <= c
        BY <3>1, <3>2 DEF Raised, max
    <3>. QED
        BY <1>3, <3>3
  <2>. HIDE DEF S
  <2>3. 0 .. n \subseteq S
      BY <1>2, <2>1, <2>2, UpTo
  <2>. QED
      BY <1>2, <2>3 DEF S
<1>. QED
    BY <1>1, <1>2, <1>3, <1>4 DEF n

(* The cost of every subproblem is a number. *)
THEOREM BoundType ==
    ASSUME NEW t, Tables(t), NEW p, Frame(p)
    PROVE  bornes_calculer(t, p) \in Nat
<1>1. p.permutation \in Schedule
    BY DEF Frame
<1>. QED
    BY <1>1, MakespanType, BorneInfBelow DEF bornes_calculer

-----------------------------------------------------------------------------
(* No pair of machines makes a bound that exceeds the makespan of a        *)
(* schedule below the subproblem.                                          *)

(* The times of the machines after each job of a schedule. *)
Runs(S, t, s) ==
    /\ S \in [0 .. Size -> Loads] /\ S[0] = [m \in Machine |-> 0]
    /\ \A k \in 1 .. Size : S[k] = Through(t.tempsJob, 0, S[k - 1], s[k - 1])

LEMMA RunExists ==
    ASSUME NEW t, Tables(t), NEW s \in Schedule
    PROVE  \E S : Runs(S, t, s) /\ criteres_calculer(t, s) = S[Size][L]
<1>1. 0 \in Machine /\ L \in Machine
    BY MachineFacts
<1>2. s \in [Position -> Position] /\ t.tempsJob \in Times
    BY ScheduleFacts DEF Tables
<1>3. /\ Size - 1 \in Int /\ (Size - 1) - 0 + 1 \in Nat /\ 0 \in Nat /\ Size - 1 <= Size - 1
      /\ (Size - 1) - 0 + 1 = Size
    BY SizeFacts
<1>4. PICK S : /\ Passes(S, t.tempsJob, 0, s, 0, Size)
               /\ Passage(t.tempsJob, 0, s, 0, Size - 1) = S[Size]
    BY <1>1, <1>2, <1>3, PassageSteps
<1>5. \A k \in 1 .. Size : 0 + k - 1 = k - 1
    BY SizeFacts
<1>6. Runs(S, t, s)
    BY <1>4, <1>5 DEF Passes, Runs
<1>. QED
    BY <1>4, <1>6 DEF criteres_calculer, L

(* A machine starts on a job when it is through with the one before, and   *)
(* the job with the machine before.                                        *)
LEMMA RunStep ==
    ASSUME NEW t, Tables(t), NEW s \in Schedule, NEW S, Runs(S, t, s),
           NEW k \in 1 .. Size, NEW m \in Machine
    PROVE  LET d == t.tempsJob[m][s[k - 1]]
           IN  /\ S[k - 1] \in Loads /\ S[k] \in Loads /\ d \in Nat /\ s[k - 1] \in Position
               /\ S[k - 1][m] \in Nat /\ S[k][m] \in Nat
               /\ S[k][m] >= S[k - 1][m] + d
               /\ m = 0 => S[k][m] = S[k - 1][m] + d
               /\ m > 0 => /\ m - 1 \in Machine
                           /\ S[k][m - 1] \in Nat
                           /\ S[k][m] >= S[k][m - 1] + d
                           /\ S[k][m] = max(S[k - 1][m], S[k][m - 1]) + d
<1>1. k - 1 \in 0 .. Size /\ k \in 0 .. Size /\ k - 1 \in Position
    BY SizeFacts
<1>2. S[k - 1] \in Loads /\ S[k] \in Loads /\ S[k] = Through(t.tempsJob, 0, S[k - 1], s[k - 1])
    BY <1>1 DEF Runs
<1>3. s[k - 1] \in Position /\ t.tempsJob \in Times /\ 0 \in Machine
    BY <1>1, ScheduleFacts, MachineFacts DEF Tables
<1>4. /\ S[k][0] = S[k - 1][0] + t.tempsJob[0][s[k - 1]]
      /\ \A x \in 0 + 1 .. L :
            S[k][x] = max(S[k - 1][x], S[k][x - 1]) + t.tempsJob[x][s[k - 1]]
    BY <1>2, <1>3, ThroughSteps
<1>5. \A x \in Machine : S[k - 1][x] \in Nat /\ S[k][x] \in Nat /\ t.tempsJob[x][s[k - 1]] \in Nat
    BY <1>2, <1>3 DEF Loads, Times
<1>6. m = 0 \/ (m > 0 /\ m \in 0 + 1 .. L /\ m - 1 \in Machine /\ m \in Int)
    BY MachineFacts
<1>7. CASE m = 0
    BY <1>2, <1>3, <1>4, <1>5, <1>7
<1>8. CASE m > 0 /\ m \in 0 + 1 .. L /\ m - 1 \in Machine /\ m \in Int
  <2>1. S[k][m] = max(S[k - 1][m], S[k][m - 1]) + t.tempsJob[m][s[k - 1]]
      BY <1>4, <1>8
  <2>1a. S[k - 1][m] \in Int /\ S[k][m - 1] \in Int
      BY <1>5, <1>8
  <2>2. S[k - 1][m] <= max(S[k - 1][m], S[k][m - 1]) /\ S[k][m - 1] <= max(S[k - 1][m], S[k][m - 1])
        /\ max(S[k - 1][m], S[k][m - 1]) \in Int
      BY <2>1a, MaxFacts
  <2>. QED
      BY <1>2, <1>3, <1>5, <1>8, <2>1, <2>2
<1>. QED
    BY <1>6, <1>7, <1>8

(* The job passes the machines in between. *)
LEMMA RunChain ==
    ASSUME NEW t, Tables(t), NEW s \in Schedule, NEW S, Runs(S, t, s),
           NEW k \in 1 .. Size, NEW a \in Machine, NEW b \in Machine, a <= b
    PROVE  /\ S[k][b] >= S[k][a] + Between(t.tempsJob, s[k - 1], a + 1 .. b)
           /\ Between(t.tempsJob, s[k - 1], a + 1 .. b) \in Nat
           /\ S[k][b] >= S[k][a]
<1>. DEFINE j == s[k - 1]
            B(m) == Between(t.tempsJob, j, a + 1 .. m)
            n == L - a
            C == {i \in 0 .. n : S[k][a + i] >= S[k][a] + B(a + i)}
<1>1. a \in Nat /\ b \in Nat /\ n \in Nat /\ b - a \in 0 .. n /\ a + (b - a) = b
    BY MachineFacts
<1>2. j \in Position /\ t.tempsJob \in Times /\ \A m \in Machine : S[k][m] \in Nat
    BY RunStep DEF Tables
<1>3. \A m \in Machine : B(m) \in Nat
  <2>1. \A m \in Machine : a + 1 .. m \in SUBSET Machine
      BY MachineFacts
  <2>. QED
      BY <1>2, <2>1, BetweenFacts
<1>4. 0 \in C
  <2>1. a + 1 .. a = {} /\ a + 0 = a
      BY <1>1
  <2>2. B(a) = 0
      BY <1>2, <2>1, BetweenFacts
  <2>. QED
      BY <1>1, <1>2, <2>1, <2>2
<1>5. ASSUME NEW i \in 1 .. n, i - 1 \in C PROVE i \in C
  <2>. DEFINE x == a + i
              y == x - 1
  <2>1. x \in Machine /\ y \in Machine /\ x > 0 /\ a + (i - 1) = y
        /\ a + 1 \in Machine /\ a + 1 <= x
      BY <1>1, MachineFacts
  <2>. HIDE DEF x
  <2>2. /\ Between(t.tempsJob, j, a + 1 .. x)
             = Between(t.tempsJob, j, a + 1 .. x - 1) + t.tempsJob[x][j]
        /\ Between(t.tempsJob, j, a + 1 .. x - 1) \in Nat
      BY <1>2, <2>1, BetweenSteps
  <2>3. S[k][x] >= S[k][y] + t.tempsJob[x][j] /\ t.tempsJob[x][j] \in Nat
    <3>. HIDE DEF C, B, n
    <3>. QED
        BY <2>1, RunStep
  <2>4. S[k][y] >= S[k][a] + B(y)
      BY <1>5, <2>1
  <2>5. S[k][x] \in Nat /\ S[k][y] \in Nat /\ S[k][a] \in Nat
      BY <1>2, <2>1
  <2>5a. B(x) = B(y) + t.tempsJob[x][j] /\ B(y) \in Nat
      BY <2>2
  <2>. HIDE DEF B, y
  <2>6. S[k][x] >= S[k][a] + B(x)
      BY <2>3, <2>4, <2>5, <2>5a
  <2>. QED
      BY <1>1, <2>6 DEF x
<1>6. b - a \in C
  <2>. HIDE DEF C, n
  <2>. QED
      BY <1>1, <1>4, <1>5, UpTo
<1>7. S[k][b] >= S[k][a] + B(b) /\ B(b) \in Nat
    BY <1>1, <1>3, <1>6
<1>8. S[k][b] \in Nat /\ S[k][a] \in Nat
    BY <1>2
<1>. HIDE DEF B
<1>9. S[k][b] >= S[k][a]
    BY <1>7, <1>8
<1>. QED
    BY <1>7, <1>9 DEF B

(* Through the jobs fixed at the beginning, a schedule below p is p's. *)
LEMMA RunReady ==
    ASSUME NEW t, Tables(t), NEW p, Frame(p), NEW s \in Schedule, Completes(s, p),
           NEW S, Runs(S, t, s)
    PROVE  tempsMachines(t, p) = S[p.limite1 + 1]
<1>. DEFINE a == p.limite1 + 1
<1>1. /\ 0 \in Machine /\ p.permutation \in [Position -> Position] /\ t.tempsJob \in Times
      /\ p.limite1 \in Int /\ p.limite1 <= Size - 1 /\ p.limite1 - 0 + 1 \in Nat /\ 0 \in Nat
      /\ a = p.limite1 - 0 + 1 /\ a \in 0 .. Size
  <2>1. 0 \in Machine /\ p.permutation \in [Position -> Position] /\ t.tempsJob \in Times
      BY MachineFacts, ScheduleFacts DEF Frame, Tables
  <2>2. p.limite1 \in -1 .. Size - 1 /\ Size \in Nat
      BY SizeFacts DEF Frame
  <2>. QED
      BY <2>1, <2>2
<1>2. PICK R : /\ Passes(R, t.tempsJob, 0, p.permutation, 0, p.limite1 - 0 + 1)
               /\ tempsMachines(t, p) = R[p.limite1 - 0 + 1]
    BY <1>1, PassageSteps DEF tempsMachines
<1>3. /\ R[0] = [m \in Machine |-> 0]
      /\ \A k \in 1 .. a : R[k] = Through(t.tempsJob, 0, R[k - 1], p.permutation[0 + k - 1])
    BY <1>1, <1>2 DEF Passes
<1>4. /\ S[0] = [m \in Machine |-> 0]
      /\ \A k \in 1 .. Size : S[k] = Through(t.tempsJob, 0, S[k - 1], s[k - 1])
    BY DEF Runs
<1>. DEFINE E == {k \in 0 .. a : R[k] = S[k]}
<1>5. 0 \in E
    BY <1>1, <1>3, <1>4
<1>6. ASSUME NEW k \in 1 .. a, k - 1 \in E PROVE k \in E
  <2>1. k \in 1 .. Size /\ k - 1 \in Position /\ k - 1 <= p.limite1 /\ 0 + k - 1 = k - 1 /\ k \in 0 .. a
      BY <1>1, SizeFacts
  <2>2. s[k - 1] = p.permutation[k - 1]
      BY <2>1 DEF Completes
  <2>. HIDE DEF a
  <2>3. R[k] = Through(t.tempsJob, 0, R[k - 1], s[k - 1])
      BY <1>3, <2>1, <2>2
  <2>4. S[k] = Through(t.tempsJob, 0, S[k - 1], s[k - 1])
      BY <1>4, <2>1
  <2>. QED
      BY <1>6, <2>1, <2>3, <2>4
<1>7. a \in E
  <2>. HIDE DEF E, a
  <2>1. a \in Nat /\ a \in 0 .. a
      BY <1>1, SizeFacts
  <2>2. 0 .. a \subseteq E
      BY <1>5, <1>6, <2>1, UpTo
  <2>. QED
      BY <2>1, <2>2
<1>. QED
    BY <1>1, <1>2, <1>7

(* Through the jobs fixed at the end, a schedule takes at least as long as *)
(* they do from a machine on once it is free.                              *)
LEMMA RunTail ==
    ASSUME NEW t, Tables(t), NEW p, Frame(p), NEW s \in Schedule, Completes(s, p),
           NEW S, Runs(S, t, s), p.limite2 >= 1, NEW m \in Machine
    PROVE  S[Size][L] >= S[p.limite2][m] + tempsMachinesFin(t, p)[m]
           /\ S[Size][L] \in Nat /\ S[p.limite2][m] \in Nat /\ tempsMachinesFin(t, p)[m] \in Nat
<1>. DEFINE b == p.limite2
            n == Size - b
            q == p.permutation
<1>1. /\ b \in 1 .. Size /\ n \in Nat /\ b + n = Size /\ b + 0 = b
      /\ \A k \in 1 .. n : b + k \in 1 .. Size /\ b + k - 1 \in Position /\ b + k - 1 >= b
                           /\ b + (k - 1) = b + k - 1
    BY SizeFacts DEF Frame
<1>2. /\ q \in [Position -> Position] /\ t.tempsJob \in Times /\ b \in Nat
      /\ Size - 1 \in Int /\ Size - 1 <= Size - 1 /\ (Size - 1) - b + 1 \in Nat
      /\ (Size - 1) - b + 1 = n
  <2>1. q \in [Position -> Position] /\ t.tempsJob \in Times
      BY ScheduleFacts DEF Frame, Tables
  <2>2. Size \in Nat
      BY SizeFacts
  <2>. HIDE DEF q
  <2>. QED
      BY <1>1, <2>1, <2>2
<1>3. PICK G : /\ Passes(G, t.tempsJob, m, q, b, n)
               /\ Passage(t.tempsJob, m, q, b, Size - 1) = G[n]
  <2>. HIDE DEF q, b, n
  <2>1. \E G : /\ Passes(G, t.tempsJob, m, q, b, (Size - 1) - b + 1)
               /\ Passage(t.tempsJob, m, q, b, Size - 1) = G[(Size - 1) - b + 1]
      BY <1>2, PassageSteps
  <2>. QED
      BY <1>2, <2>1
<1>4. /\ G \in [0 .. n -> Loads] /\ G[0] = [x \in Machine |-> 0]
      /\ \A k \in 1 .. n : G[k] = Through(t.tempsJob, m, G[k - 1], q[b + k - 1])
    BY <1>3 DEF Passes
<1>5. tempsMachinesFin(t, p)[m] = G[n][L]
    BY <1>3 DEF tempsMachinesFin, L
<1>6. \A k \in 0 .. Size, x \in Machine : S[k][x] \in Nat
    BY DEF Runs, Loads
<1>7. m \in Nat /\ L \in Machine /\ m <= L /\ L - m \in Nat /\ m + (L - m) = L /\ m + 0 = m
    BY MachineFacts
<1>. DEFINE Late(k, x) == S[b + k][x] >= S[b][m] + G[k][x]
            W == {k \in 0 .. n : \A x \in m .. L : Late(k, x)}
<1>8. 0 \in W
  <2>1. ASSUME NEW x \in m .. L PROVE Late(0, x)
    <3>1. x \in Machine /\ m <= x
        BY MachineFacts
    <3>2. S[b][x] >= S[b][m]
        BY <1>1, <3>1, RunChain
    <3>3. G[0][x] = 0 /\ S[b][x] \in Nat /\ S[b][m] \in Nat
        BY <1>1, <1>4, <1>6, <3>1
    <3>. QED
        BY <1>1, <3>2, <3>3
  <2>. QED
      BY <1>1, <2>1
<1>9. ASSUME NEW k \in 1 .. n, k - 1 \in W PROVE k \in W
  <2>. DEFINE j == q[b + k - 1]
              c == b + k
  <2>1. /\ c \in 1 .. Size /\ c - 1 \in Position /\ c - 1 >= b /\ b + (k - 1) = c - 1 /\ c - 1 \in 0 .. Size
        /\ k - 1 \in 0 .. n /\ k \in 0 .. n
      BY SMTT(30), <1>1, SizeFacts
  <2>2. s[c - 1] = j /\ j \in Position
      BY <1>2, <2>1 DEF Completes
  <2>3. G[k] = Through(t.tempsJob, m, G[k - 1], j) /\ G[k - 1] \in Loads /\ G[k] \in Loads
      BY <1>4, <2>1
  <2>. HIDE DEF j
  <2>4. /\ G[k][m] = G[k - 1][m] + t.tempsJob[m][j]
        /\ \A x \in m + 1 .. L : G[k][x] = max(G[k - 1][x], G[k][x - 1]) + t.tempsJob[x][j]
      BY <1>2, <2>2, <2>3, ThroughSteps
  <2>5. \A x \in m .. L : Late(k - 1, x)
      BY <1>9
  <2>. HIDE DEF c
  <2>6. \A x \in m .. L : S[c - 1][x] >= S[b][m] + G[k - 1][x]
      BY <2>1, <2>5
  <2>7. \A x \in Machine : G[k - 1][x] \in Nat /\ G[k][x] \in Nat /\ S[b][x] \in Nat
                           /\ S[c][x] \in Nat /\ S[c - 1][x] \in Nat /\ t.tempsJob[x][j] \in Nat
      BY <1>1, <1>2, <1>6, <2>1, <2>2, <2>3 DEF Loads, Times
  <2>8. \A x \in Machine : /\ S[c][x] >= S[c - 1][x] + t.tempsJob[x][j]
                           /\ x > 0 => S[c][x] >= S[c][x - 1] + t.tempsJob[x][j]
      BY <2>1, <2>2, RunStep
  <2>. DEFINE X == {i \in 0 .. L - m : S[c][m + i] >= S[b][m] + G[k][m + i]}
  <2>9. 0 \in X
    <3>1. m \in m .. L
        BY <1>7
    <3>2. S[c][m] >= S[c - 1][m] + t.tempsJob[m][j] /\ S[c - 1][m] >= S[b][m] + G[k - 1][m]
        BY <2>6, <2>8, <3>1
    <3>3. S[c][m] >= S[b][m] + G[k][m]
        BY <2>4, <2>7, <3>2
    <3>. QED
        BY <1>7, <3>3
  <2>10. ASSUME NEW i \in 1 .. L - m, i - 1 \in X PROVE i \in X
    <3>. DEFINE x == m + i
    <3>1. /\ x \in m + 1 .. L /\ x \in m .. L /\ x \in Machine /\ x - 1 \in Machine /\ x > 0
          /\ m + (i - 1) = x - 1 /\ i \in 0 .. L - m
        BY <1>7, MachineFacts
    <3>2. S[c][x - 1] >= S[b][m] + G[k][x - 1]
        BY <2>10, <3>1
    <3>. HIDE DEF x, X
    <3>3. /\ S[c][x] >= S[c - 1][x] + t.tempsJob[x][j]
          /\ S[c][x] >= S[c][x - 1] + t.tempsJob[x][j]
          /\ S[c - 1][x] >= S[b][m] + G[k - 1][x]
          /\ G[k][x] = max(G[k - 1][x], G[k][x - 1]) + t.tempsJob[x][j]
        BY <2>4, <2>6, <2>8, <3>1
    <3>4. /\ S[c][x] \in Nat /\ S[c][x - 1] \in Nat /\ S[c - 1][x] \in Nat /\ S[b][m] \in Nat
          /\ G[k - 1][x] \in Nat /\ G[k][x - 1] \in Nat /\ t.tempsJob[x][j] \in Nat
        BY <2>7, <3>1
    <3>5. max(G[k - 1][x], G[k][x - 1]) = G[k - 1][x] \/ max(G[k - 1][x], G[k][x - 1]) = G[k][x - 1]
        BY DEF max
    <3>6. S[c][x] >= S[b][m] + G[k][x]
        BY <3>2, <3>3, <3>4, <3>5
    <3>. QED
        BY <3>1, <3>6 DEF x, X
  <2>11. 0 .. L - m \subseteq X
    <3>. HIDE DEF X
    <3>. QED
        BY <1>7, <2>9, <2>10, UpTo
  <2>12. ASSUME NEW x \in m .. L PROVE Late(k, x)
    <3>1. x - m \in 0 .. L - m /\ m + (x - m) = x
        BY <1>7
    <3>2. S[c][x] >= S[b][m] + G[k][x]
        BY <2>11, <3>1
    <3>. QED
        BY <3>2 DEF c
  <2>. QED
      BY <2>1, <2>12
<1>10. n \in W
  <2>. HIDE DEF W, n
  <2>1. n \in Nat /\ n \in 0 .. n
      BY <1>1
  <2>2. 0 .. n \subseteq W
      BY <1>8, <1>9, <2>1, UpTo
  <2>. QED
      BY <2>1, <2>2
<1>11. S[Size][L] >= S[b][m] + G[n][L]
  <2>1. L \in m .. L
      BY <1>7
  <2>. QED
      BY <1>1, <1>10, <2>1
<1>12. S[Size][L] \in Nat /\ S[b][m] \in Nat
  <2>1. Size \in 0 .. Size /\ b \in 0 .. Size
      BY <1>1, SizeFacts
  <2>. QED
      BY <1>6, <1>7, <2>1
<1>13. tempsMachinesFin(t, p)[m] \in Nat
    BY MachineTimes DEF Loads
<1>. QED
    BY <1>5, <1>11, <1>12, <1>13

(* The open jobs of a schedule below p are those at the open positions. *)
LEMMA RunOrder ==
    ASSUME NEW p, Frame(p), NEW s \in Schedule, Completes(s, p)
    PROVE  LET ordo == [i \in 1 .. Size |-> s[i - 1]]
           IN  /\ ordo \in Orders
               /\ \A i \in 1 .. Size : /\ ordo[i] = s[i - 1]
                                       /\ ordo[i] \in OpenJobs(p) <=> p.limite1 + 1 < i /\ i <= p.limite2
<1>. DEFINE ordo == [i \in 1 .. Size |-> s[i - 1]]
            q == p.permutation
<1>1. q \in Schedule /\ p.limite1 \in -1 .. Size - 1 /\ p.limite2 \in 0 .. Size /\ Size \in Nat
    BY SizeFacts DEF Frame
<1>2. \A k \in Position : k \in Int /\ (k \in Free(p) \/ s[k] = q[k])
    BY <1>1, SizeFacts DEF Free, Completes
<1>3. \A k \in Free(p) : k \in Position
    BY <1>1, SizeFacts DEF Free
<1>4. ASSUME NEW i \in 1 .. Size
      PROVE  s[i - 1] \in OpenJobs(p) <=> p.limite1 + 1 < i /\ i <= p.limite2
  <2>1a. i - 1 \in Position
      BY SizeFacts
  <2>1. i - 1 \in Position /\ s[i - 1] \in Position
      BY <2>1a, ScheduleFacts
  <2>2. i - 1 \in Free(p) <=> p.limite1 + 1 < i /\ i <= p.limite2
      BY <1>1 DEF Free
  <2>3. ASSUME s[i - 1] \in OpenJobs(p) PROVE i - 1 \in Free(p)
    <3>1. PICK k \in Free(p) : q[k] = s[i - 1]
        BY <2>3 DEF OpenJobs
    <3>2. i - 1 # k => q[i - 1] # q[k]
        BY <1>1, <1>3, <2>1, <3>1, ScheduleFacts
    <3>. QED
        BY <1>2, <2>1, <3>1, <3>2
  <2>4. ASSUME i - 1 \in Free(p) PROVE s[i - 1] \in OpenJobs(p)
    <3>1. PICK k \in Position : q[k] = s[i - 1]
        BY <1>1, <2>1, ScheduleFacts
    <3>2. i - 1 # k => s[i - 1] # s[k]
        BY <2>1, ScheduleFacts
    <3>3. k \in Free(p)
        BY <1>2, <2>4, <3>1, <3>2
    <3>. QED
        BY <3>1, <3>3 DEF OpenJobs
  <2>. QED
      BY <2>2, <2>3, <2>4
<1>. QED
    BY <1>4 DEF Orders

(* What the two machines do with the open jobs in the schedule's own order *)
(* takes no longer than the schedule does.                                 *)
LEMMA RunPair ==
    ASSUME NEW t, Tables(t), NEW p, Frame(p), p.limite1 + 1 < p.limite2,
           NEW s \in Schedule, Completes(s, p), NEW S, Runs(S, t, s), NEW ma \in Pairs
    PROVE  LET c == heuristiqueCmax(t, p, ma, [i \in 1 .. Size |-> s[i - 1]])
           IN  c \in Pair /\ c[1] <= S[p.limite2][ma[1]] /\ c[2] <= S[p.limite2][ma[2]]
<1>. DEFINE ordo == [i \in 1 .. Size |-> s[i - 1]]
            a == p.limite1 + 1
            b == p.limite2
            t1 == t.tempsJob[ma[1]]
            t2 == t.tempsJob[ma[2]]
            lag == t.tempsLag[ma]
<1>1. ordo \in Orders /\ \A i \in 1 .. Size : /\ ordo[i] = s[i - 1]
                                              /\ ordo[i] \in OpenJobs(p) <=> a < i /\ i <= b
    BY RunOrder
<1>2. PICK f : Follows(f, t, p, ma, ordo) /\ heuristiqueCmax(t, p, ma, ordo) = f[Size]
  <2>. HIDE DEF ordo
  <2>. QED
      BY <1>1, HeuristicSteps
<1>3. /\ a \in 0 .. Size /\ b \in 1 .. Size /\ a < b /\ a \in Nat /\ b \in Nat /\ Size \in Nat
      /\ a + 1 \in 1 .. Size /\ (a + 1) - 1 = a
  <2>1. p.limite1 \in -1 .. Size - 1 /\ p.limite2 \in 0 .. Size /\ Size \in Nat
      BY SizeFacts DEF Frame
  <2>. QED
      BY <2>1
<1>4. /\ ma[1] \in Machine /\ ma[2] \in Machine /\ ma[1] < ma[2] /\ ma[1] \in Nat /\ ma[2] \in Nat
      /\ ma[1] + 1 \in Machine /\ ma[2] - 1 \in Machine /\ ma[1] <= ma[2] - 1 /\ ma[2] > 0
      /\ 0 \in Machine
    BY PairFacts, MachineFacts
<1>5. /\ f \in [0 .. Size -> Pair] /\ f[0] = initCmax(t, p, ma)
      /\ \A i \in 1 .. Size :
            f[i] = IF ordo[i] \in OpenJobs(p) THEN Placed(t, ma, ordo[i], f[i - 1]) ELSE f[i - 1]
    BY <1>2 DEF Follows
<1>6. \A k \in 0 .. Size, x \in Machine : S[k][x] \in Nat
    BY DEF Runs, Loads
<1>. HIDE DEF ordo, a, b
<1>7. \A i \in 0 .. Size : f[i] \in Pair /\ f[i][1] \in Nat /\ f[i][2] \in Nat
    BY <1>5 DEF Pair
    (* before the open jobs *)
<1>8. f[a] = f[0]
  <2>. DEFINE E == {i \in 0 .. a : f[i] = f[0]}
  <2>1. 0 \in E
      BY <1>3
  <2>2. ASSUME NEW i \in 1 .. a, i - 1 \in E PROVE i \in E
    <3>1. i \in 1 .. Size /\ ~(a < i) /\ i \in 0 .. a
        BY <1>3
    <3>2. f[i] = f[i - 1]
        BY <1>1, <1>5, <3>1
    <3>. QED
        BY <2>2, <3>1, <3>2
  <2>. HIDE DEF E
  <2>3. 0 .. a \subseteq E /\ a \in 0 .. a
      BY <1>3, <2>1, <2>2, UpTo
  <2>. QED
      BY <2>3 DEF E
    (* each machine can start on the i-th job when it is its turn *)
<1>. DEFINE Start(i, c) ==
                /\ c[1] + t1[s[i - 1]] <= S[i][ma[1]]
                /\ c[2] + t2[s[i - 1]] <= S[i][ma[2]]
<1>9. Start(a + 1, f[a])
  <2>. DEFINE j == s[a]
  <2>1. /\ j \in Position /\ \A x \in Machine : /\ S[a + 1][x] >= S[a][x] + t.tempsJob[x][j]
                                                /\ t.tempsJob[x][j] \in Nat
    <3>. DEFINE w == a + 1
    <3>1. w \in 1 .. Size /\ w - 1 = a
        BY <1>3
    <3>. HIDE DEF w
    <3>2. \A x \in Machine : /\ S[w][x] >= S[w - 1][x] + t.tempsJob[x][s[w - 1]]
                             /\ t.tempsJob[x][s[w - 1]] \in Nat /\ s[w - 1] \in Position
        BY <3>1, RunStep
    <3>. QED
        BY <1>4, <3>1, <3>2 DEF w
  <2>2. CASE a # 0
    <3>1. f[a] = <<S[a][ma[1]], S[a][ma[2]]>>
        BY <1>5, <1>8, <2>2, RunReady DEF initCmax, a
    <3>. QED
        BY <1>3, <1>4, <2>1, <3>1
  <2>3. CASE a = 0
    <3>1. f[a] = <<t.minTempsArr[ma[1]], t.minTempsArr[ma[2]]>>
        BY <1>5, <1>8, <2>3 DEF initCmax, a
    <3>2. ASSUME NEW x \in Machine
          PROVE  t.minTempsArr[x] + t.tempsJob[x][j] <= S[a + 1][x]
      <4>1. /\ t.minTempsArr[x] \in Nat /\ t.minTempsArr[x] <= Between(t.tempsJob, j, 0 .. x - 1)
            /\ t.tempsJob \in Times
          BY <2>1 DEF Tables
      <4>2. x \in Nat /\ 0 <= x
          BY MachineFacts
      <4>3. S[a + 1][x] >= S[a + 1][0] + Between(t.tempsJob, j, 0 + 1 .. x)
            /\ Between(t.tempsJob, j, 0 + 1 .. x) \in Nat
          BY <1>3, <1>4, <4>2, RunChain
      <4>4. S[a + 1][0] = S[a][0] + t.tempsJob[0][j] /\ S[a + 1][0] \in Nat /\ S[a][0] \in Nat
            /\ t.tempsJob[0][j] \in Nat
          BY SMTT(30), <1>3, <1>4, RunStep
      <4>5. Between(t.tempsJob, j, 0 .. x) = t.tempsJob[0][j] + Between(t.tempsJob, j, 0 + 1 .. x)
        <5>1. 0 .. x = (0 + 1 .. x) \cup {0} /\ 0 \notin 0 + 1 .. x /\ 0 + 1 .. x \in SUBSET Machine
            BY <4>2, MachineFacts
        <5>2. Between(t.tempsJob, j, (0 + 1 .. x) \cup {0})
                 = Between(t.tempsJob, j, 0 + 1 .. x) + t.tempsJob[0][j]
            BY <1>4, <2>1, <4>1, <5>1, BetweenFacts
        <5>3. \A u, v \in Nat : u + v = v + u
            OBVIOUS
        <5>. QED
            BY <4>3, <4>4, <5>1, <5>2, <5>3
      <4>6. /\ Between(t.tempsJob, j, 0 .. x) = Between(t.tempsJob, j, 0 .. x - 1) + t.tempsJob[x][j]
            /\ Between(t.tempsJob, j, 0 .. x) \in Nat /\ Between(t.tempsJob, j, 0 .. x - 1) \in Nat
          BY <1>4, <2>1, <4>1, <4>2, BetweenSteps
      <4>7. S[a + 1][x] \in Nat /\ t.tempsJob[x][j] \in Nat
          BY <1>3, <1>6, <2>1
      <4>8. S[a + 1][x] >= Between(t.tempsJob, j, 0 .. x)
        <5>. HIDE DEF j
        <5>. QED
            BY <4>3, <4>4, <4>5, <4>7
      <4>. HIDE DEF j
      <4>. QED
          BY <4>1, <4>6, <4>7, <4>8
    <3>. QED
        BY <1>3, <1>4, <3>1, <3>2
  <2>. QED
      BY <2>2, <2>3
    (* the i-th job is over on each machine no later than in the schedule *)
<1>10. ASSUME NEW i \in 1 .. Size, a < i, i <= b, Start(i, f[i - 1])
       PROVE  f[i][1] <= S[i][ma[1]] /\ f[i][2] <= S[i][ma[2]]
  <2>. DEFINE j == s[i - 1]
              c == f[i - 1]
              B == Between(t.tempsJob, j, ma[1] + 1 .. ma[2] - 1)
  <2>1. f[i] = Placed(t, ma, j, c)
      BY <1>1, <1>5, <1>10
  <2>2. c[1] \in Nat /\ c[2] \in Nat
    <3>1. i - 1 \in 0 .. Size
        BY <1>3
    <3>. QED
        BY <1>7, <3>1
  <2>3. /\ j \in Position /\ t1[j] \in Nat /\ t2[j] \in Nat
        /\ S[i][ma[2]] >= S[i][ma[2] - 1] + t2[j]
      BY <1>4, RunStep
  <2>4. S[i][ma[2] - 1] >= S[i][ma[1]] + B /\ B \in Nat
      BY <1>4, RunChain
  <2>5. lag[j] = B
      BY <2>3 DEF Tables
  <2>6. S[i][ma[1]] \in Nat /\ S[i][ma[2]] \in Nat /\ S[i][ma[2] - 1] \in Nat
    <3>1. i \in 0 .. Size
        BY <1>3
    <3>. QED
        BY <1>4, <1>6, <3>1
  <2>7. c[1] + t1[j] <= S[i][ma[1]] /\ c[2] + t2[j] <= S[i][ma[2]]
      BY <1>10
  <2>8. f[i] = <<c[1] + t1[j], max(c[2], c[1] + t1[j] + lag[j]) + t2[j]>>
      BY <2>1 DEF Placed
  <2>9. max(c[2], c[1] + t1[j] + lag[j]) = c[2] \/ max(c[2], c[1] + t1[j] + lag[j]) = c[1] + t1[j] + lag[j]
      BY DEF max
  <2>10. f[i][1] = c[1] + t1[j] /\ f[i][2] = max(c[2], c[1] + t1[j] + lag[j]) + t2[j]
      BY <2>8
  <2>. HIDE DEF j, c, B, t1, t2, lag
  <2>11. f[i][1] <= S[i][ma[1]]
      BY <2>7, <2>10
  <2>12. f[i][2] <= S[i][ma[2]]
      BY <2>2, <2>3, <2>4, <2>5, <2>6, <2>7, <2>9, <2>10
  <2>. QED
      BY <2>11, <2>12
<1>11. ASSUME NEW i \in 1 .. Size - 1, f[i][1] <= S[i][ma[1]], f[i][2] <= S[i][ma[2]]
       PROVE  Start(i + 1, f[i])
  <2>1. i + 1 \in 1 .. Size /\ (i + 1) - 1 = i /\ i \in 0 .. Size
      BY <1>3
  <2>2. \A x \in Machine : /\ S[i + 1][x] >= S[i][x] + t.tempsJob[x][s[i]]
                           /\ t.tempsJob[x][s[i]] \in Nat /\ S[i + 1][x] \in Nat /\ S[i][x] \in Nat
      BY <2>1, RunStep
  <2>. QED
      BY <1>4, <1>7, <1>11, <2>1, <2>2
    (* up to the last open job *)
<1>. DEFINE X == {k \in 0 .. b - (a + 1) : /\ f[a + 1 + k][1] <= S[a + 1 + k][ma[1]]
                                           /\ f[a + 1 + k][2] <= S[a + 1 + k][ma[2]]}
<1>12. 0 \in X
  <2>1. a < a + 1 /\ a + 1 <= b /\ a + 1 + 0 = a + 1
      BY <1>3
  <2>2. Start(a + 1, f[(a + 1) - 1])
      BY <1>3, <1>9
  <2>. HIDE DEF Start
  <2>3. f[a + 1][1] <= S[a + 1][ma[1]] /\ f[a + 1][2] <= S[a + 1][ma[2]]
      BY <1>3, <1>10, <2>1, <2>2
  <2>. QED
      BY <1>3, <2>1, <2>3
<1>13. ASSUME NEW k \in 1 .. b - (a + 1), k - 1 \in X PROVE k \in X
  <2>. DEFINE i == a + 1 + k
  <2>1. /\ i \in 1 .. Size /\ a < i /\ i <= b /\ i - 1 \in 1 .. Size - 1 /\ (i - 1) + 1 = i
        /\ a + 1 + (k - 1) = i - 1 /\ k \in 0 .. b - (a + 1)
      BY <1>3
  <2>2. f[i - 1][1] <= S[i - 1][ma[1]] /\ f[i - 1][2] <= S[i - 1][ma[2]]
      BY <1>13, <2>1
  <2>. HIDE DEF i, X, Start
  <2>3. Start(i, f[i - 1])
      BY <1>11, <2>1, <2>2
  <2>4. f[i][1] <= S[i][ma[1]] /\ f[i][2] <= S[i][ma[2]]
      BY <1>10, <2>1, <2>3
  <2>. QED
      BY <2>1, <2>4 DEF X, i
<1>14. f[b][1] <= S[b][ma[1]] /\ f[b][2] <= S[b][ma[2]]
  <2>1. b - (a + 1) \in Nat /\ b - (a + 1) \in 0 .. b - (a + 1) /\ a + 1 + (b - (a + 1)) = b
      BY <1>3
  <2>. HIDE DEF X
  <2>2. 0 .. b - (a + 1) \subseteq X
      BY <1>12, <1>13, <2>1, UpTo
  <2>. QED
      BY <2>1, <2>2 DEF X
    (* after the open jobs *)
<1>15. f[Size] = f[b]
  <2>. DEFINE E == {k \in 0 .. Size - b : f[b + k] = f[b]}
  <2>1. 0 \in E
      BY <1>3
  <2>2. ASSUME NEW k \in 1 .. Size - b, k - 1 \in E PROVE k \in E
    <3>1. b + k \in 1 .. Size /\ ~(b + k <= b) /\ k \in 0 .. Size - b /\ b + (k - 1) = (b + k) - 1
        BY <1>3
    <3>2. f[b + k] = f[(b + k) - 1]
        BY <1>1, <1>5, <3>1
    <3>. QED
        BY <2>2, <3>1, <3>2
  <2>. HIDE DEF E
  <2>3. Size - b \in Nat /\ Size - b \in 0 .. Size - b /\ b + (Size - b) = Size
      BY <1>3
  <2>4. 0 .. Size - b \subseteq E
      BY <2>1, <2>2, <2>3, UpTo
  <2>. QED
      BY <2>3, <2>4 DEF E
<1>16. f[Size] \in Pair
    BY <1>3, <1>7
<1>. QED
    BY <1>2, <1>14, <1>15, <1>16 DEF ordo, b

LEMMA BorneBelow ==
    ASSUME NEW t, Tables(t), NEW p, Frame(p), p.limite1 + 1 < p.limite2,
           NEW s \in Schedule, Completes(s, p), NEW ma \in Pairs
    PROVE  Borne(t, p, ma) <= criteres_calculer(t, s)
<1>. DEFINE ordo == [i \in 1 .. Size |-> s[i - 1]]
            b == p.limite2
            c == heuristiqueCmax(t, p, ma, t.tabJohnson[ma])
            e == heuristiqueCmax(t, p, ma, ordo)
            fin == tempsMachinesFin(t, p)
<1>1. PICK S : Runs(S, t, s) /\ criteres_calculer(t, s) = S[Size][L]
    BY RunExists
<1>2. e \in Pair /\ e[1] <= S[b][ma[1]] /\ e[2] <= S[b][ma[2]]
    BY <1>1, RunPair
<1>3. ordo \in Orders
    BY DEF Orders
<1>4. c[1] = e[1] /\ c[2] <= e[2] /\ c \in Pair
  <2>. HIDE DEF ordo
  <2>. QED
      BY <1>3, JohnsonBest
<1>5. b \in 1 .. Size /\ b >= 1 /\ Size \in Nat
  <2>1. p.limite1 \in -1 .. Size - 1 /\ p.limite2 \in 0 .. Size /\ Size \in Nat
      BY SizeFacts DEF Frame
  <2>. QED
      BY <2>1
<1>6. \A x \in Machine : /\ S[Size][L] >= S[b][x] + fin[x]
                         /\ S[Size][L] \in Nat /\ S[b][x] \in Nat /\ fin[x] \in Nat
    BY <1>1, <1>5, RunTail
<1>7. ma[1] \in Machine /\ ma[2] \in Machine
    BY PairFacts
<1>8. c[1] \in Nat /\ c[2] \in Nat /\ e[1] \in Nat /\ e[2] \in Nat
    BY <1>2, <1>4 DEF Pair
<1>. HIDE DEF ordo, c, e, fin, b
<1>9. CASE b # Size
  <2>1. Borne(t, p, ma) = max(c[2] + fin[ma[2]], c[1] + fin[ma[1]])
      BY <1>9 DEF Borne, cmaxFin, c, fin, b
  <2>2. c[2] + fin[ma[2]] <= S[Size][L] /\ c[1] + fin[ma[1]] <= S[Size][L]
      BY <1>2, <1>4, <1>6, <1>7, <1>8
  <2>. QED
      BY <1>1, <2>1, <2>2 DEF max
<1>10. CASE b = Size
  <2>. DEFINE j == s[Size - 1]
              m == ma[2]
  <2>1. Borne(t, p, ma) = c[2] + t.minTempsDep[m]
      BY <1>10 DEF Borne, cmaxFin, c, fin, b
  <2>2. j \in Position
    <3>1. Size - 1 \in Position
        BY SizeFacts
    <3>. QED
        BY <3>1, ScheduleFacts
  <2>3. t.minTempsDep[m] \in Nat /\ t.minTempsDep[m] <= Between(t.tempsJob, j, m + 1 .. L)
      BY <1>7, <2>2 DEF Tables
  <2>4. /\ S[Size][L] >= S[Size][m] + Between(t.tempsJob, j, m + 1 .. L)
        /\ Between(t.tempsJob, j, m + 1 .. L) \in Nat
    <3>1. Size \in 1 .. Size /\ L \in Machine /\ m <= L
        BY <1>5, <1>7, <1>10, MachineFacts
    <3>. QED
        BY <1>1, <1>7, <3>1, RunChain
  <2>5. S[Size][L] \in Nat /\ S[Size][m] \in Nat
      BY <1>6, <1>7, <1>10
  <2>6. e[2] <= S[Size][m]
      BY <1>2, <1>10
  <2>. HIDE DEF j, m
  <2>7. c[2] + t.minTempsDep[m] <= S[Size][L]
    <3>. DEFINE tail == Between(t.tempsJob, j, m + 1 .. L)
    <3>1. /\ c[2] <= e[2] /\ e[2] <= S[Size][m] /\ S[Size][m] + tail <= S[Size][L]
          /\ t.minTempsDep[m] <= tail
          /\ c[2] \in Nat /\ e[2] \in Nat /\ t.minTempsDep[m] \in Nat /\ tail \in Nat
        BY <1>4, <1>8, <2>3, <2>4, <2>5, <2>6
    <3>. HIDE DEF tail
    <3>2. \A x, y, z, w, k, u \in Nat :
             x <= y /\ y <= z /\ z + w <= u /\ k <= w => x + k <= u
        OBVIOUS
    <3>. QED
        BY <2>5, <3>1, <3>2
  <2>. QED
      BY <1>1, <2>1, <2>7
<1>. QED
    BY <1>9, <1>10

(* The cost of a subproblem is never more than the makespan of a schedule  *)
(* below it, and of a leaf it is the makespan.                             *)
THEOREM BoundBelow ==
    ASSUME NEW t, Tables(t), NEW p, Frame(p), NEW s \in Schedule, Completes(s, p)
    PROVE  /\ bornes_calculer(t, p) <= criteres_calculer(t, s)
           /\ p.limite2 - p.limite1 = 1 => bornes_calculer(t, p) = criteres_calculer(t, s)
<1>1. p.limite1 \in -1 .. Size - 1 /\ p.limite2 \in 0 .. Size /\ Size \in Nat /\ p.limite1 < p.limite2
    BY SizeFacts DEF Frame
<1>2. criteres_calculer(t, s) \in Nat
    BY MakespanType
<1>3. CASE p.limite2 - p.limite1 = 1
  <2>1. \A i \in Position : i <= p.limite1 \/ i >= p.limite2
      BY <1>1, <1>3, SizeFacts
  <2>2. \A i \in Position : s[i] = p.permutation[i]
      BY <2>1 DEF Completes
  <2>3. s \in [Position -> Position] /\ p.permutation \in [Position -> Position]
      BY ScheduleFacts DEF Frame
  <2>4. s = p.permutation
      BY <2>2, <2>3
  <2>5. bornes_calculer(t, p) = criteres_calculer(t, s)
      BY <1>3, <2>4 DEF bornes_calculer
  <2>. QED
      BY <1>2, <2>5
<1>4. CASE p.limite2 - p.limite1 # 1
  <2>1. p.limite1 + 1 < p.limite2
      BY <1>1, <1>4
  <2>2. \A ma \in Pairs : Borne(t, p, ma) <= criteres_calculer(t, s)
      BY <2>1, BorneBelow
  <2>3. borneInfMakespan(t, p) <= criteres_calculer(t, s)
      BY <1>2, <2>2, BorneInfBelow
  <2>. QED
      BY <1>4, <2>3 DEF bornes_calculer
<1>. QED
    BY <1>3, <1>4

-----------------------------------------------------------------------------
(* Trading two places turns a schedule into a schedule. *)
LEMMA SwapSchedule ==
    ASSUME NEW s \in Schedule, NEW a \in Position, NEW b \in Position,
           NEW u, u = [s EXCEPT ![a] = s[b], ![b] = s[a]]
    PROVE  /\ u \in Schedule
           /\ u[a] = s[b]
           /\ \A i \in Position : i # a /\ i # b => u[i] = s[i]
<1>1. /\ u \in [Position -> Position] /\ u[b] = s[a]
      /\ u[a] = s[b]
      /\ \A i \in Position : i # a /\ i # b => u[i] = s[i]
    BY ScheduleFacts
<1>2. \A i, j \in Position : u[i] = u[j] => i = j
    BY <1>1, ScheduleFacts
<1>3. ASSUME NEW v \in Position PROVE \E i \in Position : u[i] = v
  <2>1. PICK i \in Position : s[i] = v
      BY ScheduleFacts
  <2>. QED
      BY <2>1, <1>1
<1>4. u \in Schedule
    BY <1>1, <1>2, <1>3 DEF Schedule
<1>. QED
    BY <1>1, <1>4

(* The device's quicksort, for any keys.                                   *)

Key == [group : {1, 2}, key : Nat]
Keys == [Position -> Key]

(* estInf_g is a strict weak order. *)
LEMMA KeyOrder ==
    ASSUME NEW a \in Key, NEW b \in Key, NEW c \in Key
    PROVE  /\ ~estInf_g(a, a)
           /\ estInf_g(a, b) => ~estInf_g(b, a)
           /\ ~estInf_g(a, b) /\ ~estInf_g(b, c) => ~estInf_g(a, c)
<1>1. /\ a.group \in {1, 2} /\ b.group \in {1, 2} /\ c.group \in {1, 2}
      /\ a.key \in Nat /\ b.key \in Nat /\ c.key \in Nat
    BY DEF Key
<1>. QED
    BY <1>1 DEF estInf_g

LEMMA GreatestOf ==
    ASSUME NEW n \in Nat, NEW T, T \subseteq 0 .. n, T # {}
    PROVE  Max(T) \in T /\ \A y \in T : y <= Max(T)
<1>. DEFINE U == {n - x : x \in T}
<1>1. \A x \in T : x \in 0 .. n /\ n - x \in Nat
    OBVIOUS
<1>2. U \subseteq Nat /\ U # {}
    BY <1>1
<1>3. PICK u \in U : \A v \in U : u <= v
    BY <1>2, LeastNumber
<1>4. PICK x \in T : u = n - x
    OBVIOUS
<1>5. \A y \in T : x >= y
    BY <1>1, <1>3, <1>4
<1>6. Max(T) \in T /\ \A y \in T : Max(T) >= y
    BY <1>5 DEF Max
<1>. QED
    BY <1>1, <1>6

(* u has the jobs of o, moved among the places from deb to fin only. *)
Rearranged(o, u, deb, fin) ==
    /\ u \in Schedule
    /\ \A i \in Position : i < deb \/ fin < i => u[i] = o[i]
    /\ \A i \in deb .. fin : \E l \in deb .. fin : u[i] = o[l]

AtMost(keys, o, i, pivot) == ~estInf_g(pivot, keys[o[i]])
AtLeast(keys, o, i, pivot) == ~estInf_g(keys[o[i]], pivot)

(* Where the two indices of partionner_g stop. *)
Down(keys, deb, pivot, x) == Max({k \in deb .. x.f - 1 : ~estSup_g(keys[x.ordo[k]], pivot)})
Up(keys, fin, pivot, x) == Min({k \in x.d + 1 .. fin : ~estInf_g(keys[x.ordo[k]], pivot)})
Trade(keys, deb, fin, pivot, x) ==
    LET d == Up(keys, fin, pivot, x)
        f == Down(keys, deb, pivot, x)
    IN  [ordo |-> [x.ordo EXCEPT ![d] = x.ordo[f], ![f] = x.ordo[d]], d |-> d, f |-> f]

(* One scan after the other: what is behind the indices is on its side of  *)
(* the pivot, and each has something ahead to stop at.                     *)
Scans(keys, ordo, deb, fin, x) ==
    LET pivot == keys[ordo[deb]]
    IN  /\ Rearranged(ordo, x.ordo, deb, fin)
        /\ x.d \in Int /\ x.f \in Int
        /\ \/ x.d = deb - 1 /\ x.f = fin + 1 /\ x.ordo = ordo
           \/ deb <= x.d /\ x.d < x.f /\ x.f <= fin
        /\ \A i \in deb .. x.d : AtMost(keys, x.ordo, i, pivot)
        /\ \A i \in x.f .. fin : AtLeast(keys, x.ordo, i, pivot)

Span(deb, fin) == deb \in Position /\ fin \in Position /\ deb < fin

LEMMA ScanStops ==
    ASSUME NEW keys \in Keys, NEW ordo \in Schedule, NEW deb, NEW fin, Span(deb, fin),
           NEW x, Scans(keys, ordo, deb, fin, x)
    PROVE  LET pivot == keys[ordo[deb]]
               d == Up(keys, fin, pivot, x)
               f == Down(keys, deb, pivot, x)
           IN  /\ d \in x.d + 1 .. fin /\ deb <= d /\ AtLeast(keys, x.ordo, d, pivot)
               /\ \A i \in deb .. d - 1 : AtMost(keys, x.ordo, i, pivot)
               /\ f \in deb .. x.f - 1 /\ f <= fin /\ AtMost(keys, x.ordo, f, pivot)
               /\ \A i \in f + 1 .. fin : AtLeast(keys, x.ordo, i, pivot)
               /\ f <= fin - 1 \/ d < f
<1>. DEFINE pivot == keys[ordo[deb]]
            a == x.d
            b == x.f
            Low(i) == AtMost(keys, x.ordo, i, pivot)
            High(i) == AtLeast(keys, x.ordo, i, pivot)
            A == {k \in a + 1 .. fin : High(k)}
            B == {k \in deb .. b - 1 : Low(k)}
            d == Up(keys, fin, pivot, x)
            f == Down(keys, deb, pivot, x)
<1>1. /\ deb \in Nat /\ fin \in Nat /\ deb < fin /\ Size \in Nat /\ fin < Size
      /\ deb \in Position /\ Position = 0 .. Size - 1
    BY SizeFacts DEF Span
<1>2. /\ x.ordo \in [Position -> Position] /\ ordo \in [Position -> Position]
      /\ a \in Int /\ b \in Int
    BY ScheduleFacts DEF Scans, Rearranged
<1>3. /\ \A i \in Position : keys[x.ordo[i]] \in Key
      /\ pivot \in Key
    BY <1>1, <1>2 DEF Keys
<1>4. \A i \in Position : Low(i) \/ High(i)
  <2>. SUFFICES ASSUME NEW i \in Position PROVE Low(i) \/ High(i)
      OBVIOUS
  <2>1. keys[x.ordo[i]] \in Key /\ pivot \in Key
      BY <1>3
  <2>. HIDE DEF pivot
  <2>. QED
      BY <2>1, KeyOrder DEF AtMost, AtLeast
<1>5. /\ \A i \in deb .. a : Low(i)
      /\ \A i \in b .. fin : High(i)
      /\ (a = deb - 1 /\ b = fin + 1 /\ x.ordo = ordo) \/ (deb <= a /\ a < b /\ b <= fin)
    BY DEF Scans
<1>6. x.ordo = ordo => Low(deb) /\ High(deb)
    BY <1>3, KeyOrder DEF AtMost, AtLeast
<1>7. d = Min(A) /\ f = Max(B)
    BY DEF Up, Down, AtMost, AtLeast, estSup_g
<1>. HIDE DEF pivot, a, b, Low, High, d, f
<1>8. A # {} /\ A \subseteq Nat /\ B # {} /\ B \subseteq 0 .. Size
      /\ (a = deb - 1 => deb \in A)
  <2>1. CASE a = deb - 1 /\ b = fin + 1 /\ x.ordo = ordo
    <3>1. deb \in A /\ deb \in B
        BY <1>1, <1>2, <1>6, <2>1
    <3>2. a + 1 .. fin \subseteq Nat /\ deb .. b - 1 \subseteq 0 .. Size
        BY <1>1, <2>1
    <3>. QED
        BY <3>1, <3>2
  <2>2. CASE deb <= a /\ a < b /\ b <= fin
    <3>1. b \in a + 1 .. fin /\ a \in deb .. b - 1 /\ b \in b .. fin /\ a \in deb .. a
        BY <1>1, <1>2, <2>2
    <3>2. b \in A /\ a \in B
        BY <1>5, <3>1
    <3>3. a # deb - 1 /\ a \in Nat /\ b - 1 <= Size
        BY SMTT(30), <1>1, <1>2, <2>2
    <3>4. a + 1 .. fin \subseteq Nat
        BY <1>1, <3>3
    <3>4a. \A i \in deb .. b - 1 : i \in 0 .. Size
        BY <1>1, <1>2, <3>3
    <3>4b. deb .. b - 1 \subseteq 0 .. Size
        BY <3>4a
    <3>. QED
        BY <3>2, <3>3, <3>4, <3>4b
  <2>. QED
      BY <1>5, <2>1, <2>2
<1>10. d \in A /\ \A k \in A : d <= k
  <2>. HIDE DEF A, B
  <2>. QED
      BY <1>7, <1>8, LeastOf
<1>11. f \in B /\ \A k \in B : k <= f
  <2>. HIDE DEF A, B
  <2>. QED
      BY <1>1, <1>7, <1>8, GreatestOf
<1>12. /\ d \in a + 1 .. fin /\ High(d) /\ f \in deb .. b - 1 /\ Low(f)
       /\ d \in Int /\ f \in Int
    BY <1>10, <1>11
<1>13. deb <= d /\ f <= fin /\ deb - 1 <= a /\ b <= fin + 1
    BY <1>1, <1>2, <1>5, <1>12
<1>14. ASSUME NEW i \in deb .. d - 1 PROVE Low(i)
  <2>1. i \in deb .. a \/ i \in a + 1 .. fin
    <3>1. i \in Int /\ deb <= i /\ i <= fin
        BY <1>1, <1>12
    <3>. QED
        BY <1>1, <1>2, <3>1
  <2>2. CASE i \in a + 1 .. fin
    <3>1. ~(d <= i) /\ i \in Position
        BY <1>1, <1>12, <1>13
    <3>2. ~High(i)
        BY <1>10, <2>2, <3>1
    <3>. QED
        BY <1>4, <3>1, <3>2
  <2>. QED
      BY <1>5, <2>1, <2>2
<1>15. ASSUME NEW i \in f + 1 .. fin PROVE High(i)
  <2>1. i \in b .. fin \/ i \in deb .. b - 1
      BY <1>1, <1>2, <1>12
  <2>2. CASE i \in deb .. b - 1
    <3>1. ~(i <= f) /\ i \in Position
        BY <1>1, <1>12, <1>13
    <3>2. ~Low(i)
        BY <1>11, <2>2, <3>1
    <3>. QED
        BY <1>4, <3>1, <3>2
  <2>. QED
      BY <1>5, <2>1, <2>2
<1>16. f <= fin - 1 \/ d < f
  <2>1. CASE a = deb - 1
    <3>1. d <= deb
        BY <1>8, <1>10, <2>1
    <3>. QED
        BY <1>1, <1>12, <1>13, <3>1
  <2>2. CASE deb <= a /\ a < b /\ b <= fin
      BY <1>1, <1>2, <1>12, <2>2
  <2>. QED
      BY <1>5, <2>1, <2>2
<1>. QED
    BY <1>12, <1>13, <1>14, <1>15, <1>16 DEF d, f, pivot, a, b, Low, High

(* A trade brings both jobs to their side. *)
LEMMA TradeScans ==
    ASSUME NEW keys \in Keys, NEW ordo \in Schedule, NEW deb, NEW fin, Span(deb, fin),
           NEW x, Scans(keys, ordo, deb, fin, x),
           Up(keys, fin, keys[ordo[deb]], x) < Down(keys, deb, keys[ordo[deb]], x)
    PROVE  LET y == Trade(keys, deb, fin, keys[ordo[deb]], x)
           IN  /\ Scans(keys, ordo, deb, fin, y)
               /\ y.f - y.d <= x.f - x.d - 1
<1>. DEFINE pivot == keys[ordo[deb]]
            d == Up(keys, fin, pivot, x)
            f == Down(keys, deb, pivot, x)
            o == x.ordo
            u == [o EXCEPT ![d] = o[f], ![f] = o[d]]
            y == Trade(keys, deb, fin, pivot, x)
<1>1. /\ deb \in Nat /\ fin \in Nat /\ deb < fin /\ Size \in Nat /\ fin < Size
      /\ Position = 0 .. Size - 1
    BY SizeFacts DEF Span
<1>2. /\ d \in x.d + 1 .. fin /\ deb <= d /\ AtLeast(keys, o, d, pivot)
      /\ \A i \in deb .. d - 1 : AtMost(keys, o, i, pivot)
      /\ f \in deb .. x.f - 1 /\ f <= fin /\ AtMost(keys, o, f, pivot)
      /\ \A i \in f + 1 .. fin : AtLeast(keys, o, i, pivot)
    BY ScanStops
<1>3. x.d \in Int /\ x.f \in Int /\ o \in Schedule /\ Rearranged(ordo, o, deb, fin)
    BY DEF Scans, Rearranged
<1>4. d < f /\ y = [ordo |-> u, d |-> d, f |-> f]
    BY DEF Trade
<1>5. y.ordo = u /\ y.d = d /\ y.f = f
    BY <1>4
<1>. HIDE DEF d, f, y, pivot
<1>6. d \in Position /\ f \in Position /\ d \in Int /\ f \in Int
    BY <1>1, <1>2, <1>3
<1>7. /\ u \in Schedule /\ u[d] = o[f] /\ u[f] = o[d]
      /\ \A i \in Position : i # d /\ i # f => u[i] = o[i]
  <2>. HIDE DEF o
  <2>1. o \in Schedule
      BY <1>3
  <2>2. u = [o EXCEPT ![d] = o[f], ![f] = o[d]]
      OBVIOUS
  <2>3. u[f] = o[d]
      BY <1>4, <1>6, <2>1, ScheduleFacts
  <2>. HIDE DEF u
  <2>4. u \in Schedule
      BY <1>6, <2>1, <2>2, SwapSchedule
  <2>5. u[d] = o[f] /\ \A i \in Position : i # d /\ i # f => u[i] = o[i]
      BY <1>4, <1>6, <2>1, <2>2, ScheduleFacts
  <2>. QED
      BY <2>3, <2>4, <2>5
<1>. HIDE DEF u
<1>8. Rearranged(ordo, u, deb, fin)
  <2>1. /\ \A i \in Position : i < deb \/ fin < i => o[i] = ordo[i]
        /\ \A i \in deb .. fin : \E l \in deb .. fin : o[i] = ordo[l]
      BY <1>3 DEF Rearranged
  <2>2. \A i \in Position : i < deb \/ fin < i => i # d /\ i # f
      BY <1>1, <1>2, <1>3
  <2>3. d \in deb .. fin /\ f \in deb .. fin /\ deb .. fin \subseteq Position
      BY <1>1, <1>2, <1>3
  <2>4. \A i \in deb .. fin : \E l \in deb .. fin : u[i] = ordo[l]
      BY <1>7, <2>1, <2>3
  <2>. QED
      BY <1>7, <2>1, <2>2, <2>4 DEF Rearranged
<1>9. ASSUME NEW i \in deb .. d PROVE AtMost(keys, u, i, pivot)
  <2>1. CASE i = d
      BY <1>2, <1>7, <2>1 DEF AtMost
  <2>2. CASE i # d
    <3>1. i \in deb .. d - 1 /\ i \in Position /\ i # f
        BY <1>1, <1>2, <1>4, <1>6, <2>2
    <3>2. u[i] = o[i]
        BY <1>7, <2>2, <3>1
    <3>. QED
        BY <1>2, <3>1, <3>2 DEF AtMost
  <2>. QED
      BY <2>1, <2>2
<1>10. ASSUME NEW i \in f .. fin PROVE AtLeast(keys, u, i, pivot)
  <2>1. CASE i = f
      BY <1>2, <1>7, <2>1 DEF AtLeast
  <2>2. CASE i # f
    <3>1. i \in f + 1 .. fin /\ i \in Position /\ i # d
        BY <1>1, <1>2, <1>4, <1>6, <2>2
    <3>2. u[i] = o[i]
        BY <1>7, <2>2, <3>1
    <3>. QED
        BY <1>2, <3>1, <3>2 DEF AtLeast
  <2>. QED
      BY <2>1, <2>2
<1>11. Scans(keys, ordo, deb, fin, y)
  <2>1. \A i \in deb .. y.d : AtMost(keys, y.ordo, i, keys[ordo[deb]])
      BY <1>5, <1>9 DEF pivot
  <2>2. \A i \in y.f .. fin : AtLeast(keys, y.ordo, i, keys[ordo[deb]])
      BY <1>5, <1>10 DEF pivot
  <2>3. deb <= y.d /\ y.d < y.f /\ y.f <= fin /\ y.d \in Int /\ y.f \in Int
      BY <1>2, <1>4, <1>5, <1>6
  <2>. QED
      BY SMTT(30), <1>5, <1>8, <2>1, <2>2, <2>3 DEF Scans
<1>12. y.f - y.d <= x.f - x.d - 1
    BY <1>1, <1>2, <1>3, <1>5, <1>6
<1>. QED
    BY <1>11, <1>12 DEF y, pivot

Met(keys, deb, fin, pivot, x) == ~(Up(keys, fin, pivot, x) < Down(keys, deb, pivot, x))
Round(keys, deb, fin, pivot, x) ==
    IF Up(keys, fin, pivot, x) < Down(keys, deb, pivot, x) THEN Trade(keys, deb, fin, pivot, x)
    ELSE x
ScanStates(keys, ordo, deb, fin) ==
    {x \in [ordo : Schedule, d : Int, f : Int] : Scans(keys, ordo, deb, fin, x)}
RoundStart(ordo, deb, fin) == [ordo |-> ordo, d |-> deb - 1, f |-> fin + 1]

(* A round more or less brings the indices together. *)
LEMMA RoundScans ==
    ASSUME NEW keys \in Keys, NEW ordo \in Schedule, NEW deb, NEW fin, Span(deb, fin),
           NEW x \in ScanStates(keys, ordo, deb, fin)
    PROVE  LET pivot == keys[ordo[deb]]
               y == Round(keys, deb, fin, pivot, x)
           IN  /\ y \in ScanStates(keys, ordo, deb, fin)
               /\ (Met(keys, deb, fin, pivot, x) /\ y = x) \/ y.f - y.d <= x.f - x.d - 1
               /\ x.f - x.d <= 1 => Met(keys, deb, fin, pivot, x)
<1>. DEFINE pivot == keys[ordo[deb]]
            d == Up(keys, fin, pivot, x)
            f == Down(keys, deb, pivot, x)
            y == Round(keys, deb, fin, pivot, x)
<1>1. Scans(keys, ordo, deb, fin, x) /\ x.d \in Int /\ x.f \in Int
    BY DEF ScanStates
<1>2. d \in x.d + 1 .. fin /\ f \in deb .. x.f - 1
    BY <1>1, ScanStops
<1>3. x.f - x.d <= 1 => ~(d < f)
  <2>1. fin \in Int /\ deb \in Int
      BY SizeFacts DEF Span
  <2>. HIDE DEF d, f
  <2>. QED
      BY <1>1, <1>2, <2>1
<1>4. CASE ~(d < f)
    BY <1>3, <1>4 DEF Met, Round
<1>5. CASE d < f
  <2>1. y = Trade(keys, deb, fin, pivot, x)
      BY <1>5 DEF Round
  <2>2. Scans(keys, ordo, deb, fin, y) /\ y.f - y.d <= x.f - x.d - 1
      BY <1>1, <1>5, <2>1, TradeScans
  <2>3. y \in [ordo : Schedule, d : Int, f : Int]
    <3>1. y.ordo \in Schedule /\ y.d \in Int /\ y.f \in Int
        BY <2>2 DEF Scans, Rearranged
    <3>2. y = [ordo |-> y.ordo, d |-> y.d, f |-> y.f]
        BY <2>1 DEF Trade
    <3>. QED
        BY <3>1, <3>2
  <2>. QED
      BY <1>3, <2>2, <2>3 DEF ScanStates, Met
<1>. QED
    BY <1>4, <1>5

RoundsOf(keys, ordo, deb, fin, f) ==
    /\ f \in [0 .. Size -> ScanStates(keys, ordo, deb, fin)]
    /\ f[0] = RoundStart(ordo, deb, fin)
    /\ \A k \in 1 .. Size : f[k] = Round(keys, deb, fin, keys[ordo[deb]], f[k - 1])

LEMMA StartScans ==
    ASSUME NEW keys \in Keys, NEW ordo \in Schedule, NEW deb, NEW fin, Span(deb, fin)
    PROVE  RoundStart(ordo, deb, fin) \in ScanStates(keys, ordo, deb, fin)
<1>. DEFINE x == RoundStart(ordo, deb, fin)
<1>1. deb \in Int /\ fin \in Int
    BY SizeFacts DEF Span
<1>2. x \in [ordo : Schedule, d : Int, f : Int] /\ x.ordo = ordo /\ x.d = deb - 1 /\ x.f = fin + 1
    BY <1>1 DEF RoundStart
<1>3. deb .. deb - 1 = {} /\ fin + 1 .. fin = {}
    BY <1>1
<1>4. Rearranged(ordo, ordo, deb, fin)
    BY DEF Rearranged
<1>. HIDE DEF x
<1>5. /\ \A i \in deb .. x.d : AtMost(keys, x.ordo, i, keys[ordo[deb]])
      /\ \A i \in x.f .. fin : AtLeast(keys, x.ordo, i, keys[ordo[deb]])
    BY <1>2, <1>3
<1>6. Scans(keys, ordo, deb, fin, x)
    BY <1>1, <1>2, <1>4, <1>5 DEF Scans
<1>. QED
    BY <1>2, <1>6 DEF ScanStates, x

LEMMA Partition ==
    ASSUME NEW keys \in Keys, NEW ordo \in Schedule, NEW deb, NEW fin, Span(deb, fin)
    PROVE  \E f : /\ RoundsOf(keys, ordo, deb, fin, f)
                  /\ partionner_g(keys, ordo, deb, fin)
                        = [ordo |-> f[Size].ordo, k |-> Down(keys, deb, keys[ordo[deb]], f[Size])]
<1>. DEFINE n == Size
            pivot == keys[ordo[deb]]
            q == [round \in 1 .. n |-> round]
            T == ScanStates(keys, ordo, deb, fin)
            base == RoundStart(ordo, deb, fin)
            turn(x) == Round(keys, deb, fin, pivot, x)
            step == [i \in 1 .. n |-> [x \in T |-> turn(x)]]
            Def(a) == [s \in SUBSET (1 .. n) |->
                          IF s = {} THEN base ELSE turn(a[s \ {Max(s)}])]
<1>1. n \in Nat /\ base \in T
    BY StartScans, SizeFacts
<1>2. Listed(q, n, 1 .. n)
    BY DEF Listed
<1>3. Turns(step, 1 .. n, T)
    BY RoundScans DEF Turns
<1>4. partionner_g(keys, ordo, deb, fin)
        = LET met == (CHOOSE a : a = Def(a))[1 .. n]
          IN  [ordo |-> met.ordo, k |-> Down(keys, deb, pivot, met)]
  <2>1. DOMAIN [round \in 1 .. Size |-> round] = 1 .. Size
      OBVIOUS
  <2>. QED
      BY <2>1 DEF partionner_g, FoldLeft, MapThenFoldSet, Round, Trade, Up, Down, RoundStart
<1>. HIDE DEF n, T, base, turn, q
<1>5. PICK f : FoldOfPlaces(f, n, q, T, base, step)
  <2>. HIDE DEF step
  <2>. QED
      BY <1>1, <1>2, <1>3, FoldOverPlaces
<1>6. f = Def(f)
  <2>0. /\ f \in [SUBSET (1 .. n) -> T] /\ f[{}] = base
        /\ \A s \in SUBSET (1 .. n) : s # {} => f[s] = step[q[Max(s)]][f[s \ {Max(s)}]]
      BY <1>5 DEF FoldOfPlaces
  <2>1. \A s \in SUBSET (1 .. n) : s # {} => Max(s) \in 1 .. n
      BY <1>1, Greatest
  <2>2. \A s \in SUBSET (1 .. n) : s # {} => q[Max(s)] \in 1 .. n /\ f[s \ {Max(s)}] \in T
      BY <1>2, <2>0, <2>1 DEF Listed
  <2>. QED
      BY <2>0, <2>2
<1>. DEFINE a == CHOOSE a : a = Def(a)
<1>7. a = Def(a)
    BY <1>6
<1>. HIDE DEF a
<1>8. a[{}] = base
    BY <1>7
<1>9. ASSUME NEW k \in 1 .. n, a[1 .. k - 1] \in T
      PROVE  a[1 .. k] = step[q[k]][a[1 .. k - 1]]
  <2>1. /\ 1 .. k \in SUBSET (1 .. n) /\ 1 .. k # {}
        /\ Max(1 .. k) = k /\ (1 .. k) \ {k} = 1 .. k - 1
      BY <1>1, Initial
  <2>2. a[1 .. k] = turn(a[1 .. k - 1])
      BY <1>7, <2>1
  <2>3. q[k] \in 1 .. n
      BY <1>2 DEF Listed
  <2>. QED
      BY <1>9, <2>2, <2>3
<1>10. Unfolds(a, n, q, T, base, step)
    BY <1>8, <1>9 DEF Unfolds
<1>11. PICK g : LeftFold(g, n, q, T, base, step) /\ g[n] = a[1 .. n]
  <2>. HIDE DEF step
  <2>. QED
      BY <1>1, <1>2, <1>3, <1>10, FoldOverPrefixes
<1>12. RoundsOf(keys, ordo, deb, fin, g)
  <2>1. /\ g \in [0 .. n -> T] /\ g[0] = base
        /\ \A k \in 1 .. n : g[k] = step[q[k]][g[k - 1]]
      BY <1>11 DEF LeftFold
  <2>2. \A k \in 1 .. n : k - 1 \in 0 .. n
      BY <1>1
  <2>3. \A k \in 1 .. n : q[k] \in 1 .. n /\ g[k - 1] \in T
      BY <1>2, <2>1, <2>2 DEF Listed
  <2>4. \A k \in 1 .. n : g[k] = turn(g[k - 1])
      BY <2>1, <2>3
  <2>. QED
      BY <2>1, <2>4 DEF RoundsOf, n, T, base, turn
<1>. QED
    BY <1>4, <1>11, <1>12 DEF a, n

(* Nothing behind the cut comes before anything ahead of it. *)
Parted(keys, u, deb, k, fin) ==
    \A i \in deb .. k, l \in k + 1 .. fin : ~estInf_g(keys[u[l]], keys[u[i]])

LEMMA Partitioned ==
    ASSUME NEW keys \in Keys, NEW ordo \in Schedule, NEW deb, NEW fin, Span(deb, fin)
    PROVE  LET part == partionner_g(keys, ordo, deb, fin)
           IN  /\ part.k \in deb .. fin - 1
               /\ Rearranged(ordo, part.ordo, deb, fin)
               /\ Parted(keys, part.ordo, deb, part.k, fin)
<1>. DEFINE part == partionner_g(keys, ordo, deb, fin)
            pivot == keys[ordo[deb]]
            T == ScanStates(keys, ordo, deb, fin)
<1>1. PICK f : /\ RoundsOf(keys, ordo, deb, fin, f)
               /\ part = [ordo |-> f[Size].ordo, k |-> Down(keys, deb, pivot, f[Size])]
    BY Partition
<1>2. /\ f \in [0 .. Size -> T] /\ f[0] = RoundStart(ordo, deb, fin)
      /\ \A k \in 1 .. Size : f[k] = Round(keys, deb, fin, pivot, f[k - 1])
    BY <1>1 DEF RoundsOf
<1>3. Size \in Nat /\ deb \in Position /\ fin \in Position /\ deb \in Nat /\ fin \in Nat
      /\ deb < fin /\ fin < Size
    BY SizeFacts DEF Span
<1>. DEFINE C == {k \in 0 .. Size : \/ Met(keys, deb, fin, pivot, f[k])
                                   \/ f[k].f - f[k].d <= Size + 1 - k}
<1>4. 0 \in C
  <2>1. f[0].f = fin + 1 /\ f[0].d = deb - 1
      BY <1>2 DEF RoundStart
  <2>. QED
      BY <1>3, <2>1
<1>5. ASSUME NEW k \in 1 .. Size, k - 1 \in C PROVE k \in C
  <2>. DEFINE x == f[k - 1]
              y == f[k]
  <2>1. k - 1 \in 0 .. Size /\ k \in 0 .. Size /\ k \in Nat
      BY <1>3
  <2>2. x \in T /\ y = Round(keys, deb, fin, pivot, x)
      BY <1>2, <2>1
  <2>3. /\ y \in T
        /\ (Met(keys, deb, fin, pivot, x) /\ y = x) \/ y.f - y.d <= x.f - x.d - 1
        /\ x.f - x.d <= 1 => Met(keys, deb, fin, pivot, x)
    <3>. HIDE DEF x, y
    <3>. QED
        BY <2>2, RoundScans
  <2>4. x.f \in Int /\ x.d \in Int /\ y.f \in Int /\ y.d \in Int
      BY <2>2, <2>3 DEF ScanStates
  <2>5. Met(keys, deb, fin, pivot, x) \/ x.f - x.d <= Size + 1 - (k - 1)
      BY <1>5
  <2>. HIDE DEF x, y
  <2>6. Met(keys, deb, fin, pivot, y) \/ y.f - y.d <= Size + 1 - k
    <3>1. CASE Met(keys, deb, fin, pivot, x) /\ y = x
        BY <3>1
    <3>2. CASE y.f - y.d <= x.f - x.d - 1
      <4>1. CASE x.f - x.d <= Size + 1 - (k - 1)
          BY <1>3, <2>1, <2>4, <3>2, <4>1
      <4>2. CASE Met(keys, deb, fin, pivot, x)
        <5>1. y = x
            BY <2>2, <4>2 DEF Round, Met
        <5>. QED
            BY <4>2, <5>1
      <4>. QED
          BY <2>5, <4>1, <4>2
    <3>. QED
        BY <2>3, <3>1, <3>2
  <2>. QED
      BY <2>1, <2>6 DEF y
<1>6. Size \in C
  <2>. HIDE DEF C
  <2>1. Size \in 0 .. Size
      BY <1>3
  <2>2. 0 .. Size \subseteq C
      BY <1>3, <1>4, <1>5, UpTo
  <2>. QED
      BY <2>1, <2>2
<1>. DEFINE x == f[Size]
            up == Up(keys, fin, pivot, x)
            down == Down(keys, deb, pivot, x)
<1>7. x \in T /\ (Met(keys, deb, fin, pivot, x) \/ x.f - x.d <= Size + 1 - Size)
    BY <1>2, <1>3, <1>6
<1>8. part.ordo = x.ordo /\ part.k = down
    BY <1>1
<1>. HIDE DEF x, C, part
<1>9. ~(up < down)
  <2>1. x.f - x.d <= 1 => Met(keys, deb, fin, pivot, x)
      BY <1>7, RoundScans
  <2>2. Size + 1 - Size = 1
      BY <1>3
  <2>. QED
      BY <1>7, <2>1, <2>2 DEF Met
<1>10. Scans(keys, ordo, deb, fin, x) /\ x.d \in Int /\ x.f \in Int
    BY <1>7 DEF ScanStates
<1>11. /\ up \in x.d + 1 .. fin /\ deb <= up
       /\ \A i \in deb .. up - 1 : AtMost(keys, x.ordo, i, pivot)
       /\ down \in deb .. x.f - 1 /\ down <= fin /\ AtMost(keys, x.ordo, down, pivot)
       /\ \A i \in down + 1 .. fin : AtLeast(keys, x.ordo, i, pivot)
       /\ down <= fin - 1 \/ up < down
    BY <1>10, ScanStops
<1>. HIDE DEF up, down
<1>12. up \in Int /\ down \in Int /\ down \in deb .. fin - 1 /\ down <= up
    BY <1>3, <1>9, <1>10, <1>11
<1>13. Rearranged(ordo, x.ordo, deb, fin)
    BY <1>10 DEF Scans
<1>14. ASSUME NEW i \in deb .. down, NEW l \in down + 1 .. fin
       PROVE  ~estInf_g(keys[x.ordo[l]], keys[x.ordo[i]])
  <2>1. i \in deb .. up - 1 \/ i = down
      BY <1>3, <1>12
  <2>2. AtMost(keys, x.ordo, i, pivot) /\ AtLeast(keys, x.ordo, l, pivot)
      BY <1>11, <2>1
  <2>3. i \in Position /\ l \in Position
      BY <1>3, <1>12, SizeFacts
  <2>4. keys[x.ordo[i]] \in Key /\ keys[x.ordo[l]] \in Key /\ pivot \in Key
      BY ZenonT(60), <1>3, <1>13, <2>3, ScheduleFacts DEF Rearranged, Keys
  <2>. HIDE DEF pivot
  <2>. QED
      BY <2>2, <2>4, KeyOrder DEF AtMost, AtLeast
<1>. QED
    BY <1>8, <1>12, <1>13, <1>14 DEF Parted, part

-----------------------------------------------------------------------------
(* The calls of quicksort_g.                                               *)
Calls == [ordo : Schedule, deb : Position, fin : Position]
LeftCall(keys, x) ==
    LET part == partionner_g(keys, x.ordo, x.deb, x.fin)
    IN  [ordo |-> part.ordo, deb |-> x.deb, fin |-> part.k]
RightCall(keys, x, left) ==
    [ordo |-> left, deb |-> partionner_g(keys, x.ordo, x.deb, x.fin).k + 1, fin |-> x.fin]
Sorting(keys, f, x) == IF x.fin <= x.deb THEN x.ordo ELSE f[RightCall(keys, x, f[LeftCall(keys, x)])]
Sorts(keys, f) == f = [x \in Calls |-> Sorting(keys, f, x)]

DeviceInOrder(keys, u, deb, fin) ==
    \A i, l \in deb .. fin : i < l => ~estInf_g(keys[u[l]], keys[u[i]])

LEMMA Halves ==
    ASSUME NEW keys \in Keys, NEW x \in Calls, x.deb < x.fin
    PROVE  /\ LeftCall(keys, x) \in Calls
           /\ \A left \in Schedule : RightCall(keys, x, left) \in Calls
           /\ LeftCall(keys, x).deb = x.deb
           /\ LeftCall(keys, x).fin \in x.deb .. x.fin - 1
           /\ \A left : /\ RightCall(keys, x, left).ordo = left
                        /\ RightCall(keys, x, left).deb = LeftCall(keys, x).fin + 1
                        /\ RightCall(keys, x, left).fin = x.fin
           /\ Rearranged(x.ordo, LeftCall(keys, x).ordo, x.deb, x.fin)
           /\ Parted(keys, LeftCall(keys, x).ordo, x.deb, LeftCall(keys, x).fin, x.fin)
<1>. DEFINE o == x.ordo
            deb == x.deb
            fin == x.fin
            part == partionner_g(keys, o, deb, fin)
<1>1. o \in Schedule /\ Span(deb, fin)
    BY DEF Calls, Span
<1>2. /\ part.k \in deb .. fin - 1
      /\ Rearranged(o, part.ordo, deb, fin)
      /\ Parted(keys, part.ordo, deb, part.k, fin)
  <2>. HIDE DEF o, deb, fin
  <2>. QED
      BY <1>1, Partitioned
<1>3. deb \in Position /\ fin \in Position /\ part.ordo \in Schedule
    BY <1>1, <1>2 DEF Rearranged, Span
<1>4. /\ LeftCall(keys, x) = [ordo |-> part.ordo, deb |-> deb, fin |-> part.k]
      /\ \A left : RightCall(keys, x, left) = [ordo |-> left, deb |-> part.k + 1, fin |-> fin]
    BY DEF LeftCall, RightCall
<1>. HIDE DEF part, o, deb, fin
<1>5. part.k \in Position /\ part.k + 1 \in Position
    BY <1>2, <1>3, SizeFacts
<1>. QED
    BY <1>2, <1>3, <1>4, <1>5 DEF Calls, o, deb, fin

LEMMA SortExists ==
    ASSUME NEW keys \in Keys
    PROVE  \E f : Sorts(keys, f) /\ f \in [Calls -> Schedule]
<1>. DEFINE n == Size + 1
            T == [Calls -> Schedule]
            base == [x \in Calls |-> x.ordo]
            turn(f) == [x \in Calls |-> Sorting(keys, f, x)]
            step == [i \in 1 .. n |-> [f \in T |-> turn(f)]]
<1>1. Size \in Nat /\ n \in Nat
    BY SizeFacts
<1>2. base \in T
    BY DEF Calls
<1>3. ASSUME NEW f \in T PROVE turn(f) \in T
  <2>. SUFFICES ASSUME NEW x \in Calls PROVE Sorting(keys, f, x) \in Schedule
      OBVIOUS
  <2>1. x.deb \in Int /\ x.fin \in Int /\ x.ordo \in Schedule
      BY SizeFacts DEF Calls
  <2>2. CASE x.fin <= x.deb
      BY <2>1, <2>2 DEF Sorting
  <2>3. CASE x.deb < x.fin
    <3>1. f[LeftCall(keys, x)] \in Schedule
        BY <2>3, Halves
    <3>2. f[RightCall(keys, x, f[LeftCall(keys, x)])] \in Schedule
        BY <2>3, <3>1, Halves
    <3>. QED
        BY <2>1, <2>3, <3>2 DEF Sorting
  <2>. QED
      BY <2>1, <2>2, <2>3
<1>. HIDE DEF turn
<1>4. Turns(step, 1 .. n, T)
    BY <1>3 DEF Turns
<1>5. PICK g : Recursive(g, n, T, base, step)
  <2>. HIDE DEF n, T, base, step
  <2>. QED
      BY <1>1, <1>2, <1>4, Recursion
<1>6. /\ g \in [0 .. n -> T] /\ g[0] = base
      /\ \A i \in 1 .. n : g[i] = turn(g[i - 1])
  <2>1. /\ g \in [0 .. n -> T] /\ g[0] = base
        /\ \A i \in 1 .. n : g[i] = step[i][g[i - 1]]
      BY <1>5 DEF Recursive
  <2>2. \A i \in 1 .. n : i - 1 \in 0 .. n /\ i \in 1 .. n
      BY <1>1
  <2>. HIDE DEF n, T
  <2>3. \A i \in 1 .. n : g[i - 1] \in T
      BY <2>1, <2>2
  <2>. QED
      BY <2>1, <2>3
<1>. DEFINE S == {i \in 0 .. Size : \A x \in Calls : x.fin - x.deb <= i => g[i + 1][x] = g[i][x]}
<1>7. \A x \in Calls : x.deb \in Int /\ x.fin \in Int /\ x.fin - x.deb <= Size
    BY SizeFacts DEF Calls
<1>8. \A i \in 0 .. Size, x \in Calls : g[i + 1][x] = Sorting(keys, g[i], x)
  <2>. SUFFICES ASSUME NEW i \in 0 .. Size, NEW x \in Calls
                PROVE  g[i + 1][x] = Sorting(keys, g[i], x)
      OBVIOUS
  <2>1. i + 1 \in 1 .. n /\ (i + 1) - 1 = i
      BY <1>1
  <2>2. g[i + 1] = turn(g[i])
      BY <1>6, <2>1
  <2>. QED
      BY <2>2 DEF turn
<1>. HIDE DEF n, T, base
<1>9. 0 \in S
  <2>. SUFFICES ASSUME NEW x \in Calls, x.fin - x.deb <= 0 PROVE g[0 + 1][x] = g[0][x]
      BY <1>1
  <2>1. x.fin <= x.deb /\ 0 \in 0 .. Size
      BY <1>1, <1>7
  <2>2. g[0][x] = x.ordo
      BY <1>6 DEF base
  <2>. QED
      BY <1>8, <2>1, <2>2 DEF Sorting
<1>10. ASSUME NEW i \in 1 .. Size, i - 1 \in S PROVE i \in S
  <2>. SUFFICES ASSUME NEW x \in Calls, x.fin - x.deb <= i PROVE g[i + 1][x] = g[i][x]
      BY <1>1
  <2>. DEFINE j == i - 1
  <2>1. i \in 0 .. Size /\ j \in 0 .. Size /\ j + 1 = i /\ i \in Int
      BY <1>1
  <2>2. \A y \in Calls : y.fin - y.deb <= j => g[i][y] = g[j][y]
      BY <1>10, <2>1
  <2>3. g[i + 1][x] = Sorting(keys, g[i], x) /\ g[i][x] = Sorting(keys, g[j], x)
      BY <1>8, <2>1
  <2>4. g[i] \in [Calls -> Schedule] /\ g[j] \in [Calls -> Schedule]
    <3>1. i \in 0 .. n /\ j \in 0 .. n
        BY <1>1 DEF n
    <3>. QED
        BY <1>6, <3>1 DEF T
  <2>. HIDE DEF j, S
  <2>5. CASE x.fin <= x.deb
      BY <2>3, <2>5 DEF Sorting
  <2>6. CASE x.deb < x.fin
    <3>. DEFINE l == LeftCall(keys, x)
                r == RightCall(keys, x, g[i][l])
    <3>1. l \in Calls /\ l.deb = x.deb /\ l.fin \in x.deb .. x.fin - 1
        BY <2>6, Halves
    <3>2. g[i][l] \in Schedule
        BY <2>4, <3>1
    <3>. HIDE DEF l
    <3>3. r \in Calls /\ r.deb = l.fin + 1 /\ r.fin = x.fin
        BY <2>6, <3>2, Halves DEF l
    <3>. HIDE DEF r
    <3>4. l.fin - l.deb <= j /\ r.fin - r.deb <= j
        BY <1>7, <2>1, <3>1, <3>3 DEF j
    <3>5. g[i][l] = g[j][l] /\ g[i][r] = g[j][r]
        BY <2>2, <3>1, <3>3, <3>4
    <3>6. g[i + 1][x] = g[i][r]
        BY <1>7, <2>3, <2>6 DEF Sorting, l, r
    <3>7. g[i][x] = g[j][RightCall(keys, x, g[j][l])]
        BY <1>7, <2>3, <2>6 DEF Sorting, l
    <3>8. g[i][x] = g[j][r]
        BY <3>5, <3>7 DEF r
    <3>. QED
        BY <3>5, <3>6, <3>8
  <2>. QED
      BY <1>7, <2>5, <2>6
<1>11. Size \in S
  <2>. HIDE DEF S
  <2>1. 0 .. Size \subseteq S /\ Size \in 0 .. Size
      BY <1>1, <1>9, <1>10, UpTo
  <2>. QED
      BY <2>1
<1>12. g[Size] \in [Calls -> Schedule]
  <2>1. Size \in 0 .. n
      BY <1>1 DEF n
  <2>. QED
      BY <1>6, <2>1 DEF T
<1>13. \A x \in Calls : g[Size][x] = Sorting(keys, g[Size], x)
    BY <1>7, <1>8, <1>11
<1>14. Sorts(keys, g[Size])
    BY <1>12, <1>13 DEF Sorts
<1>. QED
    BY <1>12, <1>14

CallSorted(keys, f, x) ==
    Rearranged(x.ordo, f[x], x.deb, x.fin) /\ DeviceInOrder(keys, f[x], x.deb, x.fin)

(* The two halves sorted make the whole sorted. *)
LEMMA HalvesSorted ==
    ASSUME NEW keys \in Keys, NEW x \in Calls, x.deb < x.fin, NEW f, Sorts(keys, f),
           CallSorted(keys, f, LeftCall(keys, x)),
           CallSorted(keys, f, RightCall(keys, x, f[LeftCall(keys, x)]))
    PROVE  CallSorted(keys, f, x)
<1>. DEFINE l == LeftCall(keys, x)
            o == x.ordo
            u == l.ordo
            v == f[l]
            r == RightCall(keys, x, v)
            w == f[x]
            deb == x.deb
            fin == x.fin
            k == l.fin
            rev(a, b) == estInf_g(keys[a], keys[b])
<1>1. /\ l.deb = deb /\ k \in deb .. fin - 1
      /\ r.ordo = v /\ r.deb = k + 1 /\ r.fin = fin
      /\ Rearranged(o, u, deb, fin)
      /\ Parted(keys, u, deb, k, fin)
    BY Halves
<1>2. deb \in Position /\ fin \in Position
    BY DEF Calls
<1>3. w = f[r]
  <2>1. w = Sorting(keys, f, x)
      BY DEF Sorts
  <2>2. ~(fin <= deb)
      BY <1>2, SizeFacts
  <2>. QED
      BY <2>1, <2>2 DEF Sorting
<1>4. /\ Rearranged(u, v, deb, k) /\ DeviceInOrder(keys, v, deb, k)
      /\ Rearranged(v, w, k + 1, fin) /\ DeviceInOrder(keys, w, k + 1, fin)
    BY <1>1, <1>3 DEF CallSorted
<1>. HIDE DEF l, o, u, v, r, w, deb, fin, k
<1>5. Size \in Nat /\ Position = 0 .. Size - 1 /\ deb \in Nat /\ fin \in Nat /\ k \in Nat
      /\ deb <= k /\ k < fin /\ fin < Size
    BY <1>1, <1>2, SizeFacts
<1>6. /\ w \in Schedule
      /\ \A i \in Position : i < deb \/ fin < i => u[i] = o[i]
      /\ \A i \in deb .. fin : \E j \in deb .. fin : u[i] = o[j]
      /\ \A i \in Position : i < deb \/ k < i => v[i] = u[i]
      /\ \A i \in deb .. k : \E j \in deb .. k : v[i] = u[j]
      /\ \A i \in Position : i < k + 1 \/ fin < i => w[i] = v[i]
      /\ \A i \in k + 1 .. fin : \E j \in k + 1 .. fin : w[i] = v[j]
    BY <1>1, <1>4 DEF Rearranged
<1>7. /\ \A i \in deb .. k : i \in Position /\ i < k + 1 /\ i \in deb .. fin
      /\ \A i \in k + 1 .. fin : i \in Position /\ k < i /\ i \in deb .. fin
      /\ \A i \in deb .. fin : i \in deb .. k \/ i \in k + 1 .. fin
    BY <1>5
<1>8. \A i \in deb .. k : \E j \in deb .. k : w[i] = u[j]
    BY <1>6, <1>7
<1>9. \A i \in k + 1 .. fin : \E j \in k + 1 .. fin : w[i] = u[j]
    BY <1>6, <1>7
<1>10. \A i \in deb .. fin : \E j \in deb .. fin : w[i] = o[j]
    BY <1>6, <1>7, <1>8, <1>9
<1>11. \A i \in Position : i < deb \/ fin < i => w[i] = o[i]
  <2>. SUFFICES ASSUME NEW i \in Position, i < deb \/ fin < i PROVE w[i] = o[i]
      OBVIOUS
  <2>1. (i < deb \/ k < i) /\ (i < k + 1 \/ fin < i)
      BY <1>5
  <2>. QED
      BY <1>6, <2>1
<1>12. Rearranged(o, w, deb, fin)
    BY <1>6, <1>10, <1>11 DEF Rearranged
<1>13. ASSUME NEW i \in deb .. fin, NEW j \in deb .. fin, i < j
       PROVE  ~estInf_g(keys[w[j]], keys[w[i]])
  <2>1. CASE i \in deb .. k /\ j \in deb .. k
    <3>1. w[i] = v[i] /\ w[j] = v[j]
        BY <1>6, <1>7, <2>1
    <3>2. ~estInf_g(keys[v[j]], keys[v[i]])
        BY <1>4, <1>13, <2>1 DEF DeviceInOrder
    <3>. QED
        BY <3>1, <3>2
  <2>2. CASE i \in k + 1 .. fin /\ j \in k + 1 .. fin
      BY <1>4, <1>13, <2>2 DEF DeviceInOrder
  <2>3. CASE i \in deb .. k /\ j \in k + 1 .. fin
    <3>1. PICK a \in deb .. k : w[i] = u[a]
        BY <1>8, <2>3
    <3>2. PICK b \in k + 1 .. fin : w[j] = u[b]
        BY <1>9, <2>3
    <3>3. ~estInf_g(keys[u[b]], keys[u[a]])
        BY <1>1 DEF Parted
    <3>. QED
        BY <3>1, <3>2, <3>3
  <2>4. ~(i \in k + 1 .. fin /\ j \in deb .. k)
      BY <1>5, <1>13
  <2>. QED
      BY <1>7, <2>1, <2>2, <2>3, <2>4
<1>14. DeviceInOrder(keys, w, deb, fin)
    BY <1>13 DEF DeviceInOrder
<1>. QED
    BY <1>12, <1>14 DEF CallSorted, o, w, deb, fin

(* Every call sorts its part. *)
LEMMA CallsSort ==
    ASSUME NEW keys \in Keys, NEW f, Sorts(keys, f)
    PROVE  \A x \in Calls : CallSorted(keys, f, x)
<1>. DEFINE S == {i \in 0 .. Size : \A x \in Calls : x.fin - x.deb <= i => CallSorted(keys, f, x)}
<1>1. Size \in Nat
    BY SizeFacts
<1>2. \A x \in Calls : x.deb \in Int /\ x.fin \in Int /\ x.fin - x.deb <= Size /\ x.ordo \in Schedule
    BY SizeFacts DEF Calls
<1>3. ASSUME NEW x \in Calls, x.fin <= x.deb PROVE CallSorted(keys, f, x)
  <2>1. f[x] = x.ordo
      BY <1>3 DEF Sorts, Sorting
  <2>2. Rearranged(x.ordo, x.ordo, x.deb, x.fin)
      BY <1>2 DEF Rearranged
  <2>3. \A i, l \in x.deb .. x.fin : ~(i < l)
      BY <1>2, <1>3
  <2>. QED
      BY <2>1, <2>2, <2>3 DEF CallSorted, DeviceInOrder
<1>4. 0 \in S
  <2>1. \A x \in Calls : x.fin - x.deb <= 0 => x.fin <= x.deb
      BY <1>2
  <2>. QED
      BY <1>1, <1>3, <2>1
<1>5. ASSUME NEW i \in 1 .. Size, i - 1 \in S PROVE i \in S
  <2>. SUFFICES ASSUME NEW x \in Calls, x.fin - x.deb <= i, x.deb < x.fin PROVE CallSorted(keys, f, x)
      BY <1>1, <1>2, <1>3
  <2>. DEFINE l == LeftCall(keys, x)
              r == RightCall(keys, x, f[l])
  <2>1. l \in Calls /\ l.deb = x.deb /\ l.fin \in x.deb .. x.fin - 1
      BY Halves
  <2>2. l.fin - l.deb <= i - 1
      BY <1>2, <2>1
  <2>3. CallSorted(keys, f, l)
      BY <1>5, <2>1, <2>2
  <2>4. f[l] \in Schedule
      BY <2>3 DEF CallSorted, Rearranged
  <2>. HIDE DEF l
  <2>5. r \in Calls /\ r.deb = l.fin + 1 /\ r.fin = x.fin
      BY <2>4, Halves DEF l
  <2>. HIDE DEF r
  <2>6. r.fin - r.deb <= i - 1
      BY <1>2, <2>1, <2>5
  <2>7. CallSorted(keys, f, r)
      BY <1>5, <2>5, <2>6
  <2>. QED
      BY <2>3, <2>7, HalvesSorted DEF l, r
<1>6. Size \in S
  <2>. HIDE DEF S
  <2>1. 0 .. Size \subseteq S /\ Size \in 0 .. Size
      BY <1>1, <1>4, <1>5, UpTo
  <2>. QED
      BY <2>1
<1>. QED
    BY <1>2, <1>6

(* quicksort_g returns the jobs in order. *)
LEMMA QuickSorted ==
    ASSUME NEW keys \in Keys
    PROVE  /\ quicksort_g(keys) \in Schedule
           /\ DeviceInOrder(keys, quicksort_g(keys), 0, Size - 1)
<1>. DEFINE x == [ordo |-> [i \in Position |-> i], deb |-> 0, fin |-> Size - 1]
            f == CHOOSE f : Sorts(keys, f)
<1>1. x \in Calls
  <2>1. [i \in Position |-> i] \in Schedule
      BY DEF Schedule
  <2>2. 0 \in Position /\ Size - 1 \in Position
      BY SizeFacts
  <2>. QED
      BY <2>1, <2>2 DEF Calls
<1>2. quicksort_g(keys) = f[x]
    BY DEF quicksort_g, Sorts, Sorting, LeftCall, RightCall, Calls
<1>3. Sorts(keys, f)
    BY SortExists
<1>4. x.deb = 0 /\ x.fin = Size - 1
    OBVIOUS
<1>. HIDE DEF f, x
<1>5. CallSorted(keys, f, x)
    BY <1>1, <1>3, CallsSort
<1>. QED
    BY <1>2, <1>4, <1>5 DEF CallSorted, Rearranged

(* Johnson_g sorts by Johnson's rule. *)
LEMMA JohnsonOnDevice ==
    ASSUME NEW tempsJob \in Times, NEW ma \in Pairs
    PROVE  LET ordo == quicksort_g(pluspetit_g(tempsJob, ma))
           IN  [i \in 1 .. Size |-> ordo[i - 1]] \in Johnson(tempsJob, ma)
<1>. DEFINE keys == pluspetit_g(tempsJob, ma)
            ordo == quicksort_g(keys)
            short(j) == Shorter(tempsJob, ma, j)
            group(j) == IF short(j) THEN 1 ELSE 2
<1>1. ma[1] \in Machine /\ ma[2] \in Machine
    BY PairFacts
<1>2. \A j \in Position : /\ tempsJob[ma[1]][j] \in Nat /\ tempsJob[ma[2]][j] \in Nat
                          /\ tempsLag(tempsJob, ma, j) \in Nat
  <2>1. ma[1] + 1 .. ma[2] - 1 \in SUBSET Machine
      BY <1>1, MachineFacts
  <2>. QED
      BY <1>1, <2>1, BetweenFacts DEF Times, tempsLag
<1>3. \A j \in Position :
          keys[j] = [group |-> group(j), key |-> pluspetit(tempsJob, ma, j)]
  <2>. SUFFICES ASSUME NEW j \in Position
                PROVE  keys[j] = [group |-> group(j), key |-> pluspetit(tempsJob, ma, j)]
      OBVIOUS
  <2>1. CASE short(j)
    <3>1. keys[j] = [group |-> 1, key |-> tempsJob[ma[1]][j] + tempsLag(tempsJob, ma, j)]
        BY <2>1 DEF pluspetit_g, Shorter
    <3>2. pluspetit(tempsJob, ma, j) = tempsJob[ma[1]][j] + tempsLag(tempsJob, ma, j)
        BY <1>2, <2>1 DEF pluspetit
    <3>. QED
        BY <2>1, <3>1, <3>2
  <2>2. CASE ~short(j)
    <3>1. keys[j] = [group |-> 2, key |-> tempsJob[ma[2]][j] + tempsLag(tempsJob, ma, j)]
        BY <2>2 DEF pluspetit_g, Shorter
    <3>2. pluspetit(tempsJob, ma, j) = tempsJob[ma[2]][j] + tempsLag(tempsJob, ma, j)
        BY <1>2, <2>2 DEF pluspetit
    <3>. QED
        BY <2>2, <3>1, <3>2
  <2>. QED
      BY <2>1, <2>2
<1>4. \A j \in Position : pluspetit(tempsJob, ma, j) \in Nat
    BY <1>2 DEF pluspetit
<1>5. keys \in Keys
  <2>1. keys = [j \in Position |-> keys[j]]
      BY DEF pluspetit_g
  <2>1a. \A j : group(j) \in {1, 2}
      OBVIOUS
  <2>. HIDE DEF keys, group
  <2>2. ASSUME NEW j \in Position PROVE keys[j] \in Key
    <3>. DEFINE x == pluspetit(tempsJob, ma, j)
                y == group(j)
    <3>1. keys[j] = [group |-> y, key |-> x] /\ x \in Nat /\ y \in {1, 2}
        BY <1>3, <1>4, <2>1a
    <3>. HIDE DEF x, y
    <3>. QED
        BY <3>1 DEF Key
  <2>. QED
      BY <2>1, <2>2 DEF Keys
<1>. HIDE DEF keys
<1>6. ordo \in Schedule /\ DeviceInOrder(keys, ordo, 0, Size - 1)
    BY <1>5, QuickSorted
<1>7. \A a, b \in Position : estInf_g(keys[a], keys[b]) <=> estInf(tempsJob, ma, a, b)
  <2>. SUFFICES ASSUME NEW a \in Position, NEW b \in Position
                PROVE  estInf_g(keys[a], keys[b]) <=> estInf(tempsJob, ma, a, b)
      OBVIOUS
  <2>. DEFINE x == pluspetit(tempsJob, ma, a)
              y == pluspetit(tempsJob, ma, b)
  <2>1. /\ keys[a].group = group(a) /\ keys[a].key = x
        /\ keys[b].group = group(b) /\ keys[b].key = y
    <3>1. keys[a] = [group |-> group(a), key |-> x] /\ keys[b] = [group |-> group(b), key |-> y]
        BY <1>3
    <3>. HIDE DEF group, x, y
    <3>. QED
        BY <3>1
  <2>2. x \in Nat /\ y \in Nat
      BY <1>4
  <2>3. short(a) \in BOOLEAN /\ short(b) \in BOOLEAN
      BY DEF Shorter
  <2>4. estInf(tempsJob, ma, a, b) <=> IF short(a) # short(b) THEN short(a)
                                       ELSE IF short(a) THEN x < y ELSE x > y
      BY DEF estInf
  <2>. HIDE DEF short, x, y
  <2>. QED
      BY <2>1, <2>2, <2>3, <2>4 DEF estInf_g
<1>. HIDE DEF ordo, short, group
<1>. DEFINE tab == [i \in 1 .. Size |-> ordo[i - 1]]
<1>8. tab \in Orders
    BY <1>6 DEF Orders
<1>9. ASSUME NEW i \in 1 .. Size, NEW j \in 1 .. Size, i < j
      PROVE  ~estInf(tempsJob, ma, tab[j], tab[i])
  <2>1. i - 1 \in Position /\ j - 1 \in Position /\ i - 1 < j - 1
        /\ i - 1 \in 0 .. Size - 1 /\ j - 1 \in 0 .. Size - 1
      BY <1>9, SizeFacts
  <2>2. ordo[i - 1] \in Position /\ ordo[j - 1] \in Position
      BY <1>6, <2>1, ScheduleFacts
  <2>3. ~estInf_g(keys[ordo[j - 1]], keys[ordo[i - 1]])
      BY <1>6, <2>1 DEF DeviceInOrder
  <2>. QED
      BY <1>7, <2>2, <2>3
<1>10. tab \in Johnson(tempsJob, ma)
  <2>. HIDE DEF tab
  <2>. QED
      BY <1>8, <1>9 DEF Johnson
<1>. QED
    BY <1>10 DEF tab, ordo, keys

(* The least times, summed the other way. *)
LEMMA TimesOnDevice ==
    ASSUME NEW tempsJob \in Times, NEW j \in Position, NEW m \in Machine
    PROVE  /\ tempsArriver_g(tempsJob, j)[m] = Between(tempsJob, j, 0 .. m - 1)
           /\ tempsDepart_g(tempsJob, j)[m] = Between(tempsJob, j, m + 1 .. L)
<1>. DEFINE T(k) == tempsJob[k][j]
            Arr(a) == [k \in Machine |-> IF k = 0 THEN 0 ELSE a[k - 1] + T(k - 1)]
            Dep(a) == [k \in Machine |-> IF k = nbMachines - 1 THEN 0 ELSE a[k + 1] + T(k + 1)]
            b == [k \in Machine |-> Between(tempsJob, j, 0 .. k - 1)]
            e == [k \in Machine |-> Between(tempsJob, j, k + 1 .. L)]
            arr == CHOOSE a : a = Arr(a)
            dep == CHOOSE a : a = Dep(a)
<1>1. L \in Nat /\ Machine = 0 .. L /\ L = nbMachines - 1 /\ m \in 0 .. L
    BY MachineFacts
<1>2. \A k \in Machine : b[k] = IF k = 0 THEN 0 ELSE b[k - 1] + T(k - 1)
  <2>. SUFFICES ASSUME NEW k \in Machine PROVE b[k] = IF k = 0 THEN 0 ELSE b[k - 1] + T(k - 1)
      OBVIOUS
  <2>1. CASE k = 0
    <3>1. 0 .. k - 1 = {}
        BY <2>1
    <3>. QED
        BY <2>1, <3>1, BetweenFacts
  <2>2. CASE k # 0
    <3>1. 0 \in Machine /\ k - 1 \in Machine /\ 0 <= k - 1 /\ 0 .. k - 1 = 0 .. (k - 1)
        BY <1>1, <2>2
    <3>2. Between(tempsJob, j, 0 .. k - 1) = Between(tempsJob, j, 0 .. (k - 1) - 1) + T(k - 1)
        BY <3>1, BetweenSteps
    <3>. QED
        BY <2>2, <3>1, <3>2
  <2>. QED
      BY <2>1, <2>2
<1>3. \A k \in Machine : e[k] = IF k = nbMachines - 1 THEN 0 ELSE e[k + 1] + T(k + 1)
  <2>. SUFFICES ASSUME NEW k \in Machine
                PROVE  e[k] = IF k = nbMachines - 1 THEN 0 ELSE e[k + 1] + T(k + 1)
      OBVIOUS
  <2>1. CASE k = nbMachines - 1
    <3>1. k + 1 .. L = {}
        BY <1>1, <2>1
    <3>. QED
        BY <2>1, <3>1, BetweenFacts
  <2>2. CASE k # nbMachines - 1
    <3>1. /\ k + 1 \in Machine /\ (k + 1) + 1 .. L \in SUBSET Machine
          /\ k + 1 \notin (k + 1) + 1 .. L
          /\ k + 1 .. L = ((k + 1) + 1 .. L) \cup {k + 1}
        BY <1>1, <2>2
    <3>2. Between(tempsJob, j, ((k + 1) + 1 .. L) \cup {k + 1})
             = Between(tempsJob, j, (k + 1) + 1 .. L) + T(k + 1)
      <4>. DEFINE M == (k + 1) + 1 .. L
                  n == k + 1
      <4>1. M \in SUBSET Machine /\ n \in Machine /\ n \notin M
          BY <3>1
      <4>. HIDE DEF M, n
      <4>2. Between(tempsJob, j, M \cup {n}) = Between(tempsJob, j, M) + T(n)
          BY <4>1, BetweenFacts
      <4>. QED
          BY <4>2 DEF M, n
    <3>. QED
        BY <2>2, <3>1, <3>2
  <2>. QED
      BY <2>1, <2>2
<1>4. arr = Arr(arr) /\ dep = Dep(dep)
  <2>1. b = Arr(b)
    <3>1. \A k \in Machine : b[k] = Arr(b)[k]
        BY <1>2
    <3>. QED
        BY <3>1
  <2>2. e = Dep(e)
    <3>1. \A k \in Machine : e[k] = Dep(e)[k]
        BY <1>3
    <3>. QED
        BY <3>1
  <2>. HIDE DEF b, e
  <2>. QED
      BY <2>1, <2>2
<1>5. tempsArriver_g(tempsJob, j) = arr /\ tempsDepart_g(tempsJob, j) = dep
    BY DEF tempsArriver_g, tempsDepart_g
<1>. HIDE DEF arr, dep
<1>6. /\ \A k \in Machine : arr[k] = IF k = 0 THEN 0 ELSE arr[k - 1] + T(k - 1)
      /\ \A k \in Machine : dep[k] = IF k = nbMachines - 1 THEN 0 ELSE dep[k + 1] + T(k + 1)
    BY <1>4
<1>. DEFINE A == {k \in 0 .. L : arr[k] = b[k]}
            D == {k \in 0 .. L : dep[L - k] = e[L - k]}
<1>. HIDE DEF b, e, T
<1>7. 0 .. L \subseteq A
  <2>1. 0 \in A
      BY <1>1, <1>2, <1>6
  <2>2. ASSUME NEW k \in 1 .. L, k - 1 \in A PROVE k \in A
    <3>1. k \in Machine /\ k # 0
        BY <1>1
    <3>. QED
        BY <1>1, <1>2, <1>6, <2>2, <3>1
  <2>. HIDE DEF A
  <2>. QED
      BY <1>1, <2>1, <2>2, UpTo
<1>8. 0 .. L \subseteq D
  <2>1. 0 \in D
    <3>1. L - 0 = nbMachines - 1 /\ L - 0 \in Machine
        BY <1>1
    <3>. QED
        BY <1>1, <1>3, <1>6, <3>1
  <2>2. ASSUME NEW k \in 1 .. L, k - 1 \in D PROVE k \in D
    <3>1. L - k \in Machine /\ L - k # nbMachines - 1 /\ (L - k) + 1 = L - (k - 1)
        BY <1>1
    <3>2. dep[L - (k - 1)] = e[L - (k - 1)]
        BY <2>2
    <3>3. dep[L - k] = dep[(L - k) + 1] + T((L - k) + 1) /\ e[L - k] = e[(L - k) + 1] + T((L - k) + 1)
        BY <1>3, <1>6, <3>1
    <3>. QED
        BY <1>1, <3>1, <3>2, <3>3
  <2>. HIDE DEF D
  <2>. QED
      BY <1>1, <2>1, <2>2, UpTo
<1>9. arr[m] = b[m]
    BY <1>1, <1>7
<1>10. dep[m] = e[m]
  <2>1. L - m \in 0 .. L /\ L - (L - m) = m
      BY <1>1
  <2>2. dep[L - (L - m)] = e[L - (L - m)]
      BY <1>8, <2>1
  <2>. QED
      BY <2>1, <2>2
<1>. QED
    BY <1>5, <1>9, <1>10 DEF b, e

(* The tables that the host makes for the device are some that init could  *)
(* have made: their sums run the other way, and quicksort_g, with two      *)
(* indices that meet and a pivot that takes part, leaves each pair's jobs  *)
(* in an order that Johnson's rule allows.                                 *)
THEOREM DeviceTables ==
    ASSUME NEW tempsJob \in Times
    PROVE  initialiserVar_g(tempsJob) \in initialiserVar(tempsJob)
<1>. DEFINE g == initialiserVar_g(tempsJob)
<1>1. \A m \in Machine :
          /\ {tempsArriver_g(tempsJob, j)[m] : j \in Position}
                = {Between(tempsJob, j, 0 .. m - 1) : j \in Position}
          /\ {tempsDepart_g(tempsJob, j)[m] : j \in Position}
                = {Between(tempsJob, j, m + 1 .. nbMachines - 1) : j \in Position}
    BY TimesOnDevice DEF L
<1>2. [m \in Machine |-> Min({tempsArriver_g(tempsJob, j)[m] : j \in Position})]
        = [m \in Machine |-> minTempsArr(tempsJob, m)]
    BY <1>1 DEF minTempsArr
<1>3. [m \in Machine |-> Min({tempsDepart_g(tempsJob, j)[m] : j \in Position})]
        = [m \in Machine |-> minTempsDep(tempsJob, m)]
    BY <1>1 DEF minTempsDep
<1>. DEFINE tab == [ma \in Pairs |->
                      LET ordo == quicksort_g(pluspetit_g(tempsJob, ma))
                      IN  [i \in 1 .. Size |-> ordo[i - 1]]]
<1>4. \A ma \in Pairs : tab[ma] \in Johnson(tempsJob, ma)
    BY JohnsonOnDevice
<1>. DEFINE All == UNION {Johnson(tempsJob, ma) : ma \in Pairs}
<1>5. tab \in [Pairs -> All]
  <2>1. \A ma \in Pairs : tab[ma] \in All
      BY <1>4
  <2>. QED
      BY <2>1
<1>6. g = [tempsJob |-> tempsJob,
           tempsLag |-> [ma \in Pairs |-> [j \in Position |-> tempsLag(tempsJob, ma, j)]],
           minTempsArr |-> [m \in Machine |-> minTempsArr(tempsJob, m)],
           minTempsDep |-> [m \in Machine |-> minTempsDep(tempsJob, m)],
           tabJohnson |-> tab]
    BY <1>2, <1>3 DEF initialiserVar_g
<1>. HIDE DEF g, tab
<1>. QED
    BY <1>4, <1>5, <1>6 DEF initialiserVar, g

-----------------------------------------------------------------------------
(* A block's bytes hold the processing times. *)

LEMMA SharedTimes ==
    ASSUME NEW t, Tables(t), Bytes(t)
    PROVE  shared(t) = t.tempsJob
<1>1. \A m \in Machine : t.tempsJob[m] \in [Position -> Nat]
    BY DEF Tables, Times
<1>2. \A m \in Machine, j \in Position : t.tempsJob[m][j] \in Nat /\ t.tempsJob[m][j] < 256
    BY <1>1 DEF Bytes
<1>3. \A x \in Nat : x < 256 => x % 256 = x
    OBVIOUS
<1>4. ASSUME NEW m \in Machine PROVE [j \in Position |-> t.tempsJob[m][j] % 256] = t.tempsJob[m]
    BY <1>1, <1>2, <1>3
<1>5. t.tempsJob = [m \in Machine |-> t.tempsJob[m]]
    BY DEF Tables, Times
<1>. QED
    BY <1>4, <1>5 DEF shared

(* Without branches the device starts a pair of machines as the host. *)
LEMMA InitOnDevice ==
    ASSUME NEW t, Tables(t), Bytes(t), NEW p, Frame(p), NEW ma \in Pairs
    PROVE  initCmax_g(t, p, ma) = initCmax(t, p, ma)
<1>. DEFINE ready == tempsMachines(t, p)
<1>1. set_tempsMachines_g(t, p) = ready
    BY SharedTimes DEF set_tempsMachines_g, tempsMachines
<1>2. /\ ready[ma[1]] \in Nat /\ ready[ma[2]] \in Nat
      /\ t.minTempsArr[ma[1]] \in Nat /\ t.minTempsArr[ma[2]] \in Nat
    BY MachineTimes, PairFacts DEF Loads, Tables
<1>. HIDE DEF ready
<1>3. CASE p.limite1 + 1 = 0
  <2>1. cosf(p.limite1 + 1) = 1
      BY <1>3 DEF cosf
  <2>2. /\ (1 - 1) * ready[ma[1]] + 1 * t.minTempsArr[ma[1]] = t.minTempsArr[ma[1]]
        /\ (1 - 1) * ready[ma[2]] + 1 * t.minTempsArr[ma[2]] = t.minTempsArr[ma[2]]
      BY <1>2
  <2>. QED
      BY <1>1, <1>3, <2>1, <2>2 DEF initCmax_g, initCmax, ready
<1>4. CASE p.limite1 + 1 # 0
  <2>1. cosf(p.limite1 + 1) = 0
      BY <1>4 DEF cosf
  <2>2. /\ (1 - 0) * ready[ma[1]] + 0 * t.minTempsArr[ma[1]] = ready[ma[1]]
        /\ (1 - 0) * ready[ma[2]] + 0 * t.minTempsArr[ma[2]] = ready[ma[2]]
      BY <1>2
  <2>. QED
      BY <1>1, <1>4, <2>1, <2>2 DEF initCmax_g, initCmax, ready
<1>. QED
    BY <1>3, <1>4

(* job[j] is 0 for the open jobs alone. *)
LEMMA OpenOnDevice ==
    ASSUME NEW p, Frame(p), NEW j \in Position
    PROVE  set_job_g(p)[j] = 0 <=> j \in OpenJobs(p)
<1>. DEFINE at == CHOOSE i \in Position : p.permutation[i] = j
<1>1. p.permutation \in Schedule
    BY DEF Frame
<1>2. at \in Position /\ p.permutation[at] = j /\ \A i \in Position : p.permutation[i] = j => i = at
    BY <1>1, ScheduleFacts
<1>3. set_job_g(p)[j] = IF at \in Free(p) THEN 0 ELSE at + 1
    BY DEF set_job_g
<1>. HIDE DEF at
<1>4. Free(p) \subseteq Position
    BY SizeFacts DEF Free, Frame
<1>5. at + 1 # 0
    BY <1>2, SizeFacts
<1>6. j \in OpenJobs(p) <=> at \in Free(p)
    BY <1>2, <1>4 DEF OpenJobs
<1>. QED
    BY <1>3, <1>5, <1>6

LEMMA HeuristicOnDevice ==
    ASSUME NEW t, Tables(t), Bytes(t), NEW p, Frame(p), NEW ma \in Pairs
    PROVE  heuristiqueCmax_g(t, p, ma) = heuristiqueCmax(t, p, ma, t.tabJohnson[ma])
<1>. DEFINE n == Size
            ordo == t.tabJohnson[ma]
            base == initCmax(t, p, ma)
            job == set_job_g(p)
            Def(a) == [s \in SUBSET (1 .. n) |->
                          IF s = {} THEN base
                          ELSE IF ordo[Max(s)] \in OpenJobs(p)
                               THEN Placed(t, ma, ordo[Max(s)], a[s \ {Max(s)}])
                               ELSE a[s \ {Max(s)}]]
            placed(tmp, j) ==
                LET first == tmp[1] + shared(t)[ma[1]][j]
                IN  <<first, max(tmp[2], first + t.tempsLag[ma][j]) + shared(t)[ma[2]][j]>>
            Deg(a) == [s \in SUBSET (1 .. n) |->
                          IF s = {} THEN initCmax_g(t, p, ma)
                          ELSE IF job[ordo[Max(s)]] = 0
                               THEN placed(a[s \ {Max(s)}], ordo[Max(s)])
                               ELSE a[s \ {Max(s)}]]
<1>1. n \in Nat /\ ordo \in [1 .. n -> Position]
  <2>1. ordo \in Orders
      BY DEF Tables, Johnson
  <2>. HIDE DEF ordo
  <2>. QED
      BY <2>1, OrderFacts, SizeFacts
<1>2. DOMAIN ordo = 1 .. n
    BY <1>1
<1>3. heuristiqueCmax(t, p, ma, ordo) = (CHOOSE a : a = Def(a))[1 .. n]
    BY <1>2 DEF heuristiqueCmax, FoldLeft, MapThenFoldSet, Placed, OpenJobs
<1>4. heuristiqueCmax_g(t, p, ma) = (CHOOSE a : a = Deg(a))[1 .. n]
    BY <1>2 DEF heuristiqueCmax_g, FoldLeft, MapThenFoldSet
<1>5. \A s \in SUBSET (1 .. n) : s # {} => (job[ordo[Max(s)]] = 0 <=> ordo[Max(s)] \in OpenJobs(p))
  <2>. SUFFICES ASSUME NEW s \in SUBSET (1 .. n), s # {}
                PROVE  job[ordo[Max(s)]] = 0 <=> ordo[Max(s)] \in OpenJobs(p)
      OBVIOUS
  <2>. HIDE DEF n, ordo
  <2>1. Max(s) \in 1 .. n
      BY <1>1, Greatest
  <2>2. ordo[Max(s)] \in Position
      BY <1>1, <2>1
  <2>. QED
      BY <2>2, OpenOnDevice
<1>5a. initCmax_g(t, p, ma) = base /\ \A tmp, j : placed(tmp, j) = Placed(t, ma, j, tmp)
    BY SharedTimes, InitOnDevice DEF Placed
<1>. HIDE DEF n, ordo, base, job, placed
<1>6. \A a : Def(a) = Deg(a)
    BY <1>5, <1>5a
<1>7. \A a : a = Def(a) <=> a = Deg(a)
    BY <1>6
<1>8. (CHOOSE a : a = Def(a)) = (CHOOSE a : a = Deg(a))
  <2>. HIDE DEF Def, Deg
  <2>. QED
      BY <1>7
<1>. QED
    BY <1>3, <1>4, <1>8 DEF ordo

LEMMA BorneOnDevice ==
    ASSUME NEW t, Tables(t), Bytes(t), NEW p, Frame(p), NEW ma \in Pairs
    PROVE  borne_g(t, p, ma) = Borne(t, p, ma)
<1>1. set_tempsMachinesFin_g(t, p) = tempsMachinesFin(t, p)
    BY SharedTimes DEF set_tempsMachinesFin_g, tempsMachinesFin
<1>2. Size - p.limite2 # 0 <=> p.limite2 # Size
    BY SizeFacts DEF Frame
<1>. QED
    BY <1>1, <1>2, HeuristicOnDevice DEF borne_g, Borne, cmaxFin

(* What the proofs use of two sets of tables made from one instance. *)
SameInstance(t, g) ==
    /\ Tables(t) /\ Tables(g)
    /\ g.tempsJob = t.tempsJob /\ g.tempsLag = t.tempsLag
    /\ g.minTempsArr = t.minTempsArr /\ g.minTempsDep = t.minTempsDep

LEMMA SameTables ==
    ASSUME NEW tempsJob \in Times, NEW t \in initialiserVar(tempsJob), NEW g \in initialiserVar(tempsJob)
    PROVE  SameInstance(t, g)
<1>1. Tables(t) /\ Tables(g)
    BY TablesMade
<1>. QED
    BY <1>1 DEF initialiserVar, SameInstance

LEMMA SameHeuristic ==
    ASSUME NEW t, NEW g, SameInstance(t, g), NEW p, Frame(p), NEW ma \in Pairs, NEW ordo \in Orders
    PROVE  heuristiqueCmax(g, p, ma, ordo) = heuristiqueCmax(t, p, ma, ordo)
<1>. DEFINE n == Size
            Def(u, a) == [s \in SUBSET (1 .. n) |->
                            IF s = {} THEN initCmax(u, p, ma)
                            ELSE IF ordo[Max(s)] \in OpenJobs(p)
                                 THEN Placed(u, ma, ordo[Max(s)], a[s \ {Max(s)}])
                                 ELSE a[s \ {Max(s)}]]
<1>1. /\ g.tempsJob = t.tempsJob /\ g.tempsLag = t.tempsLag
      /\ g.minTempsArr = t.minTempsArr
    BY DEF SameInstance
<1>2. DOMAIN ordo = 1 .. n
    BY OrderFacts
<1>3. /\ heuristiqueCmax(t, p, ma, ordo) = (CHOOSE a : a = Def(t, a))[1 .. n]
      /\ heuristiqueCmax(g, p, ma, ordo) = (CHOOSE a : a = Def(g, a))[1 .. n]
    BY <1>2 DEF heuristiqueCmax, FoldLeft, MapThenFoldSet, Placed, OpenJobs
<1>4. initCmax(g, p, ma) = initCmax(t, p, ma)
    BY <1>1 DEF initCmax, tempsMachines
<1>5. \A j, tmp : Placed(g, ma, j, tmp) = Placed(t, ma, j, tmp)
    BY <1>1 DEF Placed
<1>6. \A a : Def(g, a) = Def(t, a)
    BY <1>4, <1>5
<1>7. (CHOOSE a : a = Def(g, a)) = (CHOOSE a : a = Def(t, a))
  <2>1. \A a : a = Def(g, a) <=> a = Def(t, a)
      BY <1>6
  <2>. HIDE DEF Def
  <2>. QED
      BY <2>1
<1>. QED
    BY <1>3, <1>7

(* Jobs that tie in Johnson's order do not change a pair's bound. *)
LEMMA BorneSame ==
    ASSUME NEW t, NEW g, SameInstance(t, g), NEW p, Frame(p), NEW ma \in Pairs
    PROVE  Borne(g, p, ma) = Borne(t, p, ma)
<1>1. /\ Tables(t) /\ Tables(g)
      /\ g.tempsJob = t.tempsJob /\ g.tempsLag = t.tempsLag
      /\ g.minTempsArr = t.minTempsArr /\ g.minTempsDep = t.minTempsDep
    BY DEF SameInstance
<1>2. t.tabJohnson[ma] \in Orders /\ g.tabJohnson[ma] \in Orders
    BY <1>1 DEF Tables, Johnson
<1>3. \A ordo \in Orders : heuristiqueCmax(g, p, ma, ordo) = heuristiqueCmax(t, p, ma, ordo)
    BY SameHeuristic
<1>. DEFINE c == heuristiqueCmax(t, p, ma, t.tabJohnson[ma])
            e == heuristiqueCmax(t, p, ma, g.tabJohnson[ma])
<1>4. c[1] = e[1] /\ c[2] <= e[2] /\ c \in Pair
    BY <1>1, <1>2, JohnsonBest
<1>5. e[1] = c[1] /\ e[2] <= c[2] /\ e \in Pair
  <2>1. /\ heuristiqueCmax(g, p, ma, g.tabJohnson[ma])[2] <= heuristiqueCmax(g, p, ma, t.tabJohnson[ma])[2]
        /\ heuristiqueCmax(g, p, ma, g.tabJohnson[ma])[1] = heuristiqueCmax(g, p, ma, t.tabJohnson[ma])[1]
        /\ heuristiqueCmax(g, p, ma, g.tabJohnson[ma]) \in Pair
      BY <1>1, <1>2, JohnsonBest
  <2>. QED
      BY <1>2, <1>3, <2>1
<1>. HIDE DEF c, e
<1>6. c = e
  <2>1. c[2] \in Nat /\ e[2] \in Nat /\ c = <<c[1], c[2]>> /\ e = <<e[1], e[2]>>
      BY <1>4, <1>5 DEF Pair
  <2>2. c[2] = e[2]
      BY <1>4, <1>5, <2>1
  <2>. QED
      BY <1>4, <2>1, <2>2
<1>7. Borne(g, p, ma) = cmaxFin(g, p, ma, e) /\ Borne(t, p, ma) = cmaxFin(t, p, ma, c)
    BY <1>2, <1>3 DEF Borne, c, e
<1>8. cmaxFin(g, p, ma, e) = cmaxFin(t, p, ma, e)
    BY <1>1 DEF cmaxFin, tempsMachinesFin
<1>. QED
    BY <1>6, <1>7, <1>8

-----------------------------------------------------------------------------
(* The greatest bound of a pair, all pairs taken. *)
RisesOnDevice(f, t, p) ==
    /\ f \in [0 .. Cardinality(Pairs) -> Nat] /\ f[0] = 0
    /\ \A k \in 1 .. Cardinality(Pairs) : f[k] = max(f[k - 1], borne_g(t, p, machine[k]))

LEMMA BorneInfOnDevice ==
    ASSUME NEW t, Tables(t), Bytes(t), NEW p, Frame(p)
    PROVE  \E f : RisesOnDevice(f, t, p) /\ borneInfMakespan_g(t, p) = f[Cardinality(Pairs)]
<1>. DEFINE n == Cardinality(Pairs)
            T == Nat
            step == [ma \in Pairs |-> [a \in T |-> max(a, borne_g(t, p, ma))]]
            Def(a) == [s \in SUBSET (1 .. n) |->
                          IF s = {} THEN 0
                          ELSE max(a[s \ {Max(s)}], borne_g(t, p, machine[Max(s)]))]
<1>1. n \in Nat /\ 0 \in T
    BY MachineType
<1>2. machine \in [1 .. n -> Pairs] /\ Listed(machine, n, Pairs)
    BY MachineType DEF Listed
<1>3. Turns(step, Pairs, T)
  <2>1. \A ma \in Pairs : borne_g(t, p, ma) \in Nat
      BY BorneOnDevice, BorneType
  <2>2. \A ma \in Pairs, a \in Nat : max(a, borne_g(t, p, ma)) \in Nat
      BY <2>1 DEF max
  <2>. QED
      BY <2>2 DEF Turns
<1>4. borneInfMakespan_g(t, p) = (CHOOSE a : a = Def(a))[1 .. n]
  <2>1. DOMAIN machine = 1 .. n
      BY <1>2
  <2>. QED
      BY <2>1 DEF borneInfMakespan_g, FoldLeft, MapThenFoldSet
<1>. HIDE DEF n, T
<1>5. PICK f : FoldOfPlaces(f, n, machine, T, 0, step)
  <2>. HIDE DEF step
  <2>. QED
      BY <1>1, <1>2, <1>3, FoldOverPlaces
<1>6. f = Def(f)
  <2>0. /\ f \in [SUBSET (1 .. n) -> T] /\ f[{}] = 0
        /\ \A s \in SUBSET (1 .. n) : s # {} => f[s] = step[machine[Max(s)]][f[s \ {Max(s)}]]
      BY <1>5 DEF FoldOfPlaces
  <2>1. \A s \in SUBSET (1 .. n) : s # {} => Max(s) \in 1 .. n
      BY <1>1, Greatest
  <2>2. \A s \in SUBSET (1 .. n) : s # {} => machine[Max(s)] \in Pairs /\ f[s \ {Max(s)}] \in T
      BY <1>2, <2>0, <2>1
  <2>. QED
      BY <2>0, <2>2
<1>. DEFINE a == CHOOSE a : a = Def(a)
<1>7. a = Def(a)
    BY <1>6
<1>. HIDE DEF a
<1>8. a[{}] = 0
    BY <1>7
<1>9. ASSUME NEW k \in 1 .. n, a[1 .. k - 1] \in T
      PROVE  a[1 .. k] = step[machine[k]][a[1 .. k - 1]]
  <2>1. /\ 1 .. k \in SUBSET (1 .. n) /\ 1 .. k # {}
        /\ Max(1 .. k) = k /\ (1 .. k) \ {k} = 1 .. k - 1
      BY <1>1, Initial
  <2>2. a[1 .. k] = max(a[1 .. k - 1], borne_g(t, p, machine[k]))
      BY <1>7, <2>1
  <2>3. machine[k] \in Pairs
      BY <1>2
  <2>. QED
      BY <1>9, <2>2, <2>3
<1>10. Unfolds(a, n, machine, T, 0, step)
    BY <1>8, <1>9 DEF Unfolds
<1>11. PICK g : LeftFold(g, n, machine, T, 0, step) /\ g[n] = a[1 .. n]
  <2>. HIDE DEF step
  <2>. QED
      BY <1>1, <1>2, <1>3, <1>10, FoldOverPrefixes
<1>12. RisesOnDevice(g, t, p)
  <2>1. /\ g \in [0 .. n -> T] /\ g[0] = 0
        /\ \A k \in 1 .. n : g[k] = step[machine[k]][g[k - 1]]
      BY <1>11 DEF LeftFold
  <2>2. \A k \in 1 .. n : k - 1 \in 0 .. n
      BY <1>1
  <2>3. \A k \in 1 .. n : machine[k] \in Pairs /\ g[k - 1] \in T
      BY <1>2, <2>1, <2>2
  <2>4. \A k \in 1 .. n : g[k] = max(g[k - 1], borne_g(t, p, machine[k]))
      BY <2>1, <2>3
  <2>. QED
      BY <2>1, <2>4 DEF RisesOnDevice, n, T
<1>. QED
    BY <1>4, <1>11, <1>12 DEF a, n

(* The host never stops early while no pair exceeds leMeilleur. *)
LEMMA SameGreatest ==
    ASSUME NEW t, NEW g, SameInstance(t, g), Bytes(g), NEW p, Frame(p),
           \A ma \in Pairs : Borne(t, p, ma) <= leMeilleur
    PROVE  borneInfMakespan_g(g, p) = borneInfMakespan(t, p)
<1>. DEFINE n == Cardinality(Pairs)
<1>1. Tables(t) /\ Tables(g)
    BY DEF SameInstance
<1>2. PICK f : Rises(f, t, p) /\ borneInfMakespan(t, p) = f[n]
    BY <1>1, BorneInfSteps
<1>3. PICK h : RisesOnDevice(h, g, p) /\ borneInfMakespan_g(g, p) = h[n]
    BY <1>1, BorneInfOnDevice
<1>4. n \in Nat /\ n \in 0 .. n /\ machine \in [1 .. n -> Pairs]
    BY MachineType
<1>5. /\ f \in [0 .. n -> Nat] /\ f[0] = 0
      /\ \A k \in 1 .. n : f[k] = Raised(t, p, machine[k], f[k - 1])
    BY <1>2 DEF Rises
<1>6. /\ h \in [0 .. n -> Nat] /\ h[0] = 0
      /\ \A k \in 1 .. n : h[k] = max(h[k - 1], borne_g(g, p, machine[k]))
    BY <1>3 DEF RisesOnDevice
<1>7. \A ma \in Pairs : borne_g(g, p, ma) = Borne(t, p, ma) /\ Borne(t, p, ma) \in Nat
    BY <1>1, BorneOnDevice, BorneSame, BorneType
<1>. HIDE DEF n
<1>. DEFINE S == {k \in 0 .. n : h[k] = f[k] /\ f[k] <= leMeilleur}
<1>8. 0 \in S
    BY <1>4, <1>5, <1>6 DEF leMeilleur
<1>9. ASSUME NEW k \in 1 .. n, k - 1 \in S PROVE k \in S
  <2>. DEFINE ma == machine[k]
              b == Borne(t, p, ma)
  <2>1. ma \in Pairs /\ k \in 0 .. n /\ k - 1 \in 0 .. n
      BY <1>4
  <2>2. b \in Nat /\ b <= leMeilleur
      BY <1>7, <2>1
  <2>3. h[k - 1] = f[k - 1] /\ f[k - 1] \in Nat /\ f[k - 1] <= leMeilleur
      BY <1>5, <1>9, <2>1
  <2>4. f[k] = Raised(t, p, ma, f[k - 1]) /\ h[k] = max(f[k - 1], b)
      BY <1>5, <1>6, <1>7, <2>1, <2>3
  <2>5. f[k] = max(f[k - 1], b)
      BY <2>3, <2>4 DEF Raised, leMeilleur
  <2>. HIDE DEF b, ma
  <2>6. max(f[k - 1], b) <= leMeilleur
      BY <2>2, <2>3 DEF max
  <2>. QED
      BY <2>1, <2>4, <2>5, <2>6
<1>10. n \in S
  <2>. HIDE DEF S
  <2>. QED
      BY <1>4, <1>8, <1>9, UpTo
<1>. QED
    BY <1>2, <1>3, <1>10 DEF n

(* The device's bound of a subproblem is the host's, whichever way either  *)
(* sorted its ties: Evaluate_ON_GPU multiplies where bornes_calculer tests *)
(* and keeps times as bytes.                                               *)
THEOREM DeviceBound ==
    ASSUME NEW t, NEW g, SameInstance(t, g), Bytes(t), Short(t),
           NEW p, Frame(p)
    PROVE  Evaluate_ON_GPU(g, p) = bornes_calculer(t, p)
<1>1. Tables(t) /\ Tables(g) /\ g.tempsJob = t.tempsJob
    BY DEF SameInstance
<1>2. Bytes(g)
    BY <1>1 DEF Bytes
<1>3. CASE p.limite2 - p.limite1 = 1
  <2>1. shared(g) = t.tempsJob
      BY <1>1, <1>2, SharedTimes
  <2>. QED
      BY <1>3, <2>1 DEF Evaluate_ON_GPU, bornes_calculer, criteres_calculer_g, criteres_calculer
<1>4. CASE p.limite2 - p.limite1 # 1
  <2>1. p.permutation \in Schedule /\ p.limite1 + 1 < p.limite2
      BY <1>4, SizeFacts DEF Frame
  <2>2. Completes(p.permutation, p)
      BY DEF Completes
  <2>3. criteres_calculer(t, p.permutation) \in Nat /\ criteres_calculer(t, p.permutation) <= leMeilleur
      BY <1>1, <2>1, MakespanType DEF Short
  <2>4. ASSUME NEW ma \in Pairs PROVE Borne(t, p, ma) <= leMeilleur
    <3>1. Borne(t, p, ma) <= criteres_calculer(t, p.permutation) /\ Borne(t, p, ma) \in Nat
        BY <1>1, <2>1, <2>2, BorneBelow, BorneType
    <3>. QED
        BY <2>3, <3>1 DEF leMeilleur
  <2>5. borneInfMakespan_g(g, p) = borneInfMakespan(t, p)
      BY <1>2, <2>4, SameGreatest
  <2>. QED
      BY <1>4, <2>5 DEF Evaluate_ON_GPU, bornes_calculer
<1>. QED
    BY <1>3, <1>4

-----------------------------------------------------------------------------
(* The position a child fixes, and its one job. *)
End(n, begin_end) == IF begin_end = BEGIN_ORDER THEN n.limite1 + 1 ELSE n.limite2 - 1

(* The free positions of a subproblem that is not a leaf. *)
LEMMA FreeFacts ==
    ASSUME NEW n, WellFormed(n), ~leaf(n)
    PROVE  /\ n.limite1 \in Int /\ n.limite2 \in Int /\ n.depth \in Int
           /\ -1 <= n.limite1 /\ n.limite2 <= Size
           /\ n.limite2 - n.limite1 >= 3
           /\ n.limite2 - n.limite1 = Size - n.depth + 1
           /\ simple(n) <=> n.limite2 - n.limite1 = 3
           /\ Free(n) \subseteq Position
           /\ \A e \in {BEGIN_ORDER, END_ORDER} : End(n, e) \in Free(n)
<1>1. /\ n.limite1 \in -1 .. Size - 1 /\ n.limite2 \in 0 .. Size
      /\ n.depth \in 0 .. Size /\ n.depth # Size - 1 /\ n.depth # Size
      /\ n.limite2 - n.limite1 - 1 = Size - n.depth
    BY DEF WellFormed, leaf
<1>2. /\ n.limite1 \in Int /\ n.limite2 \in Int /\ n.depth \in Int
      /\ -1 <= n.limite1 /\ n.limite2 <= Size
      /\ n.limite2 - n.limite1 >= 3
      /\ n.limite2 - n.limite1 = Size - n.depth + 1
    BY SMTT(30), <1>1, SizeFacts
<1>3. simple(n) <=> n.limite2 - n.limite1 = 3
    BY SMTT(30), <1>2, SizeFacts DEF simple
<1>4. Free(n) \subseteq Position
    BY SMTT(30), <1>2, SizeFacts DEF Free
<1>5. \A e \in {BEGIN_ORDER, END_ORDER} : End(n, e) \in Free(n)
  <2>1. n.limite1 + 1 \in Free(n) /\ n.limite2 - 1 \in Free(n)
      BY SMTT(30), <1>2, SizeFacts DEF Free
  <2>. QED
      BY <2>1 DEF End
<1>. QED
    BY <1>2, <1>3, <1>4, <1>5

(* The orders in which a subproblem is branched: leaves only at the start. *)
Ends(n) == IF simple(n) THEN {BEGIN_ORDER} ELSE {BEGIN_ORDER, END_ORDER}

LEMMA ChildFields ==
    ASSUME NEW n, WellFormed(n), ~leaf(n), NEW e \in Ends(n), NEW j \in Free(n)
    PROVE  LET c == create_raw_problem3(n, j, e) IN
           /\ c.permutation = [n.permutation EXCEPT ![End(n, e)] = n.permutation[j],
                                                    ![j] = n.permutation[End(n, e)]]
           /\ c.depth = IF simple(n) THEN Size ELSE n.depth + 1
           /\ simple(n) => c.limite1 = n.limite1 + 2 /\ c.limite2 = n.limite2
           /\ ~simple(n) /\ e = BEGIN_ORDER =>
                    c.limite1 = n.limite1 + 1 /\ c.limite2 = n.limite2
           /\ ~simple(n) /\ e = END_ORDER =>
                    c.limite1 = n.limite1 /\ c.limite2 = n.limite2 - 1
<1>. DEFINE c == create_raw_problem3(n, j, e)
<1>1. /\ c.permutation = permutation_set(n, j, e)
      /\ c.limite1 = limites_set(n, e)[1]
      /\ c.limite2 = limites_set(n, e)[2]
      /\ c.depth = depth_set(n)
    BY DEF create_raw_problem3
<1>2. permutation_set(n, j, e) = [n.permutation EXCEPT ![End(n, e)] = n.permutation[j],
                                                    ![j] = n.permutation[End(n, e)]]
    BY DEF permutation_set, End
<1>3. /\ simple(n) => limites_set(n, e) = <<n.limite1 + 2, n.limite2>>
      /\ ~simple(n) /\ e = BEGIN_ORDER => limites_set(n, e) = <<n.limite1 + 1, n.limite2>>
      /\ ~simple(n) /\ e = END_ORDER => limites_set(n, e) = <<n.limite1, n.limite2 - 1>>
    BY FreeFacts DEF limites_set, Ends, BEGIN_ORDER, END_ORDER
<1>. HIDE DEF c
<1>. QED
    BY <1>1, <1>2, <1>3 DEF depth_set, c

(* Limits and depth fit together, and go on doing so in a child. *)
LimitsFit(l1, l2, d) ==
    /\ l1 \in -1 .. Size - 1 /\ l2 \in 0 .. Size
    /\ d \in 0 .. Size /\ d # Size - 1
    /\ l2 - l1 - 1 = Size - d

LEMMA FitsSimple ==
    ASSUME NEW l1 \in Int, NEW l2 \in Int, -1 <= l1, l2 <= Size, l2 - l1 = 3
    PROVE  LimitsFit(l1 + 2, l2, Size)
BY SizeFacts DEF LimitsFit

LEMMA FitsChild ==
    ASSUME NEW l1 \in Int, NEW l2 \in Int, NEW d \in 0 .. Size, -1 <= l1, l2 <= Size,
           l2 - l1 = Size - d + 1, l2 - l1 >= 3, l2 - l1 # 3
    PROVE  LimitsFit(l1 + 1, l2, d + 1) /\ LimitsFit(l1, l2 - 1, d + 1)
BY SizeFacts DEF LimitsFit

(* A child is well formed. *)
LEMMA ChildWellFormed ==
    ASSUME NEW n, WellFormed(n), ~leaf(n), NEW e \in Ends(n), NEW j \in Free(n)
    PROVE  WellFormed(create_raw_problem3(n, j, e))
<1>. DEFINE c == create_raw_problem3(n, j, e)
<1>1. j \in Position /\ End(n, e) \in Position /\ n.permutation \in Schedule
    BY FreeFacts DEF Ends, WellFormed
<1>2. c.permutation \in Schedule
  <2>. DEFINE u == c.permutation
  <2>1. u = [n.permutation EXCEPT ![End(n, e)] = n.permutation[j],
                                              ![j] = n.permutation[End(n, e)]]
      BY ChildFields
  <2>. HIDE DEF u
  <2>2. u \in Schedule
      BY <1>1, <2>1, SwapSchedule
  <2>. QED
      BY <2>2 DEF u
<1>3. /\ c.depth = IF simple(n) THEN Size ELSE n.depth + 1
      /\ simple(n) => c.limite1 = n.limite1 + 2 /\ c.limite2 = n.limite2
      /\ ~simple(n) => \/ c.limite1 = n.limite1 + 1 /\ c.limite2 = n.limite2
                       \/ c.limite1 = n.limite1 /\ c.limite2 = n.limite2 - 1
    BY ZenonT(60), ChildFields DEF Ends
<1>4. /\ n.limite1 \in Int /\ n.limite2 \in Int /\ n.depth \in 0 .. Size
      /\ n.depth # Size - 1 /\ n.depth # Size
      /\ -1 <= n.limite1 /\ n.limite2 <= Size
      /\ n.limite2 - n.limite1 >= 3
      /\ n.limite2 - n.limite1 = Size - n.depth + 1
      /\ simple(n) <=> n.limite2 - n.limite1 = 3
    BY FreeFacts DEF WellFormed, leaf
<1>. HIDE DEF c
<1>5. LimitsFit(c.limite1, c.limite2, c.depth)
  <2>1. CASE simple(n)
    <3>1. c.limite1 = n.limite1 + 2 /\ c.limite2 = n.limite2 /\ c.depth = Size
        BY <1>3, <2>1
    <3>2. n.limite2 - n.limite1 = 3
        BY <1>4, <2>1
    <3>. QED
        BY <1>4, <3>1, <3>2, FitsSimple
  <2>2. CASE ~simple(n)
    <3>1. c.depth = n.depth + 1
        BY <1>3, <2>2
    <3>2. \/ c.limite1 = n.limite1 + 1 /\ c.limite2 = n.limite2
          \/ c.limite1 = n.limite1 /\ c.limite2 = n.limite2 - 1
        BY <1>3, <2>2
    <3>3. n.limite2 - n.limite1 # 3
        BY <1>4, <2>2
    <3>. QED
        BY <1>4, <3>1, <3>2, <3>3, FitsChild
  <2>. QED
      BY <2>1, <2>2
<1>6. WellFormed(c)
    BY <1>2, <1>5 DEF WellFormed, LimitsFit
<1>. QED
    BY <1>6 DEF c

(* A schedule completes a child when it completes the subproblem and has  *)
(* the child's job at the end that was branched.                          *)
LEMMA ChildCompletions ==
    ASSUME NEW n, WellFormed(n), ~leaf(n), NEW e \in Ends(n), NEW j \in Free(n),
           NEW s \in Schedule
    PROVE  Completes(s, create_raw_problem3(n, j, e))
              <=> Completes(s, n) /\ s[End(n, e)] = n.permutation[j]
<1>. DEFINE c == create_raw_problem3(n, j, e)
            f == n.permutation
            u == c.permutation
            a == End(n, e)
<1>1. /\ j \in Position /\ a \in Position /\ a \in Free(n)
      /\ f \in Schedule /\ u \in Schedule
    BY FreeFacts, ChildWellFormed DEF Ends, WellFormed
<1>2. u = [f EXCEPT ![a] = f[j], ![j] = f[a]]
    BY ChildFields
<1>3. u[a] = f[j] /\ \A i \in Position : i # a /\ i # j => u[i] = f[i]
  <2>. HIDE DEF a, c, f, u
  <2>. QED
      BY <1>1, <1>2, ScheduleFacts
<1>4. /\ n.limite1 \in Int /\ n.limite2 \in Int
      /\ \A i \in Free(n) : i \in Int /\ n.limite1 < i /\ i < n.limite2
      /\ \A i \in Position : i \in Int
      /\ \A i \in Position : i \in Free(n) \/ i <= n.limite1 \/ i >= n.limite2
    BY SMTT(30), FreeFacts, SizeFacts DEF Free
<1>5. \A i \in Position : i <= n.limite1 \/ i >= n.limite2 => u[i] = f[i] /\ i # a /\ i # j
    BY <1>1, <1>3, <1>4
<1>6. /\ Completes(s, c) <=>
            \A i \in Position : i <= c.limite1 \/ i >= c.limite2 => s[i] = u[i]
      /\ Completes(s, n) <=>
            \A i \in Position : i <= n.limite1 \/ i >= n.limite2 => s[i] = f[i]
    BY DEF Completes
<1>7. /\ simple(n) => /\ c.limite1 = n.limite1 + 2 /\ c.limite2 = n.limite2
                      /\ a = n.limite1 + 1 /\ n.limite2 - n.limite1 = 3
      /\ ~simple(n) => \/ c.limite1 = a /\ a = n.limite1 + 1 /\ c.limite2 = n.limite2
                       \/ c.limite2 = a /\ a = n.limite2 - 1 /\ c.limite1 = n.limite1
  <2>1. \/ a = n.limite1 + 1 /\ e = BEGIN_ORDER
        \/ a = n.limite2 - 1 /\ e = END_ORDER /\ ~simple(n)
      BY DEF Ends, End, BEGIN_ORDER, END_ORDER
  <2>. HIDE DEF a
  <2>2. /\ simple(n) => c.limite1 = n.limite1 + 2 /\ c.limite2 = n.limite2
        /\ ~simple(n) /\ e = BEGIN_ORDER =>
                    c.limite1 = n.limite1 + 1 /\ c.limite2 = n.limite2
        /\ ~simple(n) /\ e = END_ORDER =>
                    c.limite1 = n.limite1 /\ c.limite2 = n.limite2 - 1
      BY ChildFields
  <2>3. simple(n) => n.limite2 - n.limite1 = 3
      BY FreeFacts
  <2>. HIDE DEF c
  <2>. QED
      BY <2>1, <2>2, <2>3
<1>. HIDE DEF a, c, f, u
<1>8. ASSUME simple(n)
      PROVE  Completes(s, c) <=> Completes(s, n) /\ s[a] = f[j]
  <2>1. /\ c.limite1 = n.limite1 + 2 /\ c.limite2 = n.limite2
        /\ n.limite2 - n.limite1 = 3 /\ a = n.limite1 + 1
      BY <1>7, <1>8
  <2>2. \A i \in Position : i <= c.limite1 \/ i >= c.limite2
      BY <1>4, <2>1
  <2>3. Completes(s, c) <=> \A i \in Position : s[i] = u[i]
      BY <2>2, <1>6
  <2>4. ASSUME \A i \in Position : s[i] = u[i]
        PROVE  Completes(s, n) /\ s[a] = f[j]
      BY <2>4, <1>1, <1>3, <1>5, <1>6
  <2>5. ASSUME Completes(s, n), s[a] = f[j]
        PROVE  \A i \in Position : s[i] = u[i]
    <3>1. \A i \in Position : i <= n.limite1 \/ i >= n.limite2 => s[i] = u[i]
        BY <2>5, <1>5, <1>6
    <3>2. \A i \in Position : i # n.limite1 + 2 => s[i] = u[i]
        BY <3>1, <2>5, <2>1, <1>3, <1>4
    <3>3. ASSUME NEW i \in Position, i = n.limite1 + 2 PROVE s[i] = u[i]
      <4>1. u[i] \in Position
          BY <1>1, ScheduleFacts
      <4>2. PICK k \in Position : s[k] = u[i]
          BY <4>1, ScheduleFacts
      <4>3. ASSUME k # i PROVE FALSE
        <5>1. s[k] = u[k]
            BY <3>2, <3>3, <4>3
        <5>. QED
            BY ZenonT(60), <5>1, <4>2, <4>3, <1>1, ScheduleFacts
      <4>. QED
          BY <4>2, <4>3
    <3>. QED
        BY <3>2, <3>3
  <2>. QED
      BY <2>3, <2>4, <2>5
<1>9. ASSUME ~simple(n)
      PROVE  Completes(s, c) <=> Completes(s, n) /\ s[a] = f[j]
  <2>1. \/ c.limite1 = a /\ a = n.limite1 + 1 /\ c.limite2 = n.limite2
        \/ c.limite2 = a /\ a = n.limite2 - 1 /\ c.limite1 = n.limite1
      BY <1>7, <1>9
  <2>2. \A i \in Position :
            i <= c.limite1 \/ i >= c.limite2 <=>
            i <= n.limite1 \/ i >= n.limite2 \/ i = a
      BY <1>4, <2>1
  <2>. QED
      BY <2>2, <1>1, <1>3, <1>5, <1>6
<1>. QED
    BY <1>8, <1>9 DEF a, c, f, u

(* Every completion of a subproblem has one of its open jobs at the end.  *)
LEMMA SomeChild ==
    ASSUME NEW n, WellFormed(n), ~leaf(n), NEW e \in Ends(n),
           NEW s \in Schedule, Completes(s, n)
    PROVE  \E j \in Free(n) : s[End(n, e)] = n.permutation[j]
<1>1. /\ End(n, e) \in Position /\ End(n, e) \in Free(n) /\ n.permutation \in Schedule
    BY FreeFacts DEF Ends, WellFormed
<1>2. s[End(n, e)] \in Position
    BY <1>1, ScheduleFacts
<1>3. PICK k \in Position : n.permutation[k] = s[End(n, e)]
    BY <1>1, <1>2, ScheduleFacts
<1>4. \A i \in Position : i \in Free(n) \/ i <= n.limite1 \/ i >= n.limite2
    BY FreeFacts, SizeFacts DEF Free
<1>5. ASSUME k \notin Free(n) PROVE FALSE
  <2>1. s[k] = n.permutation[k]
      BY <1>4, <1>5 DEF Completes
  <2>2. k = End(n, e)
      BY <2>1, <1>1, <1>3, ScheduleFacts
  <2>. QED
      BY <2>2, <1>1, <1>5
<1>. QED
    BY <1>3, <1>5

-----------------------------------------------------------------------------
(* A child as decompose leaves it: with its cost and its rank.  ns are *)
(* its siblings.                                                            *)
ChildAt(n, e, ns, off, j) == Numbered(ns, off, Evaluated(create_raw_problem3(n, j, e)))

LEMMA ChildOf ==
    ASSUME NEW n, NEW e, NEW ns, NEW off, NEW j
    PROVE  LET c == ChildAt(n, e, ns, off, j)
               r == create_raw_problem3(n, j, e)
           IN  /\ c.permutation = r.permutation
               /\ c.limite1 = r.limite1 /\ c.limite2 = r.limite2
               /\ c.depth = r.depth
               /\ c.couts_somme = bornes_calculer(tables, r)
BY DEF ChildAt, Numbered, Evaluated, create_raw_problem3

Siblings(n, e) == {Evaluated(create_raw_problem3(n, j, e)) : j \in Free(n)}
Off(n) == IF simple(n) THEN 1 ELSE 0

(* decompose makes one child for each open job, all at the same end. *)
LEMMA DecomposeChildren ==
    ASSUME NEW n, WellFormed(n), ~leaf(n)
    PROVE  \E e \in Ends(n) :
                decompose(n) = {ChildAt(n, e, Siblings(n, e), Off(n), j) : j \in Free(n)}
<1>1. CASE simple(n)
  <2>1. Free(n) = {n.limite1 + 1, n.limite1 + 2}
      BY <1>1, FreeFacts DEF Free
  <2>2. leaves_generate(n) = {create_raw_problem3(n, j, BEGIN_ORDER) : j \in Free(n)}
      BY <2>1 DEF leaves_generate
  <2>. DEFINE ns == {Evaluated(p) : p \in leaves_generate(n)}
  <2>3. decompose(n) = Ranked(ns, 1)
      BY <1>1 DEF decompose
  <2>4. ns = {Evaluated(create_raw_problem3(n, j, BEGIN_ORDER)) : j \in Free(n)}
      BY <2>2
  <2>5. BEGIN_ORDER \in Ends(n)
      BY DEF Ends
  <2>. HIDE DEF ns
  <2>6. Ranked(ns, 1) = {ChildAt(n, BEGIN_ORDER, ns, 1, j) : j \in Free(n)}
      BY <2>4 DEF ChildAt, Ranked
  <2>. QED
      BY <1>1, <2>3, <2>4, <2>5, <2>6 DEF Siblings, Off
<1>2. CASE ~simple(n)
  <2>1. PICK e \in {BEGIN_ORDER, END_ORDER} :
            decompose(n) = Ranked({Evaluated(p) : p \in problems_generate(n, e)}, 0)
      BY <1>2 DEF decompose
  <2>2. problems_generate(n, e) = {create_raw_problem3(n, j, e) : j \in Free(n)}
      BY DEF problems_generate
  <2>. DEFINE ns == {Evaluated(p) : p \in problems_generate(n, e)}
  <2>3. ns = {Evaluated(create_raw_problem3(n, j, e)) : j \in Free(n)}
      BY <2>2
  <2>4. e \in Ends(n)
      BY <1>2 DEF Ends
  <2>5. decompose(n) = Ranked(ns, 0)
      BY <2>1
  <2>. HIDE DEF ns
  <2>6. Ranked(ns, 0) = {ChildAt(n, e, ns, 0, j) : j \in Free(n)}
      BY <2>3 DEF ChildAt, Ranked
  <2>. QED
      BY <1>2, <2>3, <2>4, <2>5, <2>6 DEF Siblings, Off
<1>. QED
    BY <1>1, <1>2

(* A child costs what bornes_calculer makes of the record it began as. *)
FromRaw(c) ==
    \E r : /\ WellFormed(r) /\ c.couts_somme = bornes_calculer(tables, r)
           /\ leaf(c) <=> leaf(r)
           /\ \A s : Completes(s, c) <=> Completes(s, r)

(* Branching splits the completions of a subproblem among its children. *)
LEMMA Decomposed ==
    ASSUME NEW n, WellFormed(n), ~leaf(n)
    PROVE  /\ \A c \in decompose(n) : WellFormed(c) /\ FromRaw(c)
           /\ \A s \in Schedule :
                /\ \A c \in decompose(n) : Completes(s, c) => Completes(s, n)
                /\ Completes(s, n) => \E c \in decompose(n) : Completes(s, c)
                /\ \A c, d \in decompose(n) : Completes(s, c) /\ Completes(s, d) => c = d
<1>0. PICK e \in Ends(n) :
            decompose(n) = {ChildAt(n, e, Siblings(n, e), Off(n), j) : j \in Free(n)}
    BY DecomposeChildren
<1>1. PICK ns, off : decompose(n) = {ChildAt(n, e, ns, off, j) : j \in Free(n)}
    BY <1>0
<1>. DEFINE raw(j) == create_raw_problem3(n, j, e)
            kid(j) == ChildAt(n, e, ns, off, j)
<1>2. ASSUME NEW j \in Free(n)
      PROVE  /\ WellFormed(kid(j)) /\ WellFormed(raw(j))
             /\ kid(j).couts_somme = bornes_calculer(tables, raw(j))
             /\ kid(j).permutation = raw(j).permutation
             /\ leaf(kid(j)) <=> leaf(raw(j))
             /\ \A s : Completes(s, kid(j)) <=> Completes(s, raw(j))
  <2>1. /\ kid(j).permutation = raw(j).permutation
        /\ kid(j).limite1 = raw(j).limite1 /\ kid(j).limite2 = raw(j).limite2
        /\ kid(j).depth = raw(j).depth
        /\ kid(j).couts_somme = bornes_calculer(tables, raw(j))
      BY ChildOf
  <2>2. WellFormed(raw(j))
      BY ChildWellFormed
  <2>. HIDE DEF raw, kid
  <2>3. WellFormed(kid(j))
      BY <2>1, <2>2 DEF WellFormed
  <2>4. leaf(kid(j)) <=> leaf(raw(j))
      BY <2>1 DEF leaf
  <2>5. \A s : Completes(s, kid(j)) <=> Completes(s, raw(j))
      BY <2>1 DEF Completes
  <2>. QED
      BY <2>1, <2>2, <2>3, <2>4, <2>5
<1>3. ASSUME NEW s \in Schedule, NEW j \in Free(n)
      PROVE  Completes(s, kid(j)) <=> Completes(s, n) /\ s[End(n, e)] = n.permutation[j]
  <2>1. Completes(s, raw(j)) <=> Completes(s, n) /\ s[End(n, e)] = n.permutation[j]
      BY ChildCompletions
  <2>. HIDE DEF raw, kid
  <2>. QED
      BY <1>2, <2>1
<1>4. decompose(n) = {kid(j) : j \in Free(n)}
    BY <1>1
<1>5. ASSUME NEW s \in Schedule, Completes(s, n)
      PROVE  \E j \in Free(n) : s[End(n, e)] = n.permutation[j]
    BY <1>5, SomeChild
<1>6. ASSUME NEW i \in Free(n), NEW j \in Free(n), n.permutation[i] = n.permutation[j]
      PROVE  i = j
  <2>1. n.permutation \in Schedule /\ i \in Position /\ j \in Position
      BY FreeFacts DEF WellFormed
  <2>. QED
      BY <2>1, <1>6, ScheduleFacts
<1>. HIDE DEF raw, kid
<1>7. \A c \in decompose(n) : WellFormed(c) /\ FromRaw(c)
  <2>1. SUFFICES ASSUME NEW j \in Free(n)
                 PROVE  WellFormed(kid(j)) /\ FromRaw(kid(j))
      BY <1>4
  <2>. QED
      BY <1>2 DEF FromRaw
<1>8. ASSUME NEW s \in Schedule
      PROVE  /\ \A c \in decompose(n) : Completes(s, c) => Completes(s, n)
             /\ Completes(s, n) => \E c \in decompose(n) : Completes(s, c)
             /\ \A c, d \in decompose(n) : Completes(s, c) /\ Completes(s, d) => c = d
  <2>1. \A c \in decompose(n) : Completes(s, c) => Completes(s, n)
      BY <1>3, <1>4
  <2>2. Completes(s, n) => \E c \in decompose(n) : Completes(s, c)
      BY <1>3, <1>4, <1>5
  <2>3. \A c, d \in decompose(n) : Completes(s, c) /\ Completes(s, d) => c = d
      BY <1>3, <1>4, <1>6
  <2>. QED
      BY <2>1, <2>2, <2>3
<1>. QED
    BY <1>7, <1>8

-----------------------------------------------------------------------------
(* The part of the invariant that no cost can disturb. *)
SearchInv == (\A p \in tree : WellFormed(p)) /\ NoScheduleTwice

LEMMA RootWellFormed == WellFormed(Root) /\ ~leaf(Root)
<1>. DEFINE f == [j \in Position |-> j]
<1>1. f \in Schedule
    BY DEF Schedule
<1>. HIDE DEF f
<1>2. /\ -1 \in -1 .. Size - 1 /\ Size \in 0 .. Size /\ 0 \in 0 .. Size
      /\ 0 # Size - 1 /\ 0 # Size /\ Size - (-1) - 1 = Size - 0
    BY SizeFacts
<1>3. /\ Root.permutation = f /\ Root.limite1 = -1 /\ Root.limite2 = Size
      /\ Root.depth = 0
    BY DEF Root, f
<1>4. WellFormed(Root)
    BY <1>1, <1>2, <1>3 DEF WellFormed
<1>. QED
    BY <1>2, <1>3, <1>4 DEF leaf

LEMMA SearchInvInit == Init => SearchInv
BY RootWellFormed DEF Init, SearchInv, NoScheduleTwice

(* Taking a subproblem away keeps the invariant. *)
LEMMA SearchInvFewer ==
    ASSUME SearchInv, tree' \subseteq tree
    PROVE  SearchInv'
<1>1. \A p \in tree' : WellFormed(p)
    BY DEF SearchInv
<1>2. \A s \in Schedule : \A p, q \in {r \in tree' : Completes(s, r)} : p = q
    BY DEF SearchInv, NoScheduleTwice
<1>3. NoScheduleTwice'
    BY <1>2 DEF NoScheduleTwice, Completes, Schedule, Position
<1>. QED
    BY <1>1, <1>3 DEF SearchInv, WellFormed, Schedule, Position

LEMMA SearchInvBranch ==
    ASSUME SearchInv, NEW n \in tree, ~leaf(n), tree' = (tree \ {n}) \cup decompose(n)
    PROVE  SearchInv'
<1>1. WellFormed(n)
    BY DEF SearchInv
<1>. DEFINE D == decompose(n)
<1>2. /\ \A c \in D : WellFormed(c)
      /\ \A s \in Schedule :
            /\ \A c \in D : Completes(s, c) => Completes(s, n)
            /\ \A c, d \in D : Completes(s, c) /\ Completes(s, d) => c = d
    BY <1>1, Decomposed
<1>. HIDE DEF D
<1>3. tree' = (tree \ {n}) \cup D
    BY DEF D
<1>4. \A p \in tree' : WellFormed(p)
    BY <1>2, <1>3 DEF SearchInv
<1>5. ASSUME NEW s \in Schedule, NEW p \in tree', NEW q \in tree',
             Completes(s, p), Completes(s, q)
      PROVE  p = q
  <2>1. \A x, y \in tree : Completes(s, x) /\ Completes(s, y) => x = y
      BY DEF SearchInv, NoScheduleTwice
  <2>2. ASSUME NEW x \in tree \ {n}, NEW c \in D, Completes(s, x), Completes(s, c)
        PROVE  FALSE
      BY <2>1, <2>2, <1>2
  <2>. QED
      BY <2>1, <2>2, <1>2, <1>3, <1>5
<1>6. NoScheduleTwice'
    BY ZenonT(60), <1>5 DEF NoScheduleTwice, Completes, Schedule, Position
<1>. QED
    BY <1>4, <1>6 DEF SearchInv, WellFormed, Schedule, Position

LEMMA SearchInvNext == SearchInv /\ [Next]_vars => SearchInv'
<1>. SUFFICES ASSUME SearchInv, [Next]_vars PROVE SearchInv'
    OBVIOUS
<1>1. ASSUME NEW n \in tree, Evaluate(n) PROVE SearchInv'
    BY <1>1, SearchInvFewer DEF Evaluate
<1>2. ASSUME NEW n \in tree, Branch(n) PROVE SearchInv'
    BY <1>2, SearchInvBranch DEF Branch
<1>3. ASSUME NEW n \in tree, Prune(n) PROVE SearchInv'
    BY <1>3, SearchInvFewer DEF Prune
<1>4. CASE Receive
    BY <1>4, SearchInvFewer DEF Receive
<1>5. CASE UNCHANGED vars
    BY <1>5, SearchInvFewer DEF vars
<1>. QED
    BY <1>1, <1>2, <1>3, <1>4, <1>5 DEF Next, Explore

(* No schedule is searched twice, for any number of jobs and whatever the *)
(* costs are: the children of _explore_cpu's branching never overlap.     *)
THEOREM SearchedOnce == Spec => []NoScheduleTwice
<1>1. SearchInv => NoScheduleTwice
    BY DEF SearchInv
<1>. QED
    BY <1>1, SearchInvInit, SearchInvNext, PTL DEF Spec

-----------------------------------------------------------------------------
(* What the tables of a run make of a subproblem: its cost is a number,    *)
(* and no more than the makespan of any schedule below it.                 *)
Admits(t) ==
    /\ \A s \in Schedule : criteres_calculer(t, s) \in Nat
    /\ \A p : WellFormed(p) =>
        /\ bornes_calculer(t, p) \in Nat
        /\ \A s \in Schedule :
            Completes(s, p) => bornes_calculer(t, p) <= criteres_calculer(t, s)

LEMMA WellFormedFrame == ASSUME NEW p, WellFormed(p) PROVE Frame(p)
<1>1. /\ p.permutation \in Schedule /\ p.limite1 \in -1 .. Size - 1 /\ p.limite2 \in 0 .. Size
      /\ p.depth \in 0 .. Size /\ p.limite2 - p.limite1 - 1 = Size - p.depth /\ Size \in Nat
    BY SizeFacts DEF WellFormed
<1>2. p.limite1 < p.limite2
    BY <1>1
<1>. QED
    BY <1>1, <1>2 DEF Frame

LEMMA RunTables ==
    ASSUME \E tempsJob \in Instances : tables \in initialiserVar(tempsJob)
    PROVE  Tables(tables) /\ Admits(tables)
<1>1. PICK tempsJob \in Instances : tables \in initialiserVar(tempsJob)
    OBVIOUS
<1>2. tempsJob \in Times
    BY InstanceAssumption DEF Times
<1>3. Tables(tables)
    BY <1>1, <1>2, TablesMade
<1>4. Admits(tables)
    BY <1>3, MakespanType, BoundType, BoundBelow, WellFormedFrame DEF Admits
<1>. QED
    BY <1>3, <1>4

CostInv ==
    /\ SearchInv
    /\ \E tempsJob \in Instances : tables \in initialiserVar(tempsJob)
    /\ \A p \in tree : p.couts_somme \in Nat
    /\ wsltns \subseteq Nat
    /\ BoundAdmissible
    /\ NothingLost

(* A leaf has a single completion, its permutation, and costs its makespan. *)
LEMMA LeafCost ==
    ASSUME NEW t, NEW p, WellFormed(p), leaf(p), NEW s \in Schedule, Completes(s, p)
    PROVE  bornes_calculer(t, p) = criteres_calculer(t, s)
<1>1. /\ p.limite1 \in Int /\ p.limite2 \in Int /\ p.limite2 - p.limite1 = 1
      /\ p.permutation \in Schedule
    BY SizeFacts DEF WellFormed, leaf
<1>2. \A i \in Position : i <= p.limite1 \/ i >= p.limite2
    BY <1>1, SizeFacts
<1>3. s = p.permutation
  <2>1. s \in [Position -> Position] /\ p.permutation \in [Position -> Position]
      BY <1>1, ScheduleFacts
  <2>2. \A i \in Position : s[i] = p.permutation[i]
      BY <1>2 DEF Completes
  <2>. QED
      BY <2>1, <2>2
<1>. QED
    BY <1>1, <1>3 DEF bornes_calculer

LEMMA LeafComplete ==
    ASSUME NEW p, WellFormed(p), leaf(p)
    PROVE  p.permutation \in Schedule /\ Completes(p.permutation, p)
BY DEF WellFormed, Completes

(* A child costs no more than any of its completions. *)
LEMMA ChildCosts ==
    ASSUME Admits(tables), NEW n, WellFormed(n), ~leaf(n), NEW c \in decompose(n)
    PROVE  /\ c.couts_somme \in Nat
           /\ \A s \in Schedule : Completes(s, c) =>
                /\ c.couts_somme <= criteres_calculer(tables, s)
                /\ leaf(c) => c.couts_somme = criteres_calculer(tables, s)
<1>1. PICK r : /\ WellFormed(r) /\ c.couts_somme = bornes_calculer(tables, r)
               /\ leaf(c) <=> leaf(r)
               /\ \A s : Completes(s, c) <=> Completes(s, r)
  <2>1. FromRaw(c)
      BY Decomposed
  <2>. QED
      BY <2>1 DEF FromRaw
<1>. DEFINE b == bornes_calculer(tables, r)
<1>2. /\ b \in Nat
      /\ \A s \in Schedule : Completes(s, r) => b <= criteres_calculer(tables, s)
    BY <1>1 DEF Admits
<1>3. \A s \in Schedule : Completes(s, r) /\ leaf(r) => b = criteres_calculer(tables, s)
    BY <1>1, LeafCost
<1>4. c.couts_somme = b
    BY <1>1
<1>. HIDE DEF b
<1>. QED
    BY <1>1, <1>2, <1>3, <1>4

LEMMA CostInvInit == Init => CostInv
<1>. SUFFICES ASSUME Init PROVE CostInv
    OBVIOUS
<1>1. PICK tempsJob \in Instances : tables \in initialiserVar(tempsJob)
    BY DEF Init
<1>2. /\ tree = {Root} /\ wsltns = {} /\ WellFormed(Root) /\ ~leaf(Root)
      /\ Root.couts_somme = 0 /\ Root.limite1 = -1 /\ Root.limite2 = Size
    BY RootWellFormed DEF Init, Root
<1>3. Admits(tables)
    BY <1>1, RunTables
<1>4. \A s \in Schedule : criteres_calculer(tables, s) \in Nat
    BY <1>3 DEF Admits
<1>5. \A s \in Schedule : 0 <= criteres_calculer(tables, s)
    BY <1>4
<1>6. BoundAdmissible
    BY <1>2, <1>5 DEF BoundAdmissible
<1>7. \A s \in Schedule : Completes(s, Root)
    BY <1>2, SizeFacts DEF Completes
<1>8. NothingLost
    BY <1>2, <1>7 DEF NothingLost
<1>9. \A p \in tree : p.couts_somme \in Nat
    BY <1>2
<1>. QED
    BY <1>1, <1>2, <1>6, <1>8, <1>9, SearchInvInit DEF CostInv

(* A schedule as cheap as a cost that was kept still has one after insert, *)
(* and the cost inserted has one too.                                      *)
LEMMA InsertKeeps ==
    ASSUME wsltns \subseteq Nat, NEW cost \in Nat, insert(cost)
    PROVE  /\ wsltns' \subseteq Nat
           /\ \A m \in Nat :
                (cost <= m \/ \E i \in wsltns : i <= m) => \E i \in wsltns' : i <= m
<1>1. CASE inserable(cost)
  <2>1. wsltns' = {i \in wsltns : ~(cost <= i)} \cup {cost}
      BY <1>1 DEF insert
  <2>2. wsltns' \subseteq Nat /\ cost \in wsltns'
      BY <2>1
  <2>3. ASSUME NEW m \in Nat, NEW i \in wsltns, i <= m
        PROVE  \E k \in wsltns' : k <= m
    <3>1. CASE cost <= i
      <4>1. cost <= m
          BY <2>3, <3>1
      <4>. QED
          BY <2>2, <4>1
    <3>2. CASE ~(cost <= i)
        BY <2>1, <2>3, <3>2
    <3>. QED
        BY <3>1, <3>2
  <2>. QED
      BY <2>2, <2>3
<1>2. CASE ~inserable(cost)
  <2>1. wsltns' = wsltns /\ \E i \in wsltns : i <= cost
      BY <1>2 DEF insert, inserable
  <2>2. ASSUME NEW m \in Nat, cost <= m PROVE \E i \in wsltns : i <= m
    <3>1. PICK i \in wsltns : i <= cost
        BY <2>1
    <3>2. i <= m
        BY <3>1, <2>2
    <3>. QED
        BY <3>2
  <2>. QED
      BY <2>1, <2>2
<1>. QED
    BY <1>1, <1>2

(* BoundAdmissible and NothingLost after a step, said without primes on *)
(* the operators: the tables never change.                               *)
LEMMA PrimedProperties ==
    ASSUME tables' = tables
    PROVE  /\ BoundAdmissible' <=>
                \A p \in tree' : \A s \in Schedule :
                    Completes(s, p) =>
                        /\ p.couts_somme <= criteres_calculer(tables, s)
                        /\ leaf(p) => p.couts_somme = criteres_calculer(tables, s)
           /\ NothingLost' <=>
                \A s \in Schedule :
                    \/ \E p \in tree' : Completes(s, p)
                    \/ \E cost \in wsltns' : cost <= criteres_calculer(tables, s)
BY DEF BoundAdmissible, NothingLost

LEMMA CostInvNext == CostInv /\ [Next]_vars => CostInv'
<1>. SUFFICES ASSUME CostInv, [Next]_vars PROVE CostInv'
    OBVIOUS
<1>1. /\ SearchInv /\ SearchInv' /\ BoundAdmissible /\ NothingLost
      /\ wsltns \subseteq Nat
      /\ \A p \in tree : WellFormed(p) /\ p.couts_somme \in Nat
    BY SearchInvNext DEF CostInv, SearchInv
<1>2. PICK tempsJob \in Instances : tables \in initialiserVar(tempsJob)
    BY DEF CostInv
<1>3. Admits(tables)
    BY <1>2, RunTables
<1>4. tables' = tables
    BY DEF Next, Explore, Receive, vars
<1>5. \E x \in Instances : tables' \in initialiserVar(x)
    BY <1>2, <1>4
<1>. DEFINE cost(s) == criteres_calculer(tables, s)
<1>6. \A s \in Schedule : cost(s) \in Nat
    BY <1>3 DEF Admits
<1>7. \A p \in tree : \A s \in Schedule : Completes(s, p) =>
            p.couts_somme <= cost(s) /\ (leaf(p) => p.couts_somme = cost(s))
    BY <1>1 DEF BoundAdmissible
<1>8. \A s \in Schedule :
            (\E p \in tree : Completes(s, p)) \/ \E c \in wsltns : c <= cost(s)
    BY <1>1 DEF NothingLost
<1>9. ASSUME \A p \in tree' : p.couts_somme \in Nat,
             wsltns' \subseteq Nat,
             \A p \in tree' : \A s \in Schedule : Completes(s, p) =>
                p.couts_somme <= cost(s) /\ (leaf(p) => p.couts_somme = cost(s)),
             \A s \in Schedule :
                (\E p \in tree' : Completes(s, p)) \/ \E c \in wsltns' : c <= cost(s)
      PROVE  CostInv'
  <2>1. BoundAdmissible' /\ NothingLost'
      BY <1>4, <1>9, PrimedProperties
  <2>. QED
      BY <2>1, <1>1, <1>5, <1>9 DEF CostInv
<1>. HIDE DEF cost
<1>10. ASSUME NEW n \in tree, Evaluate(n) PROVE CostInv'
  <2>1. /\ leaf(n) /\ insert(n.couts_somme) /\ tree' = tree \ {n}
        /\ WellFormed(n) /\ n.couts_somme \in Nat
      BY <1>1, <1>10 DEF Evaluate
  <2>2. /\ wsltns' \subseteq Nat
        /\ \A m \in Nat : (n.couts_somme <= m \/ \E i \in wsltns : i <= m)
                                => \E i \in wsltns' : i <= m
      BY <1>1, <2>1, InsertKeeps
  <2>3. ASSUME NEW s \in Schedule
        PROVE  (\E p \in tree' : Completes(s, p)) \/ \E c \in wsltns' : c <= cost(s)
    <3>1. cost(s) \in Nat
        BY <1>6
    <3>2. CASE \E c \in wsltns : c <= cost(s)
        BY <2>2, <3>1, <3>2
    <3>3. CASE Completes(s, n)
      <4>1. n.couts_somme <= cost(s)
          BY <1>7, <3>3
      <4>. QED
          BY <2>2, <3>1, <4>1
    <3>4. CASE \E p \in tree \ {n} : Completes(s, p)
        BY <2>1, <3>4
    <3>. QED
        BY <1>8, <3>2, <3>3, <3>4
  <2>. QED
      BY <1>1, <1>7, <1>9, <2>1, <2>2, <2>3
<1>11. ASSUME NEW n \in tree, Branch(n) PROVE CostInv'
  <2>1. /\ ~leaf(n) /\ tree' = (tree \ {n}) \cup decompose(n) /\ wsltns' = wsltns
        /\ WellFormed(n)
      BY <1>1, <1>11 DEF Branch
  <2>. DEFINE D == decompose(n)
  <2>2. \A c \in D : /\ c.couts_somme \in Nat
                     /\ \A s \in Schedule : Completes(s, c) =>
                          c.couts_somme <= cost(s) /\ (leaf(c) => c.couts_somme = cost(s))
      BY <1>3, <2>1, ChildCosts DEF cost
  <2>3. \A s \in Schedule : Completes(s, n) => \E c \in D : Completes(s, c)
      BY <2>1, Decomposed
  <2>4. tree' = (tree \ {n}) \cup D
      BY <2>1
  <2>. HIDE DEF D
  <2>5. \A s \in Schedule :
            (\E p \in tree' : Completes(s, p)) \/ \E c \in wsltns' : c <= cost(s)
      BY <1>8, <2>1, <2>3, <2>4
  <2>. QED
      BY <1>1, <1>7, <1>9, <2>1, <2>2, <2>4, <2>5
<1>12. ASSUME NEW n \in tree, Prune(n) PROVE CostInv'
  <2>1. /\ tree' = tree \ {n} /\ wsltns' = wsltns /\ n.couts_somme \in Nat
        /\ \E i \in wsltns : i <= n.couts_somme
      BY <1>1, <1>12 DEF Prune, inserable
  <2>2. ASSUME NEW s \in Schedule, Completes(s, n) PROVE \E c \in wsltns : c <= cost(s)
    <3>1. PICK i \in wsltns : i <= n.couts_somme
        BY <2>1
    <3>2. n.couts_somme <= cost(s) /\ cost(s) \in Nat /\ i \in Nat
        BY <1>1, <1>6, <1>7, <2>2
    <3>3. i <= cost(s)
        BY <2>1, <3>1, <3>2
    <3>. QED
        BY <3>3
  <2>3. \A s \in Schedule :
            (\E p \in tree' : Completes(s, p)) \/ \E c \in wsltns' : c <= cost(s)
      BY <1>8, <2>1, <2>2
  <2>. QED
      BY <1>1, <1>7, <1>9, <2>1, <2>3
<1>13. CASE Receive
  <2>1. PICK r \in Schedule : insert(cost(r)) /\ tree' = tree
      BY <1>13 DEF Receive, cost
  <2>2. cost(r) \in Nat
      BY <1>6
  <2>3. /\ wsltns' \subseteq Nat
        /\ \A m \in Nat : (\E i \in wsltns : i <= m) => \E i \in wsltns' : i <= m
      BY <1>1, <2>1, <2>2, InsertKeeps
  <2>4. \A s \in Schedule :
            (\E p \in tree' : Completes(s, p)) \/ \E c \in wsltns' : c <= cost(s)
      BY <1>6, <1>8, <2>1, <2>3
  <2>. QED
      BY <1>1, <1>7, <1>9, <2>1, <2>3, <2>4
<1>14. CASE UNCHANGED vars
  <2>1. tree' = tree /\ wsltns' = wsltns
      BY <1>14 DEF vars
  <2>. QED
      BY <1>1, <1>7, <1>8, <1>9, <2>1
<1>. QED
    BY <1>10, <1>11, <1>12, <1>13, <1>14 DEF Next, Explore

(* No better schedule is lost, and every open subproblem carries a lower   *)
(* bound, for every number of jobs and machines, every instance and both   *)
(* orders of exploration, whatever arrives from other peers.               *)
THEOREM NoBetterScheduleLost == Spec => [](NothingLost /\ BoundAdmissible)
<1>1. Init => CostInv
    BY CostInvInit
<1>2. CostInv /\ [Next]_vars => CostInv'
    BY CostInvNext
<1>3. CostInv => NothingLost /\ BoundAdmissible
    BY DEF CostInv
<1>. QED
    BY <1>1, <1>2, <1>3, PTL DEF Spec

-----------------------------------------------------------------------------
(* Types and ranks.  All they ask of FlowshopBound is that costs are       *)
(* natural numbers.                                                        *)
Numbers(t) ==
    /\ \A s \in Schedule : criteres_calculer(t, s) \in Nat
    /\ \A p : WellFormed(p) => bornes_calculer(t, p) \in Nat

(* The last rank of a subproblem that has been set. *)
Level(p) == IF leaf(p) THEN Size - 1 ELSE p.depth

FirstApart(p, q, d) ==
    /\ d <= Level(p) /\ d <= Level(q)
    /\ p.ranks[d] # q.ranks[d]
    /\ \A e \in 0 .. d - 1 : p.ranks[e] = q.ranks[e]

(* Any two open subproblems part where both have a rank. *)
RanksApart ==
    /\ \A p \in tree : p.ranks \in [0 .. Size -> Nat]
    /\ \A p, q \in tree : p # q => \E d \in 0 .. Size : FirstApart(p, q, d)

(* Depth first, what comes first in the order is not the shallower. *)
DeepestFirst == strategy = "d" => \A p, q \in tree : Deeper(p, q) => Level(p) >= Level(q)

(* Down to level l there are the siblings along one path, and once        *)
(* something deeper is open one of them less.                              *)
DownTo(l) == {p \in tree : Level(p) <= l}
LevelsSmall ==
    strategy = "d" => \A l \in 0 .. Size - 1 :
        2 * Cardinality(DownTo(l)) <= l * (2 * Size - 1 - l)
                                    + (IF \E p \in tree : Level(p) > l THEN 0 ELSE 2)

LevelInv ==
    SearchInv /\ TypeOK /\ RanksApart /\ IsFiniteSet(tree) /\ DeepestFirst /\ LevelsSmall

Sorted(ns, x) == {y \in ns : Before(y, x)}

(* Siblings have different jobs, so Before is a strict order of them and  *)
(* no two have as many before them.                                        *)
LEMMA SiblingRanks ==
    ASSUME NEW ns, IsFiniteSet(ns),
           \A x \in ns : x.couts_somme \in Nat /\ x.job \in Int
    PROVE  /\ \A c \in ns : Cardinality(Sorted(ns, c)) \in Nat
           /\ \A c, d \in ns : c.job # d.job =>
                 Cardinality(Sorted(ns, c)) # Cardinality(Sorted(ns, d))
<1>1. ASSUME NEW x \in ns
      PROVE  IsFiniteSet(Sorted(ns, x)) /\ Cardinality(Sorted(ns, x)) \in Nat
  <2>1. Sorted(ns, x) \in SUBSET ns
      BY DEF Sorted
  <2>. QED
      BY <2>1, FS_Subset, FS_CardinalityType
<1>2. ASSUME NEW x \in ns, NEW y \in ns, Before(x, y)
      PROVE  Cardinality(Sorted(ns, x)) # Cardinality(Sorted(ns, y))
  <2>1. \A z \in ns : Before(z, x) => Before(z, y)
      BY <1>2 DEF Before
  <2>2. ~Before(x, x)
      BY DEF Before
  <2>3. Sorted(ns, x) \in SUBSET Sorted(ns, y)
      BY <2>1 DEF Sorted
  <2>4. Sorted(ns, y) # Sorted(ns, x)
      BY <1>2, <2>2 DEF Sorted
  <2>. QED
      BY <1>1, <2>3, <2>4, FS_Subset
<1>3. \A c, d \in ns : c.job # d.job => Before(c, d) \/ Before(d, c)
    BY DEF Before
<1>. QED
    BY <1>1, <1>2, <1>3

(* A child has its father's ranks and one more. *)
LEMMA ChildRanks ==
    ASSUME Numbers(tables), NEW n, WellFormed(n), ~leaf(n), n.ranks \in [0 .. Size -> Nat],
           NEW e \in Ends(n), NEW j \in Free(n), NEW ns
    PROVE  LET c == ChildAt(n, e, ns, Off(n), j)
               v == Evaluated(create_raw_problem3(n, j, e))
           IN  /\ c.ranks = [n.ranks EXCEPT ![n.depth + 1] = Cardinality(Sorted(ns, v))]
               /\ Level(c) = n.depth + 1
               /\ v.couts_somme \in Nat /\ v.job = n.permutation[j]
<1>. DEFINE r == create_raw_problem3(n, j, e)
            v == Evaluated(r)
            c == ChildAt(n, e, ns, Off(n), j)
            k == Cardinality(Sorted(ns, v))
<1>1. /\ r.ranks = n.ranks /\ r.job = n.permutation[j] /\ WellFormed(r)
      /\ r.depth = IF simple(n) THEN Size ELSE n.depth + 1
    BY ChildWellFormed, ChildFields DEF create_raw_problem3
<1>2. /\ v.ranks = r.ranks /\ v.job = r.job /\ v.depth = r.depth
      /\ v.couts_somme = bornes_calculer(tables, r)
    BY DEF Evaluated, create_raw_problem3
<1>3. c.ranks = [v.ranks EXCEPT ![v.depth - Off(n)] = k] /\ c.depth = v.depth
    BY DEF ChildAt, Numbered, Sorted, Evaluated, create_raw_problem3
<1>. HIDE DEF r, v, c, k
<1>4. v.depth - Off(n) = n.depth + 1 /\ Level(c) = n.depth + 1
    BY SMTT(30), <1>1, <1>2, <1>3, FreeFacts, SizeFacts DEF Off, Level, leaf, simple
<1>5. v.couts_somme \in Nat
    BY <1>1, <1>2 DEF Numbers
<1>6. /\ c.ranks = [n.ranks EXCEPT ![n.depth + 1] = k]
      /\ v.job = n.permutation[j]
    BY <1>1, <1>2, <1>3, <1>4
<1>. QED
    BY <1>4, <1>5, <1>6 DEF r, v, c, k

LEMMA OpenPositions ==
    ASSUME NEW l1 \in Int, NEW l2 \in Int, NEW d \in Int, l2 - l1 >= 3, l2 - l1 = Size - d + 1
    PROVE  /\ IsFiniteSet(l1 + 1 .. l2 - 1)
           /\ Cardinality(l1 + 1 .. l2 - 1) = Size - d
<1>. PICK a \in Int, b \in Int : a = l1 + 1 /\ b = l2 - 1
    OBVIOUS
<1>1. a <= b /\ b - a + 1 = Size - d
    BY SizeFacts
<1>. QED
    BY SMTT(30), <1>1, FS_Interval

(* What branching does to ranks, levels and numbers. *)
LEMMA DecomposedRanks ==
    ASSUME Numbers(tables), NEW n, WellFormed(n), ~leaf(n), n.ranks \in [0 .. Size -> Nat]
    PROVE  /\ n.depth \in 0 .. Size - 2
           /\ \A c \in decompose(n) :
                /\ c.ranks \in [0 .. Size -> Nat] /\ Level(c) = n.depth + 1
                /\ \A d \in 0 .. n.depth : c.ranks[d] = n.ranks[d]
                /\ c.couts_somme \in Nat
           /\ \A c, d \in decompose(n) : c # d => c.ranks[n.depth + 1] # d.ranks[n.depth + 1]
           /\ IsFiniteSet(decompose(n)) /\ Cardinality(decompose(n)) = Size - n.depth
<1>1. PICK e \in Ends(n) :
            decompose(n) = {ChildAt(n, e, Siblings(n, e), Off(n), j) : j \in Free(n)}
    BY DecomposeChildren
<1>. DEFINE ns == Siblings(n, e)
            v(j) == Evaluated(create_raw_problem3(n, j, e))
            kid(j) == ChildAt(n, e, ns, Off(n), j)
            k(j) == Cardinality(Sorted(ns, v(j)))
<1>2. /\ n.depth \in 0 .. Size - 2
      /\ IsFiniteSet(Free(n)) /\ Cardinality(Free(n)) = Size - n.depth
      /\ Free(n) \subseteq Position
  <2>1. n.depth \in 0 .. Size - 2
    <3>1. n.depth \in 0 .. Size /\ n.depth # Size - 1 /\ n.depth # Size
        BY DEF WellFormed, leaf
    <3>. QED
        BY <3>1, SizeFacts
  <2>2. IsFiniteSet(Free(n)) /\ Cardinality(Free(n)) = Size - n.depth
    <3>1. /\ n.limite1 \in Int /\ n.limite2 \in Int /\ n.depth \in Int
          /\ n.limite2 - n.limite1 >= 3 /\ n.limite2 - n.limite1 = Size - n.depth + 1
        BY FreeFacts
    <3>. QED
        BY <3>1, OpenPositions DEF Free
  <2>. QED
      BY <2>1, <2>2, FreeFacts
<1>3. ASSUME NEW j \in Free(n)
      PROVE  /\ kid(j).ranks = [n.ranks EXCEPT ![n.depth + 1] = k(j)]
             /\ Level(kid(j)) = n.depth + 1
             /\ v(j).couts_somme \in Nat /\ v(j).job = n.permutation[j]
             /\ kid(j).couts_somme = v(j).couts_somme
  <2>1. kid(j).couts_somme = v(j).couts_somme
      BY DEF ChildAt, Numbered, Evaluated, create_raw_problem3
  <2>. QED
      BY <2>1, ChildRanks
<1>4. /\ \A j \in Free(n) : n.permutation[j] \in Int
      /\ \A i, j \in Free(n) : i # j => n.permutation[i] # n.permutation[j]
  <2>1. /\ n.permutation \in [Position -> Position]
        /\ \A i, j \in Position : n.permutation[i] = n.permutation[j] => i = j
      BY ScheduleFacts DEF WellFormed
  <2>2. \A j \in Free(n) : n.permutation[j] \in Int
      BY <1>2, <2>1, SizeFacts
  <2>3. \A i, j \in Free(n) : i # j => n.permutation[i] # n.permutation[j]
      BY Zenon, <1>2, <2>1
  <2>. QED
      BY <2>2, <2>3
<1>5. ns = {v(j) : j \in Free(n)} /\ decompose(n) = {kid(j) : j \in Free(n)}
    BY <1>1 DEF Siblings
<1>. HIDE DEF ns, v, kid, k
<1>6. IsFiniteSet(ns)
  <2>. DEFINE f == [j \in Free(n) |-> v(j)]
  <2>1. f \in Surjection(Free(n), ns)
      BY <1>5 DEF Surjection
  <2>. QED
      BY <1>2, <2>1, FS_Surjection
<1>8. \A x \in ns : x.couts_somme \in Nat /\ x.job \in Int
  <2>1. \A j \in Free(n) : v(j).couts_somme \in Nat /\ v(j).job \in Int
      BY <1>3, <1>4
  <2>. QED
      BY <1>5, <2>1
<1>9. /\ \A j \in Free(n) : k(j) \in Nat
      /\ \A i, j \in Free(n) : i # j => k(i) # k(j)
  <2>1. \A j \in Free(n) : v(j) \in ns
      BY <1>5
  <2>2. \A i, j \in Free(n) : i # j => v(i).job # v(j).job
    <3>1. \A j \in Free(n) : v(j).job = n.permutation[j]
        BY <1>3
    <3>. QED
        BY Zenon, <1>4, <3>1
  <2>3. /\ \A c \in ns : Cardinality(Sorted(ns, c)) \in Nat
        /\ \A c, d \in ns : c.job # d.job =>
              Cardinality(Sorted(ns, c)) # Cardinality(Sorted(ns, d))
      BY <1>6, <1>8, SiblingRanks
  <2>. QED
      BY <2>1, <2>2, <2>3 DEF k
<1>10. n.depth + 1 \in 0 .. Size /\ \A d \in 0 .. n.depth : d \in 0 .. Size /\ d # n.depth + 1
    BY SMTT(30), <1>2, SizeFacts
<1>11. \A j \in Free(n) :
          /\ kid(j).ranks \in [0 .. Size -> Nat] /\ kid(j).ranks[n.depth + 1] = k(j)
          /\ \A d \in 0 .. n.depth : kid(j).ranks[d] = n.ranks[d]
  <2>1. ASSUME NEW m, NEW a \in Nat, m = [n.ranks EXCEPT ![n.depth + 1] = a]
        PROVE  /\ m \in [0 .. Size -> Nat] /\ m[n.depth + 1] = a
               /\ \A d \in 0 .. n.depth : m[d] = n.ranks[d]
      BY <1>10, <2>1
  <2>2. \A j \in Free(n) : /\ k(j) \in Nat
                           /\ kid(j).ranks = [n.ranks EXCEPT ![n.depth + 1] = k(j)]
      BY <1>3, <1>9
  <2>. QED
      BY <2>1, <2>2
<1>12. \A c \in decompose(n) :
          /\ c.ranks \in [0 .. Size -> Nat] /\ Level(c) = n.depth + 1
          /\ \A d \in 0 .. n.depth : c.ranks[d] = n.ranks[d]
          /\ c.couts_somme \in Nat
  <2>1. \A j \in Free(n) : Level(kid(j)) = n.depth + 1 /\ kid(j).couts_somme \in Nat
      BY <1>3
  <2>. QED
      BY <1>5, <1>11, <2>1
<1>13. \A c, d \in decompose(n) : c # d => c.ranks[n.depth + 1] # d.ranks[n.depth + 1]
    BY <1>5, <1>9, <1>11
<1>14. IsFiniteSet(decompose(n)) /\ Cardinality(decompose(n)) = Size - n.depth
  <2>. DEFINE f == [j \in Free(n) |-> kid(j)]
  <2>1. f \in Surjection(Free(n), decompose(n))
      BY <1>5 DEF Surjection
  <2>2. \A i, j \in Free(n) : i # j => f[i] # f[j]
      BY <1>9, <1>11
  <2>. HIDE DEF f
  <2>3. f \in Injection(Free(n), decompose(n))
      BY <2>1, <2>2 DEF Surjection, Injection, IsInjective
  <2>4. IsFiniteSet(decompose(n)) /\ Cardinality(decompose(n)) = Cardinality(Free(n))
      BY <1>2, <2>1, <2>3, FS_Surjection
  <2>. QED
      BY <1>2, <2>4
<1>. QED
    BY <1>2, <1>12, <1>13, <1>14

(* Two places where a pair differs first are the same place. *)
LEMMA FirstIsOne ==
    ASSUME NEW p, NEW q, NEW c \in 0 .. Size, NEW d \in 0 .. Size,
           p.ranks[c] # q.ranks[c], \A e \in 0 .. c - 1 : p.ranks[e] = q.ranks[e],
           p.ranks[d] # q.ranks[d], \A e \in 0 .. d - 1 : p.ranks[e] = q.ranks[e]
    PROVE  c = d
<1>1. ~(c < d) /\ ~(d < c)
    BY SizeFacts
<1>. QED
    BY <1>1, SizeFacts

LEMMA LevelRange ==
    ASSUME NEW p, WellFormed(p)
    PROVE  Level(p) \in 0 .. Size - 1 /\ (~leaf(p) => Level(p) = p.depth)
<1>1. p.depth \in 0 .. Size /\ p.depth # Size - 1
    BY DEF WellFormed
<1>. QED
    BY <1>1, SizeFacts DEF Level, leaf

(* A bound that one more sibling a level takes to the next. *)
LEMMA Slope ==
    ASSUME NEW n \in Nat, NEW m \in Nat, NEW l \in Nat, m <= l, l <= n - 1
    PROVE  m * (2 * n - 1 - m) <= l * (2 * n - 1 - l)
<1>1. (l - m) * (2 * n - 1 - l - m) >= 0
  <2>1. l - m \in Nat /\ 2 * n - 1 - l - m \in Nat
      OBVIOUS
  <2>. QED
      BY <2>1
<1>2. l * (2 * n - 1 - l) = m * (2 * n - 1 - m) + (l - m) * (2 * n - 1 - l - m)
    OBVIOUS
<1>3. m * (2 * n - 1 - m) \in Int /\ (l - m) * (2 * n - 1 - l - m) \in Int
    OBVIOUS
<1>. QED
    BY <1>1, <1>2, <1>3

LEMMA NextSlope ==
    ASSUME NEW n \in Nat, NEW m \in Nat
    PROVE  /\ m * (2 * n - 1 - m) \in Int /\ (m + 1) * (2 * n - 1 - (m + 1)) \in Int
           /\ (m + 1) * (2 * n - 1 - (m + 1)) = m * (2 * n - 1 - m) + 2 * (n - m) - 2
OBVIOUS

(* The properties after a step, without primes on the operators. *)
LEMMA PrimedLevels ==
    /\ RanksApart' <=>
          /\ \A p \in tree' : p.ranks \in [0 .. Size -> Nat]
          /\ \A p, q \in tree' : p # q => \E d \in 0 .. Size : FirstApart(p, q, d)
    /\ DeepestFirst' <=>
          (strategy' = "d" => \A p, q \in tree' : Deeper(p, q) => Level(p) >= Level(q))
    /\ \A l : DownTo(l)' = {p \in tree' : Level(p) <= l}
    /\ LevelsSmall' <=>
          (strategy' = "d" => \A l \in 0 .. Size - 1 :
              2 * Cardinality({p \in tree' : Level(p) <= l}) <= l * (2 * Size - 1 - l)
                    + (IF \E p \in tree' : Level(p) > l THEN 0 ELSE 2))
BY DEF RanksApart, DeepestFirst, DownTo, LevelsSmall

(* The bound on the levels in a set of subproblems. *)
FewUpTo(T) ==
    \A l \in 0 .. Size - 1 :
        2 * Cardinality({p \in T : Level(p) <= l}) <= l * (2 * Size - 1 - l)
              + (IF \E p \in T : Level(p) > l THEN 0 ELSE 2)

LEMMA FewerUpTo ==
    ASSUME NEW T, IsFiniteSet(T), NEW U \in SUBSET T, FewUpTo(T)
    PROVE  FewUpTo(U)
<1>. SUFFICES ASSUME NEW l \in 0 .. Size - 1
              PROVE  2 * Cardinality({p \in U : Level(p) <= l}) <= l * (2 * Size - 1 - l)
                           + (IF \E p \in U : Level(p) > l THEN 0 ELSE 2)
    BY DEF FewUpTo
<1>. DEFINE A == {p \in T : Level(p) <= l}
            B == {p \in U : Level(p) <= l}
<1>1. /\ A \in SUBSET T /\ B \in SUBSET A
      /\ 2 * Cardinality(A) <= l * (2 * Size - 1 - l)
                               + (IF \E p \in T : Level(p) > l THEN 0 ELSE 2)
    BY DEF FewUpTo
<1>. HIDE DEF A, B
<1>2. Cardinality(A) \in Nat /\ Cardinality(B) \in Nat /\ Cardinality(B) <= Cardinality(A)
  <2>1. IsFiniteSet(A)
      BY <1>1, FS_Subset
  <2>2. IsFiniteSet(B) /\ Cardinality(B) <= Cardinality(A)
      BY <1>1, <2>1, FS_Subset
  <2>. QED
      BY <2>1, <2>2, FS_CardinalityType
<1>3. (\E p \in U : Level(p) > l) => \E p \in T : Level(p) > l
    OBVIOUS
<1>4. l * (2 * Size - 1 - l) \in Int
    BY SizeFacts
<1>5. 2 * Cardinality(B) <= l * (2 * Size - 1 - l)
                            + (IF \E p \in U : Level(p) > l THEN 0 ELSE 2)
    BY <1>1, <1>2, <1>3, <1>4
<1>. QED
    BY <1>5 DEF B

(* Replacing the deepest by its children, one level down. *)
LEMMA BranchUpTo ==
    ASSUME NEW T, IsFiniteSet(T), FewUpTo(T), NEW n \in T, NEW k \in 0 .. Size - 2,
           Level(n) = k, \A q \in T : Level(q) \in 0 .. k,
           NEW D, IsFiniteSet(D), Cardinality(D) <= Size - k, \A c \in D : Level(c) = k + 1
    PROVE  FewUpTo((T \ {n}) \cup D)
<1>. DEFINE U == (T \ {n}) \cup D
<1>. SUFFICES ASSUME NEW l \in 0 .. Size - 1
              PROVE  2 * Cardinality({p \in U : Level(p) <= l}) <= l * (2 * Size - 1 - l)
                           + (IF \E p \in U : Level(p) > l THEN 0 ELSE 2)
    BY DEF FewUpTo
<1>. DEFINE card == Cardinality({p \in U : Level(p) <= l})
            room == l * (2 * Size - 1 - l)
<1>0. ASSUME card \in Nat, 2 * card <= room
      PROVE  2 * card <= room + (IF \E p \in U : Level(p) > l THEN 0 ELSE 2)
  <2>1. room \in Int
      BY SizeFacts
  <2>. HIDE DEF card, room
  <2>. QED
      BY <1>0, <2>1
<1>1. /\ Size \in Nat /\ k \in Nat /\ l \in Nat /\ l <= Size - 1
      /\ \A m \in Nat : m * (2 * Size - 1 - m) \in Int
    BY SizeFacts
<1>2. /\ Cardinality(T) \in Nat /\ IsFiniteSet(T \ {n})
      /\ Cardinality(T \ {n}) = Cardinality(T) - 1
      /\ Cardinality(D) \in Nat
    BY FS_CardinalityType, FS_RemoveElement
<1>3. CASE l < k
  <2>1. {p \in U : Level(p) <= l} = {p \in T : Level(p) <= l}
      BY <1>1, <1>3
  <2>2. 2 * Cardinality({p \in T : Level(p) <= l}) <= l * (2 * Size - 1 - l)
    <3>1. \E p \in T : Level(p) > l
        BY <1>1, <1>3
    <3>. QED
        BY <1>1, <3>1 DEF FewUpTo
  <2>3. Cardinality({p \in T : Level(p) <= l}) \in Nat
    <3>1. {p \in T : Level(p) <= l} \in SUBSET T
        OBVIOUS
    <3>. QED
        BY <3>1, FS_Subset, FS_CardinalityType
  <2>. QED
      BY <1>0, <2>1, <2>2, <2>3
<1>4. 2 * Cardinality(T) <= k * (2 * Size - 1 - k) + 2
  <2>1. {p \in T : Level(p) <= k} = T
      BY <1>1
  <2>2. k \in 0 .. Size - 1
      BY <1>1
  <2>3. 2 * Cardinality(T) <= k * (2 * Size - 1 - k)
                              + (IF \E p \in T : Level(p) > k THEN 0 ELSE 2)
      BY <2>1, <2>2 DEF FewUpTo
  <2>. QED
      BY <1>1, <1>2, <2>3
<1>5. CASE l = k
  <2>1. {p \in U : Level(p) <= l} = T \ {n}
      BY <1>1, <1>5
  <2>2. Cardinality(T \ {n}) \in Nat /\ 2 * Cardinality(T \ {n}) <= k * (2 * Size - 1 - k)
      BY <1>1, <1>2, <1>4, FS_CardinalityType
  <2>. QED
      BY <1>0, <1>5, <2>1, <2>2
<1>6. CASE l > k
  <2>1. {p \in U : Level(p) <= l} = U
      BY <1>1, <1>6
  <2>2. Cardinality(U) \in Nat /\ Cardinality(U) <= Cardinality(T) - 1 + (Size - k)
    <3>1. IsFiniteSet(U)
          /\ Cardinality(U) = Cardinality(T \ {n}) + Cardinality(D)
                              - Cardinality((T \ {n}) \cap D)
        BY <1>2, FS_Union
    <3>2. Cardinality((T \ {n}) \cap D) \in Nat
      <4>1. (T \ {n}) \cap D \in SUBSET D
          OBVIOUS
      <4>. QED
          BY <4>1, FS_Subset, FS_CardinalityType
    <3>. HIDE DEF U
    <3>3. Cardinality(U) \in Nat
        BY <3>1, FS_CardinalityType
    <3>. QED
        BY <1>1, <1>2, <3>1, <3>2, <3>3
  <2>3. ~\E p \in U : Level(p) > l
      BY <1>1, <1>6
  <2>4. (k + 1) * (2 * Size - 1 - (k + 1)) = k * (2 * Size - 1 - k) + 2 * (Size - k) - 2
      BY <1>1, NextSlope
  <2>5. (k + 1) * (2 * Size - 1 - (k + 1)) <= l * (2 * Size - 1 - l)
    <3>1. k + 1 \in Nat /\ k + 1 <= l
        BY <1>1, <1>6
    <3>. QED
        BY <1>1, <3>1, Slope
  <2>. HIDE DEF U
  <2>6. 2 * Cardinality(U) <= l * (2 * Size - 1 - l) + 2
    <3>. PICK a \in Int, b \in Int, c \in Int :
            /\ a = k * (2 * Size - 1 - k) /\ b = (k + 1) * (2 * Size - 1 - (k + 1))
            /\ c = l * (2 * Size - 1 - l)
        BY <1>1, NextSlope
    <3>. QED
        BY <1>1, <1>2, <1>4, <2>2, <2>4, <2>5
  <2>. QED
      BY <2>1, <2>3, <2>6
<1>. QED
    BY <1>1, <1>3, <1>5, <1>6

(* insert keeps one schedule, the cheapest it has seen. *)
LEMMA InsertOne ==
    ASSUME wsltns \subseteq Nat, \A c, d \in wsltns : c = d,
           cout \in Nat, \A c \in wsltns : cout <= c,
           NEW cost \in Nat, insert(cost)
    PROVE  /\ wsltns' \subseteq Nat /\ \A c, d \in wsltns' : c = d
           /\ cout' \in Nat /\ \A c \in wsltns' : cout' <= c
<1>1. CASE inserable(cost)
  <2>1. wsltns' = {cost}
    <3>1. \A i \in wsltns : cost <= i
        BY <1>1 DEF inserable
    <3>. QED
        BY <1>1, <3>1 DEF insert
  <2>2. cout' = IF cout > cost THEN cost ELSE cout
      BY <1>1 DEF insert
  <2>. QED
      BY <2>1, <2>2
<1>2. CASE ~inserable(cost)
    BY <1>2 DEF insert
<1>. QED
    BY <1>1, <1>2

LEMMA LevelInvInit == Init => LevelInv
<1>. SUFFICES ASSUME Init PROVE LevelInv
    OBVIOUS
<1>1. /\ tree = {Root} /\ wsltns = {} /\ WellFormed(Root) /\ ~leaf(Root)
      /\ Root.couts_somme = 0 /\ Root.depth = 0 /\ Root.ranks \in [0 .. Size -> Nat]
    BY RootWellFormed DEF Init, Root
<1>2. TypeOK
    BY <1>1, InstanceAssumption DEF Init, TypeOK
<1>3. Level(Root) = 0
    BY <1>1 DEF Level
<1>4. RanksApart /\ DeepestFirst
    BY <1>1, <1>3 DEF RanksApart, DeepestFirst
<1>5. IsFiniteSet(tree) /\ Cardinality(tree) = 1
    BY <1>1, FS_Singleton
<1>6. LevelsSmall
  <2>. SUFFICES ASSUME NEW l \in 0 .. Size - 1
                PROVE  2 * Cardinality(DownTo(l)) <= l * (2 * Size - 1 - l)
                             + (IF \E p \in tree : Level(p) > l THEN 0 ELSE 2)
      BY DEF LevelsSmall
  <2>1. DownTo(l) = tree /\ ~\E p \in tree : Level(p) > l
      BY <1>1, <1>3 DEF DownTo
  <2>2. 0 <= l * (2 * Size - 1 - l) /\ l * (2 * Size - 1 - l) \in Int
    <3>1. 0 * (2 * Size - 1 - 0) <= l * (2 * Size - 1 - l)
        BY SizeFacts, Slope
    <3>2. l * (2 * Size - 1 - l) \in Int /\ 0 * (2 * Size - 1 - 0) = 0
        BY SizeFacts
    <3>. QED
        BY <3>1, <3>2
  <2>. QED
      BY <1>5, <2>1, <2>2
<1>. QED
    BY <1>2, <1>4, <1>5, <1>6, SearchInvInit DEF LevelInv

LEMMA LevelsFewer ==
    ASSUME LevelInv, tree' \subseteq tree, strategy' = strategy
    PROVE  RanksApart' /\ IsFiniteSet(tree') /\ DeepestFirst' /\ LevelsSmall'
<1>1. RanksApart' /\ DeepestFirst'
    BY PrimedLevels DEF LevelInv, RanksApart, DeepestFirst
<1>2. IsFiniteSet(tree')
    BY FS_Subset DEF LevelInv
<1>3. strategy' = "d" => FewUpTo(tree')
  <2>. SUFFICES ASSUME strategy = "d" PROVE FewUpTo(tree')
      OBVIOUS
  <2>1. FewUpTo(tree) /\ IsFiniteSet(tree)
      BY DEF LevelInv, LevelsSmall, DownTo, FewUpTo
  <2>. QED
      BY <2>1, FewerUpTo
<1>4. LevelsSmall'
    BY <1>3, PrimedLevels DEF FewUpTo
<1>. QED
    BY <1>1, <1>2, <1>4

LEMMA LevelsBranch ==
    ASSUME Numbers(tables), LevelInv, NEW n \in tree, top(n), ~leaf(n),
           tree' = (tree \ {n}) \cup decompose(n), strategy' = strategy
    PROVE  RanksApart' /\ IsFiniteSet(tree') /\ DeepestFirst' /\ LevelsSmall'
<1>. DEFINE D == decompose(n)
            k == n.depth
<1>1. /\ WellFormed(n) /\ n.ranks \in [0 .. Size -> Nat] /\ IsFiniteSet(tree)
      /\ \A p \in tree : p.ranks \in [0 .. Size -> Nat] /\ Level(p) \in 0 .. Size - 1
      /\ \A p, q \in tree : p # q => \E d \in 0 .. Size : FirstApart(p, q, d)
    BY LevelRange DEF LevelInv, SearchInv, RanksApart
<1>2. /\ k \in 0 .. Size - 2 /\ Level(n) = k
      /\ \A c \in D : /\ c.ranks \in [0 .. Size -> Nat] /\ Level(c) = k + 1
                      /\ \A d \in 0 .. k : c.ranks[d] = n.ranks[d]
      /\ \A c, d \in D : c # d => c.ranks[k + 1] # d.ranks[k + 1]
      /\ IsFiniteSet(D) /\ Cardinality(D) = Size - k
    BY <1>1, DecomposedRanks, LevelRange
<1>3. tree' = (tree \ {n}) \cup D
    OBVIOUS
<1>. HIDE DEF D, k
(* A child parts from the others where its father did, from a sibling at   *)
(* the new level.                                                          *)
<1>4. ASSUME NEW c \in D, NEW q \in tree \ {n}, NEW d \in 0 .. Size, FirstApart(n, q, d)
      PROVE  /\ FirstApart(c, q, d) /\ FirstApart(q, c, d)
             /\ c.ranks[d] = n.ranks[d] /\ \A e \in 0 .. d - 1 : c.ranks[e] = n.ranks[e]
  <2>1. d \in 0 .. k /\ d <= Level(q) /\ \A e \in 0 .. d - 1 : e \in 0 .. k
      BY <1>1, <1>2, <1>4 DEF FirstApart
  <2>2. c.ranks[d] = n.ranks[d] /\ \A e \in 0 .. d - 1 : c.ranks[e] = n.ranks[e]
      BY <1>2, <2>1
  <2>3. d <= Level(c)
      BY <1>2, <2>1
  <2>. QED
      BY <1>4, <2>1, <2>2, <2>3 DEF FirstApart
<1>5. ASSUME NEW c \in D, NEW b \in D, c # b
      PROVE  \E d \in 0 .. Size : FirstApart(c, b, d)
  <2>1. k + 1 \in 0 .. Size /\ k + 1 <= Level(c) /\ k + 1 <= Level(b)
        /\ \A e \in 0 .. k + 1 - 1 : e \in 0 .. k
      BY <1>2, SizeFacts
  <2>2. \A e \in 0 .. k + 1 - 1 : c.ranks[e] = b.ranks[e]
      BY <1>2, <2>1
  <2>. QED
      BY <1>2, <1>5, <2>1, <2>2 DEF FirstApart
<1>6. RanksApart'
  <2>1. \A p \in tree' : p.ranks \in [0 .. Size -> Nat]
      BY <1>1, <1>2, <1>3
  <2>2. \A c \in D : \A q \in tree \ {n} :
           \E d \in 0 .. Size : FirstApart(c, q, d) /\ FirstApart(q, c, d)
    <3>. SUFFICES ASSUME NEW c \in D, NEW q \in tree \ {n}
                  PROVE  \E d \in 0 .. Size : FirstApart(c, q, d) /\ FirstApart(q, c, d)
        OBVIOUS
    <3>1. PICK d \in 0 .. Size : FirstApart(n, q, d)
        BY <1>1
    <3>. QED
        BY <1>4, <3>1
  <2>3. ASSUME NEW p \in tree', NEW q \in tree', p # q
        PROVE  \E d \in 0 .. Size : FirstApart(p, q, d)
    <3>1. CASE p \in D /\ q \in D
        BY <1>5, <2>3, <3>1
    <3>2. CASE p \in D /\ q \in tree \ {n}
        BY <2>2, <3>2
    <3>3. CASE p \in tree \ {n} /\ q \in D
        BY <2>2, <3>3
    <3>4. CASE p \in tree \ {n} /\ q \in tree \ {n}
        BY <1>1, <2>3, <3>4
    <3>. QED
        BY <1>3, <3>1, <3>2, <3>3, <3>4
  <2>. QED
      BY <2>1, <2>3, PrimedLevels
<1>7. IsFiniteSet(tree')
  <2>1. IsFiniteSet(tree \ {n})
      BY <1>1, FS_RemoveElement
  <2>2. IsFiniteSet((tree \ {n}) \cup D)
    <3>1. IsFiniteSet(D)
        BY <1>2
    <3>. QED
        BY <2>1, <3>1, FS_Union
  <2>. QED
      BY <1>3, <2>2
(* Depth first, the others are no deeper, and come after the children. *)
<1>8. ASSUME strategy = "d", NEW q \in tree \ {n}
      PROVE  Level(q) <= k /\ \A c \in D : ~Deeper(q, c)
  <2>1. Deeper(n, q)
      BY <1>8 DEF top
  <2>2. Level(q) <= k
      BY <1>2, <1>8, <2>1 DEF LevelInv, DeepestFirst
  <2>3. PICK d \in 0 .. Size : FirstApart(n, q, d)
      BY <1>1
  <2>4. n.ranks[d] < q.ranks[d]
    <3>1. PICK a \in 0 .. Size : /\ n.ranks[a] < q.ranks[a]
                                 /\ \A e \in 0 .. a - 1 : n.ranks[e] = q.ranks[e]
        BY <2>1 DEF Deeper
    <3>2. n.ranks[a] # q.ranks[a]
      <4>1. n.ranks[a] \in Nat /\ q.ranks[a] \in Nat
          BY <1>1
      <4>. QED
          BY <3>1, <4>1
    <3>3. a = d
        BY <2>3, <3>1, <3>2, FirstIsOne DEF FirstApart
    <3>. QED
        BY <3>1, <3>3
  <2>5. ASSUME NEW c \in D, Deeper(q, c)
        PROVE  FALSE
    <3>1. PICK a \in 0 .. Size : /\ q.ranks[a] < c.ranks[a]
                                 /\ \A e \in 0 .. a - 1 : q.ranks[e] = c.ranks[e]
        BY <2>5 DEF Deeper
    <3>2. FirstApart(q, c, d) /\ c.ranks[d] = n.ranks[d]
        BY <1>4, <2>3
    <3>3. q.ranks[a] \in Nat /\ c.ranks[a] \in Nat /\ q.ranks[d] \in Nat /\ n.ranks[d] \in Nat
        BY <1>1, <1>2
    <3>4. a = d
      <4>1. q.ranks[a] # c.ranks[a]
          BY <3>1, <3>3
      <4>. QED
          BY <3>1, <3>2, <4>1, FirstIsOne DEF FirstApart
    <3>5. q.ranks[d] < n.ranks[d]
        BY <3>1, <3>2, <3>4
    <3>. QED
        BY <2>4, <3>3, <3>5
  <2>. QED
      BY <2>2, <2>5
<1>9. DeepestFirst'
  <2>. SUFFICES ASSUME strategy = "d", NEW p \in tree', NEW q \in tree', Deeper(p, q)
                PROVE  Level(p) >= Level(q)
      BY PrimedLevels
  <2>1. CASE p \in D
    <3>1. Level(p) = k + 1 /\ k \in Nat
        BY <1>2, <2>1
    <3>2. CASE q \in D
        BY <1>2, <3>1, <3>2
    <3>3. CASE q \in tree \ {n}
        BY <1>1, <1>8, <3>1, <3>3
    <3>. QED
        BY <1>3, <3>2, <3>3
  <2>2. CASE p \in tree \ {n}
    <3>1. q \in tree \ {n}
        BY <1>3, <1>8, <2>2
    <3>. QED
        BY <2>2, <3>1 DEF LevelInv, DeepestFirst
  <2>. QED
      BY <1>3, <2>1, <2>2
<1>10. strategy = "d" => FewUpTo(tree')
  <2>. SUFFICES ASSUME strategy = "d" PROVE FewUpTo(tree')
      OBVIOUS
  <2>1. FewUpTo(tree)
      BY DEF LevelInv, LevelsSmall, DownTo, FewUpTo
  <2>2. \A q \in tree : Level(q) \in 0 .. k
      BY <1>1, <1>2, <1>8
  <2>3. Cardinality(D) <= Size - k
      BY <1>2, SizeFacts
  <2>4. FewUpTo((tree \ {n}) \cup D)
      BY <1>1, <1>2, <2>1, <2>2, <2>3, BranchUpTo
  <2>. QED
      BY <1>3, <2>4
<1>11. LevelsSmall'
    BY <1>10, PrimedLevels DEF FewUpTo
<1>. QED
    BY <1>6, <1>7, <1>9, <1>11

LEMMA LevelInvNext == LevelInv /\ [Next]_vars => LevelInv'
<1>. SUFFICES ASSUME LevelInv, [Next]_vars PROVE LevelInv'
    OBVIOUS
<1>1. /\ SearchInv /\ SearchInv' /\ TypeOK
      /\ \A p \in tree : WellFormed(p) /\ p.couts_somme \in Nat
      /\ wsltns \subseteq Nat /\ (\A c, d \in wsltns : c = d)
      /\ cout \in Nat /\ \A c \in wsltns : cout <= c
    BY SearchInvNext DEF LevelInv, SearchInv, TypeOK
<1>2. PICK tempsJob \in Instances : tables \in initialiserVar(tempsJob)
    BY <1>1 DEF TypeOK
<1>3. Numbers(tables)
    BY <1>2, RunTables DEF Admits, Numbers
<1>4. tables' = tables /\ strategy' = strategy
    BY DEF Next, Explore, Receive, vars
<1>5. ASSUME \A p \in tree' : WellFormed(p) /\ p.couts_somme \in Nat,
             wsltns' \subseteq Nat, \A c, d \in wsltns' : c = d,
             cout' \in Nat, \A c \in wsltns' : cout' <= c,
             RanksApart' /\ IsFiniteSet(tree') /\ DeepestFirst' /\ LevelsSmall'
      PROVE  LevelInv'
  <2>1. \E x \in Instances : tables' \in initialiserVar(x)
      BY <1>2, <1>4
  <2>2. strategy' \in Strategies
      BY <1>1, <1>4 DEF TypeOK
  <2>3. TypeOK'
      BY <1>5, <2>1, <2>2 DEF TypeOK
  <2>. QED
      BY <1>1, <1>5, <2>3 DEF LevelInv
<1>6. ASSUME NEW n \in tree, Evaluate(n) PROVE LevelInv'
  <2>1. insert(n.couts_somme) /\ tree' \subseteq tree /\ n.couts_somme \in Nat
      BY <1>1, <1>6 DEF Evaluate
  <2>2. /\ wsltns' \subseteq Nat /\ (\A c, d \in wsltns' : c = d)
        /\ cout' \in Nat /\ \A c \in wsltns' : cout' <= c
      BY <1>1, <2>1, InsertOne
  <2>. QED
      BY <1>1, <1>4, <1>5, <2>1, <2>2, LevelsFewer
<1>7. ASSUME NEW n \in tree, top(n), Branch(n) PROVE LevelInv'
  <2>1. /\ ~leaf(n) /\ tree' = (tree \ {n}) \cup decompose(n)
        /\ UNCHANGED <<wsltns, cout>> /\ WellFormed(n) /\ n.ranks \in [0 .. Size -> Nat]
      BY <1>1, <1>7 DEF Branch, LevelInv, RanksApart
  <2>2. \A c \in decompose(n) : WellFormed(c) /\ c.couts_somme \in Nat
      BY <1>3, <2>1, Decomposed, DecomposedRanks
  <2>3. \A p \in tree' : WellFormed(p) /\ p.couts_somme \in Nat
      BY <1>1, <2>1, <2>2
  <2>. QED
      BY <1>1, <1>3, <1>4, <1>5, <1>7, <2>1, <2>3, LevelsBranch
<1>8. ASSUME NEW n \in tree, Prune(n) PROVE LevelInv'
  <2>1. tree' \subseteq tree /\ UNCHANGED <<wsltns, cout>>
      BY <1>8 DEF Prune
  <2>. QED
      BY <1>1, <1>4, <1>5, <2>1, LevelsFewer
<1>9. CASE Receive
  <2>1. PICK s \in Schedule : insert(criteres_calculer(tables, s)) /\ tree' = tree
      BY <1>9 DEF Receive
  <2>2. criteres_calculer(tables, s) \in Nat
      BY <1>3 DEF Numbers
  <2>3. /\ wsltns' \subseteq Nat /\ (\A c, d \in wsltns' : c = d)
        /\ cout' \in Nat /\ \A c \in wsltns' : cout' <= c
      BY <1>1, <2>1, <2>2, InsertOne
  <2>. QED
      BY <1>1, <1>4, <1>5, <2>1, <2>3, LevelsFewer
<1>10. CASE UNCHANGED vars
  <2>1. tree' = tree /\ UNCHANGED <<wsltns, cout>>
      BY <1>10 DEF vars
  <2>. QED
      BY <1>1, <1>4, <1>5, <2>1, LevelsFewer
<1>. QED
    BY <1>6, <1>7, <1>8, <1>9, <1>10 DEF Next, Explore

LEMMA LevelInvariant == Spec => []LevelInv
BY LevelInvInit, LevelInvNext, PTL DEF Spec

(* The fields of every open subproblem agree, one schedule is kept, and    *)
(* tree::cout never exceeds it.                                            *)
THEOREM ExplorerTypes == Spec => []TypeOK
<1>1. LevelInv => TypeOK
    BY DEF LevelInv
<1>. QED
    BY <1>1, LevelInvariant, PTL

(* comparator_depth is a strict order of whatever is open: the ranks of    *)
(* two subproblems differ before the ranks nobody has set.                 *)
THEOREM RanksAlwaysDiffer == Spec => []RanksDiffer
<1>1. LevelInv => RanksDiffer
  <2>. SUFFICES ASSUME LevelInv, NEW p \in tree, NEW q \in tree, p # q
                PROVE  Deeper(p, q) \/ Deeper(q, p)
      BY DEF RanksDiffer
  <2>1. PICK d \in 0 .. Size : FirstApart(p, q, d)
      BY DEF LevelInv, RanksApart
  <2>2. p.ranks[d] \in Nat /\ q.ranks[d] \in Nat
      BY DEF LevelInv, RanksApart
  <2>3. p.ranks[d] < q.ranks[d] \/ q.ranks[d] < p.ranks[d]
      BY <2>1, <2>2 DEF FirstApart
  <2>. QED
      BY <2>1, <2>3 DEF FirstApart, Deeper
<1>. QED
    BY <1>1, LevelInvariant, PTL

LEMMA Half == ASSUME NEW a \in Nat, NEW c \in Nat, 2 * c <= a + 2 PROVE c <= a \div 2 + 1
OBVIOUS

(* Depth first, the tree of an explorer stays as small as the siblings     *)
(* along one path, for every number of jobs and every instance.            *)
THEOREM DepthFirstStaysSmall == Spec => []TreeStaysSmall
<1>1. LevelInv => TreeStaysSmall
  <2>. SUFFICES ASSUME LevelInv, strategy = "d"
                PROVE  Cardinality(tree) <= (Size * (Size - 1)) \div 2 + 1
      BY DEF TreeStaysSmall
  <2>1. \A p \in tree : Level(p) \in 0 .. Size - 1
      BY LevelRange DEF LevelInv, SearchInv
  <2>2. DownTo(Size - 1) = tree /\ ~\E p \in tree : Level(p) > Size - 1
      BY <2>1, SizeFacts DEF DownTo
  <2>3. 2 * Cardinality(DownTo(Size - 1)) <= (Size - 1) * (2 * Size - 1 - (Size - 1)) + 2
    <3>1. Size - 1 \in 0 .. Size - 1
        BY SizeFacts
    <3>. QED
        BY <2>2, <3>1 DEF LevelInv, LevelsSmall
  <2>4. (Size - 1) * (2 * Size - 1 - (Size - 1)) = Size * (Size - 1)
      BY SizeFacts
  <2>5. Size * (Size - 1) \in Nat
      BY SizeFacts
  <2>6. Cardinality(tree) \in Nat
      BY FS_CardinalityType DEF LevelInv
  <2>. QED
      BY <2>2, <2>3, <2>4, <2>5, <2>6, Half
<1>. QED
    BY <1>1, LevelInvariant, PTL

-----------------------------------------------------------------------------
(* Johnson's rule as coded is optimal for every pair of machines, whatever *)
(* subproblem is taken from the tree and however quicksort leaves ties.    *)
THEOREM JohnsonAlwaysOptimal == Spec => []JohnsonOptimal
<1>1. CostInv => JohnsonOptimal
  <2>. SUFFICES ASSUME CostInv, NEW p \in tree, NEW ma \in Pairs, NEW ordo \in Orders
                PROVE  heuristiqueCmax(tables, p, ma, tables.tabJohnson[ma])[2]
                          <= heuristiqueCmax(tables, p, ma, ordo)[2]
      BY DEF JohnsonOptimal
  <2>1. Tables(tables) /\ Frame(p)
      BY RunTables, WellFormedFrame DEF CostInv, SearchInv
  <2>. QED
      BY <2>1, JohnsonBest
<1>. QED
    BY <1>1, CostInvInit, CostInvNext, PTL DEF Spec

-----------------------------------------------------------------------------
(* The count of leaves.                                                    *)

(* A subproblem has as many leaves as its children have together. *)
LEMMA WeightFacts ==
    /\ weights \in [0 .. Size -> Nat]
    /\ weights[Size] = 1 /\ weights[Size - 1] = 1
    /\ \A d \in 0 .. Size - 2 : weights[d] = weights[d + 1] * (Size - d)
<1>. DEFINE T == Nat
            step == [i \in 1 .. Size |-> [a \in T |-> IF i <= 1 THEN 1 ELSE a * i]]
            Def(g) == [d \in 0 .. Size |-> IF d >= Size - 1 THEN 1 ELSE g[d + 1] * (Size - d)]
<1>1. Size \in Nat /\ Size >= 2
    BY SizeFacts
<1>2. 1 \in T /\ Turns(step, 1 .. Size, T)
  <2>1. \A i \in 1 .. Size, a \in Nat : (IF i <= 1 THEN 1 ELSE a * i) \in Nat
      BY <1>1
  <2>. QED
      BY <2>1 DEF Turns
<1>3. PICK f : Recursive(f, Size, T, 1, step)
  <2>. HIDE DEF T, step
  <2>. QED
      BY <1>1, <1>2, Recursion
<1>4. /\ f \in [0 .. Size -> Nat] /\ f[0] = 1
      /\ \A i \in 1 .. Size : f[i] = IF i <= 1 THEN 1 ELSE f[i - 1] * i
  <2>1. /\ f \in [0 .. Size -> Nat] /\ f[0] = 1
        /\ \A i \in 1 .. Size : f[i] = step[i][f[i - 1]]
      BY <1>3 DEF Recursive
  <2>2. \A i \in 1 .. Size : i - 1 \in 0 .. Size
      BY <1>1
  <2>. QED
      BY <2>1, <2>2
<1>. DEFINE g == [d \in 0 .. Size |-> f[Size - d]]
<1>5. g = Def(g)
  <2>1. ASSUME NEW d \in 0 .. Size
        PROVE  g[d] = IF d >= Size - 1 THEN 1 ELSE g[d + 1] * (Size - d)
    <3>1. CASE d >= Size - 1
      <4>1. Size - d = 0 \/ Size - d = 1
          BY <1>1, <3>1
      <4>2. f[1] = 1
          BY <1>1, <1>4
      <4>. QED
          BY <1>4, <3>1, <4>1, <4>2
    <3>2. CASE d < Size - 1
      <4>1. Size - d \in 1 .. Size /\ ~(Size - d <= 1) /\ d + 1 \in 0 .. Size
            /\ (Size - d) - 1 = Size - (d + 1)
          BY <1>1, <3>2
      <4>2. f[Size - d] = f[(Size - d) - 1] * (Size - d)
          BY <1>4, <4>1
      <4>3. g[d] = f[Size - d] /\ g[d + 1] = f[(Size - d) - 1]
          BY <4>1
      <4>4. ~(d >= Size - 1)
          BY <1>1, <3>2
      <4>. HIDE DEF g
      <4>. QED
          BY <4>2, <4>3, <4>4
    <3>. QED
        BY <1>1, <3>1, <3>2
  <2>. HIDE DEF g
  <2>2. g = [d \in 0 .. Size |-> g[d]]
      BY DEF g
  <2>. QED
      BY <2>1, <2>2
<1>6. weights = (CHOOSE h : h = Def(h))
    BY DEF weights
<1>. HIDE DEF g, Def
<1>7. weights = Def(weights)
    BY <1>5, <1>6
<1>8. \A d \in 0 .. Size : weights[d] = IF d >= Size - 1 THEN 1 ELSE weights[d + 1] * (Size - d)
    BY <1>7 DEF Def
<1>9. /\ weights[Size] = 1 /\ weights[Size - 1] = 1
      /\ \A d \in 0 .. Size - 2 : weights[d] = weights[d + 1] * (Size - d)
    BY <1>1, <1>8
<1>. DEFINE X == {i \in 0 .. Size : weights[Size - i] \in Nat}
<1>10. 0 .. Size \subseteq X
  <2>1. 0 \in X
      BY <1>1, <1>9
  <2>2. ASSUME NEW i \in 1 .. Size, i - 1 \in X PROVE i \in X
    <3>1. CASE i = 1
        BY <1>9, <3>1
    <3>2. CASE i # 1
      <4>1. Size - i \in 0 .. Size - 2 /\ (Size - i) + 1 = Size - (i - 1) /\ Size - (Size - i) = i
          BY <1>1, <3>2
      <4>2. weights[Size - i] = weights[Size - (i - 1)] * i /\ weights[Size - (i - 1)] \in Nat
          BY <1>9, <2>2, <4>1
      <4>. QED
          BY <4>2
    <3>. QED
        BY <3>1, <3>2
  <2>. HIDE DEF X
  <2>. QED
      BY <1>1, <2>1, <2>2, UpTo
<1>11. ASSUME NEW d \in 0 .. Size PROVE weights[d] \in Nat
  <2>1. Size - d \in 0 .. Size /\ Size - (Size - d) = d
      BY <1>1
  <2>. QED
      BY <1>10, <2>1
<1>12. weights = [d \in 0 .. Size |-> weights[d]]
    BY <1>7 DEF Def
<1>. QED
    BY <1>9, <1>11, <1>12

Weight(T) == Total([p \in T |-> weights[p.depth]], T)

(* The weights of a finite set of subproblems. *)
LEMMA WeightOf ==
    ASSUME NEW T, IsFiniteSet(T), \A p \in T : p.depth \in 0 .. Size
    PROVE  /\ \A U \in SUBSET T :
                 Weight(U) \in Int /\ Weight(U) = Total([p \in T |-> weights[p.depth]], U)
<1>. DEFINE f == [p \in T |-> weights[p.depth]]
<1>1. \A p \in T : f[p] \in Int
    BY WeightFacts
<1>2. ASSUME NEW U \in SUBSET T PROVE Weight(U) \in Int /\ Weight(U) = Total(f, U)
  <2>. DEFINE g == [p \in U |-> weights[p.depth]]
  <2>1. \A p \in U : g[p] = f[p] /\ f[p] \in Int
      BY <1>1
  <2>2. IsFiniteSet(U)
      BY FS_Subset
  <2>. HIDE DEF f, g
  <2>3. Total(g, U) = Total(f, U) /\ Total(f, U) \in Int
      BY <1>1, <2>1, <2>2, TotalSame, TotalWithout
  <2>. QED
      BY <2>3 DEF Weight, g
<1>. QED
    BY <1>2

LEMMA WeightAway ==
    ASSUME NEW T, IsFiniteSet(T), \A p \in T : p.depth \in 0 .. Size, NEW n \in T
    PROVE  Weight(T) = Weight(T \ {n}) + weights[n.depth] /\ Weight(T \ {n}) \in Int
<1>. DEFINE f == [p \in T |-> weights[p.depth]]
<1>1. (\A p \in T : f[p] \in Int) /\ f[n] = weights[n.depth]
    BY WeightFacts
<1>. HIDE DEF f
<1>2. Total(f, T) = f[n] + Total(f, T \ {n}) /\ Total(f, T \ {n}) \in Int
    BY <1>1, TotalWithout
<1>3. Weight(T) = Total(f, T) /\ Weight(T \ {n}) = Total(f, T \ {n})
    BY WeightOf DEF f
<1>. QED
    BY <1>1, <1>2, <1>3

LEMMA WeightBoth ==
    ASSUME NEW T, IsFiniteSet(T), NEW D, IsFiniteSet(D), T \cap D = {},
           \A p \in T \cup D : p.depth \in 0 .. Size
    PROVE  Weight(T \cup D) = Weight(T) + Weight(D)
<1>. DEFINE A == T \cup D
            f == [p \in A |-> weights[p.depth]]
<1>1. \A p \in A : f[p] \in Int
    BY WeightFacts
<1>2. IsFiniteSet(A) /\ T \in SUBSET A /\ D \in SUBSET A /\ A \in SUBSET A
    BY FS_Union
<1>3. Weight(A) = Total(f, A) /\ Weight(T) = Total(f, T) /\ Weight(D) = Total(f, D)
  <2>. HIDE DEF A
  <2>1. \A p \in A : p.depth \in 0 .. Size
      BY DEF A
  <2>. QED
      BY <1>2, <2>1, WeightOf
<1>4. Total(f, T \cup D) = Total(f, T) + Total(f, D)
  <2>. HIDE DEF A, f
  <2>. QED
      BY <1>1, <1>2, TotalUnion
<1>. QED
    BY <1>3, <1>4

(* The children have the leaves of their father, whichever end and rule    *)
(* made them.                                                              *)
LEMMA WeightOfChildren ==
    ASSUME Numbers(tables), NEW n, WellFormed(n), ~leaf(n), n.ranks \in [0 .. Size -> Nat]
    PROVE  Weight(decompose(n)) = weights[n.depth]
<1>. DEFINE D == decompose(n)
            w == weights[n.depth + 1]
            f == [p \in D |-> weights[p.depth]]
<1>1. /\ n.depth \in 0 .. Size - 2 /\ IsFiniteSet(D) /\ Cardinality(D) = Size - n.depth
      /\ \A c \in D : WellFormed(c) /\ Level(c) = n.depth + 1
    BY DecomposedRanks, Decomposed
<1>2. w \in Int /\ weights[n.depth] = w * (Size - n.depth)
  <2>1. n.depth + 1 \in 0 .. Size
      BY <1>1, SizeFacts
  <2>. QED
      BY <1>1, <2>1, WeightFacts
<1>3. ASSUME NEW c \in D PROVE f[c] = w
  <2>1. Level(c) = n.depth + 1 /\ c.depth \in 0 .. Size
      BY <1>1 DEF WellFormed
  <2>2. weights[c.depth] = w
      BY <2>1, WeightFacts, SizeFacts DEF Level, leaf
  <2>. QED
      BY <2>2
<1>. HIDE DEF D, w, f
<1>4. Total(f, D) = Cardinality(D) * w
    BY <1>1, <1>2, <1>3, TotalConstant
<1>5. (Size - n.depth) * w = w * (Size - n.depth)
    BY <1>1, <1>2, SizeFacts
<1>. QED
    BY <1>1, <1>2, <1>4, <1>5 DEF Weight, D, f

Counted == cpu_explored_leaves \in Nat /\ LeavesAccounted

LEMMA CountedIs == LeavesAccounted <=> cpu_explored_leaves + Weight(tree) = weights[0]
BY DEF LeavesAccounted, Weight, Total, SumFunction

LEMMA CountedIsNext ==
    LeavesAccounted' <=> cpu_explored_leaves' + Weight(tree') = weights[0]
BY DEF LeavesAccounted, Weight, Total, SumFunction

LEMMA CountedInit == Init => Counted
<1>. SUFFICES ASSUME Init PROVE Counted
    OBVIOUS
<1>1. tree = {Root} /\ cpu_explored_leaves = 0 /\ Root.depth = 0
    BY DEF Init, Root
<1>. DEFINE f == [p \in {Root} |-> weights[p.depth]]
<1>2. IsFiniteSet({Root}) /\ Cardinality({Root}) = 1
    BY FS_Singleton
<1>3. weights[0] \in Nat
    BY WeightFacts, SizeFacts
<1>4. \A p \in {Root} : f[p] = weights[0]
    BY <1>1
<1>. HIDE DEF f
<1>5. Total(f, {Root}) = 1 * weights[0]
    BY <1>2, <1>3, <1>4, TotalConstant
<1>6. Weight(tree) = weights[0]
    BY <1>1, <1>3, <1>5 DEF Weight, f
<1>. QED
    BY <1>1, <1>3, <1>6, CountedIs DEF Counted

LEMMA CountedNext == LevelInv /\ Counted /\ [Next]_vars => Counted'
<1>. SUFFICES ASSUME LevelInv, Counted, [Next]_vars PROVE Counted'
    OBVIOUS
<1>1. /\ IsFiniteSet(tree) /\ NoScheduleTwice
      /\ \A p \in tree : WellFormed(p) /\ p.ranks \in [0 .. Size -> Nat] /\ p.depth \in 0 .. Size
    BY DEF LevelInv, SearchInv, RanksApart, WellFormed
<1>2. /\ cpu_explored_leaves \in Nat /\ weights[0] \in Nat
      /\ cpu_explored_leaves + Weight(tree) = weights[0]
    BY CountedIs, WeightFacts, SizeFacts DEF Counted
<1>3. ASSUME cpu_explored_leaves' \in Nat, cpu_explored_leaves' + Weight(tree') = weights[0]
      PROVE  Counted'
    BY <1>3, CountedIsNext DEF Counted
<1>4. ASSUME NEW n \in tree, tree' = tree \ {n},
             cpu_explored_leaves' = cpu_explored_leaves + weights[n.depth]
      PROVE  Counted'
  <2>1. Weight(tree) = Weight(tree \ {n}) + weights[n.depth] /\ Weight(tree \ {n}) \in Int
      BY <1>1, WeightAway
  <2>2. weights[n.depth] \in Nat
      BY <1>1, WeightFacts
  <2>3. /\ cpu_explored_leaves + weights[n.depth] \in Nat
        /\ (cpu_explored_leaves + weights[n.depth]) + Weight(tree \ {n}) = weights[0]
      BY <1>2, <2>1, <2>2
  <2>. QED
      BY <1>3, <1>4, <2>3
<1>5. ASSUME NEW n \in tree, Branch(n) PROVE Counted'
  <2>. DEFINE D == decompose(n)
              R == tree \ {n}
  <2>1. ~leaf(n) /\ tree' = R \cup D /\ cpu_explored_leaves' = cpu_explored_leaves
      BY <1>5 DEF Branch
  <2>2. Numbers(tables)
      BY RunTables DEF LevelInv, TypeOK, Admits, Numbers
  <2>3. /\ IsFiniteSet(D) /\ \A c \in D : WellFormed(c) /\ c.depth \in 0 .. Size
      BY <1>1, <2>1, <2>2, DecomposedRanks, Decomposed DEF WellFormed
  <2>4. R \cap D = {}
    <3>. SUFFICES ASSUME NEW c \in D, c \in R PROVE FALSE
        OBVIOUS
    <3>1. c.permutation \in Schedule /\ Completes(c.permutation, c)
        BY <2>3 DEF WellFormed, Completes
    <3>2. Completes(c.permutation, n)
        BY <1>1, <2>1, <3>1, Decomposed
    <3>. QED
        BY <1>1, <3>1, <3>2 DEF NoScheduleTwice
  <2>5. Weight(D) = weights[n.depth]
      BY <1>1, <2>1, <2>2, WeightOfChildren
  <2>6. Weight(tree) = Weight(R) + weights[n.depth]
      BY <1>1, WeightAway
  <2>7. IsFiniteSet(R)
      BY <1>1, FS_Subset
  <2>8. \A p \in R \cup D : p.depth \in 0 .. Size
      BY <1>1, <2>3
  <2>. HIDE DEF D, R
  <2>9. Weight(R \cup D) = Weight(R) + Weight(D)
      BY <2>3, <2>4, <2>7, <2>8, WeightBoth
  <2>10. cpu_explored_leaves + Weight(R \cup D) = weights[0]
      BY <1>2, <2>5, <2>6, <2>9
  <2>. QED
      BY <1>2, <1>3, <2>1, <2>10
<1>6. CASE tree' = tree /\ cpu_explored_leaves' = cpu_explored_leaves
    BY <1>2, <1>3, <1>6
<1>. QED
    BY <1>4, <1>5, <1>6 DEF Next, Explore, Evaluate, Prune, Receive, vars

(* The count of leaves that ~tree reports is true: with what is still open *)
(* it makes the number of schedules, pruned subtrees included.             *)
THEOREM LeavesAlwaysAccounted == Spec => []LeavesAccounted
<1>1. LevelInv /\ Counted /\ LevelInv' /\ [Next]_vars => Counted'
    BY CountedNext
<1>2. Counted => LeavesAccounted
    BY DEF Counted
<1>. QED
    BY <1>2, LevelInvariant, CountedInit, CountedNext, PTL DEF Spec

-----------------------------------------------------------------------------
(* What is kept is the makespan of a schedule, not a bound. *)
Attained == \A c \in wsltns : \E s \in Schedule : c = criteres_calculer(tables, s)

(* An exhausted tree has the optimum: one cost is kept, and it is the      *)
(* least makespan of all schedules.                                        *)
ExhaustedIsOptimal ==
    tree = {} =>
        \E s \in Schedule :
            /\ wsltns = {criteres_calculer(tables, s)}
            /\ \A r \in Schedule : criteres_calculer(tables, s) <= criteres_calculer(tables, r)

LEMMA InsertAttained ==
    ASSUME Attained, NEW s \in Schedule, insert(criteres_calculer(tables, s)), tables' = tables
    PROVE  Attained'
<1>. DEFINE c == criteres_calculer(tables, s)
<1>1. wsltns' \subseteq wsltns \cup {c}
    BY DEF insert
<1>2. \A d \in wsltns \cup {c} : \E r \in Schedule : d = criteres_calculer(tables, r)
    BY DEF Attained
<1>3. \A d \in wsltns' : \E r \in Schedule : d = criteres_calculer(tables, r)
    BY <1>1, <1>2
<1>. QED
    BY <1>3 DEF Attained

LEMMA AttainedNext == CostInv /\ Attained /\ [Next]_vars => Attained'
<1>. SUFFICES ASSUME CostInv, Attained, [Next]_vars PROVE Attained'
    OBVIOUS
<1>1. tables' = tables
    BY DEF Next, Explore, Receive, vars
<1>2. CASE UNCHANGED wsltns
    BY <1>1, <1>2 DEF Attained
<1>3. ASSUME NEW n \in tree, Evaluate(n) PROVE Attained'
  <2>1. WellFormed(n) /\ leaf(n) /\ insert(n.couts_somme)
      BY <1>3 DEF Evaluate, CostInv, SearchInv
  <2>2. n.permutation \in Schedule /\ Completes(n.permutation, n)
      BY <2>1, LeafComplete
  <2>3. n.couts_somme = criteres_calculer(tables, n.permutation)
      BY <2>1, <2>2 DEF CostInv, BoundAdmissible
  <2>. QED
      BY <1>1, <2>1, <2>2, <2>3, InsertAttained
<1>4. CASE Receive
    BY <1>1, <1>4, InsertAttained DEF Receive
<1>. QED
    BY <1>2, <1>3, <1>4 DEF Next, Explore, Branch, Prune, vars

(* Whatever was pruned and whatever arrived from other peers: when the     *)
(* tree of an explorer is exhausted, the schedule it keeps is optimal.     *)
THEOREM SearchIsExact == Spec => []ExhaustedIsOptimal
<1>1. CostInv /\ LevelInv /\ Attained => ExhaustedIsOptimal
  <2>. SUFFICES ASSUME CostInv, TypeOK, Attained, tree = {}
                PROVE  \E s \in Schedule :
                          /\ wsltns = {criteres_calculer(tables, s)}
                          /\ \A r \in Schedule :
                                criteres_calculer(tables, s) <= criteres_calculer(tables, r)
      BY DEF ExhaustedIsOptimal, LevelInv
  <2>1. \A r \in Schedule : \E c \in wsltns : c <= criteres_calculer(tables, r)
      BY DEF CostInv, NothingLost
  <2>2. Schedule # {}
      BY RootWellFormed DEF WellFormed
  <2>3. PICK c \in wsltns : TRUE
      BY <2>1, <2>2
  <2>4. wsltns = {c}
      BY <2>3 DEF TypeOK
  <2>5. PICK s \in Schedule : c = criteres_calculer(tables, s)
      BY <2>3 DEF Attained
  <2>. QED
      BY <2>1, <2>4, <2>5
<1>2. Init => Attained
    BY DEF Init, Attained
<1>3. Init /\ [][Next]_vars => []CostInv
    BY CostInvInit, CostInvNext, PTL
<1>. QED
    BY <1>1, <1>2, <1>3, LevelInvariant, AttainedNext, PTL DEF Spec
=============================================================================
