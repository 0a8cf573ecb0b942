-------------------------------- MODULE Sums --------------------------------
(***************************************************************************)
(* Induction over the naturals, recursive functions, folds and sums, as    *)
(* the other proofs need them.                                             *)
(*                                                                         *)
(* The library's induction theorems take an operator, which no prover here *)
(* can instantiate; that the naturals are well-founded takes none, and is  *)
(* enough for induction over a set of naturals.  From it follow what the   *)
(* recursive functions and the folds of the model compute.                 *)
(***************************************************************************)
EXTENDS Integers, FiniteSets, SequencesExt, FiniteSetTheorems, TLAPS

LEMMA LeastNumber ==
    ASSUME NEW T, T \subseteq Nat, T # {}
    PROVE  \E n \in T : \A m \in T : n <= m
<1>. DEFINE R == OpToRel(<, Nat)
<1>1. IsWellFoundedOn(R, Nat)
    BY NatLessThanWellFounded
<1>2. \A m, n \in Nat : m < n => <<m, n>> \in R
    BY DEF OpToRel
<1>. HIDE DEF R
<1>3. PICK n \in T : \A m \in T : ~(<<m, n>> \in R)
    BY <1>1, WFMin
<1>. SUFFICES ASSUME NEW m \in T PROVE n <= m
    OBVIOUS
<1>4. m \in Nat /\ n \in Nat /\ ~(m < n)
    BY <1>2, <1>3
<1>. QED
    BY <1>4

(* Induction up to n. *)
LEMMA UpTo ==
    ASSUME NEW n \in Nat, NEW S, 0 \in S, \A i \in 1 .. n : i - 1 \in S => i \in S
    PROVE  0 .. n \subseteq S
<1>. SUFFICES ASSUME (0 .. n) \ S # {} PROVE FALSE
    OBVIOUS
<1>1. (0 .. n) \ S \subseteq Nat
    OBVIOUS
<1>2. PICK k \in (0 .. n) \ S : \A m \in (0 .. n) \ S : k <= m
    BY <1>1, LeastNumber
<1>3. k \in 1 .. n /\ k - 1 \in 0 .. n /\ ~(k <= k - 1)
    BY <1>2
<1>. QED
    BY <1>2, <1>3

(* Induction over the naturals. *)
LEMMA EveryNumber ==
    ASSUME NEW S, 0 \in S, \A i \in Nat : i \in S => i + 1 \in S
    PROVE  Nat \subseteq S
<1>. SUFFICES ASSUME NEW n \in Nat PROVE n \in S
    OBVIOUS
<1>1. \A i \in 1 .. n : i - 1 \in Nat /\ (i - 1) + 1 = i
    OBVIOUS
<1>2. 0 .. n \subseteq S
    BY <1>1, UpTo
<1>. QED
    BY <1>2

(* What a recursion does at x with what it has so far. *)
Turns(step, A, T) == step \in [A -> [T -> T]]

Recursive(f, n, T, base, step) ==
    f \in [0 .. n -> T] /\ f[0] = base /\ \A i \in 1 .. n : f[i] = step[i][f[i - 1]]

(* Recursion up to n. *)
LEMMA Recursion ==
    ASSUME NEW n \in Nat, NEW T, NEW base \in T, NEW step, Turns(step, 1 .. n, T)
    PROVE  \E f : Recursive(f, n, T, base, step)
<1>. DEFINE S == {m \in 0 .. n : \E f : Recursive(f, m, T, base, step)}
<1>1. 0 \in S
  <2>1. Recursive([i \in 0 .. 0 |-> base], 0, T, base, step)
      BY DEF Recursive
  <2>. QED
      BY <2>1
<1>2. ASSUME NEW m \in 1 .. n, m - 1 \in S PROVE m \in S
  <2>1. PICK f : Recursive(f, m - 1, T, base, step)
      BY <1>2
  <2>. DEFINE g == [i \in 0 .. m |-> IF i = m THEN step[m][f[m - 1]] ELSE f[i]]
  <2>2. /\ f \in [0 .. m - 1 -> T] /\ f[0] = base
        /\ \A i \in 1 .. m - 1 : f[i] = step[i][f[i - 1]]
      BY <2>1 DEF Recursive
  <2>3. f[m - 1] \in T /\ step[m] \in [T -> T]
      BY <2>2 DEF Turns
  <2>4. step[m][f[m - 1]] \in T
      BY <2>3
  <2>5. g \in [0 .. m -> T] /\ g[0] = base /\ g[m] = step[m][f[m - 1]]
      BY <2>2, <2>4
  <2>6. \A i \in 0 .. m - 1 : g[i] = f[i]
      OBVIOUS
  <2>7. \A i \in 1 .. m : i - 1 \in 0 .. m - 1 /\ (i = m \/ i \in 1 .. m - 1)
      OBVIOUS
  <2>8. 1 .. m - 1 \subseteq 0 .. m - 1
      OBVIOUS
  <2>. HIDE DEF g
  <2>9. \A i \in 1 .. m : g[i] = step[i][g[i - 1]]
      BY <2>2, <2>5, <2>6, <2>7, <2>8
  <2>10. Recursive(g, m, T, base, step)
      BY <2>5, <2>9 DEF Recursive
  <2>. QED
      BY <2>10
<1>. HIDE DEF S
<1>3. n \in S
    BY <1>1, <1>2, UpTo
<1>. QED
    BY <1>3 DEF S

(* What picks one element of every set. *)
Picks(pick, S) == \A s \in SUBSET S : s # {} => pick[s] \in s

FoldOf(f, S, T, base, pick, step) ==
    /\ f \in [SUBSET S -> T] /\ f[{}] = base
    /\ \A s \in SUBSET S : s # {} => f[s] = step[pick[s]][f[s \ {pick[s]}]]

(* A fold over the elements that pick takes, one after the other. *)
LEMMA FoldOverSets ==
    ASSUME NEW S, IsFiniteSet(S), NEW T, NEW base \in T, NEW pick, Picks(pick, S),
           NEW step, Turns(step, S, T)
    PROVE  \E f : FoldOf(f, S, T, base, pick, step)
<1>. DEFINE Turn(f, s) == step[pick[s]][f[s \ {pick[s]}]]
            Runs(m, f) ==
                /\ f \in [SUBSET S -> T] /\ f[{}] = base
                /\ \A s \in SUBSET S : s # {} /\ Cardinality(s) <= m => f[s] = Turn(f, s)
            n == Cardinality(S)
            N == {m \in 0 .. n : \E f : Runs(m, f)}
<1>1. \A s \in SUBSET S : Cardinality(s) \in 0 .. n /\ (Cardinality(s) = 0 <=> s = {})
    BY FS_Subset, FS_CardinalityType, FS_EmptySet
<1>2. n \in Nat
    BY FS_CardinalityType
<1>3. \A s \in SUBSET S : s # {} =>
         pick[s] \in S /\ s \ {pick[s]} \in SUBSET S /\ Cardinality(s \ {pick[s]}) = Cardinality(s) - 1
  <2>. SUFFICES ASSUME NEW s \in SUBSET S, s # {}
                PROVE  pick[s] \in S /\ s \ {pick[s]} \in SUBSET S
                       /\ Cardinality(s \ {pick[s]}) = Cardinality(s) - 1
      OBVIOUS
  <2>1. pick[s] \in s /\ IsFiniteSet(s)
      BY FS_Subset DEF Picks
  <2>. QED
      BY <2>1, FS_RemoveElement
<1>4. \A f \in [SUBSET S -> T] : \A s \in SUBSET S : s # {} => Turn(f, s) \in T
  <2>. SUFFICES ASSUME NEW f \in [SUBSET S -> T], NEW s \in SUBSET S, s # {}
                PROVE  Turn(f, s) \in T
      OBVIOUS
  <2>1. f[s \ {pick[s]}] \in T /\ step[pick[s]] \in [T -> T]
      BY <1>3 DEF Turns
  <2>. QED
      BY <2>1
<1>5. 0 \in N
  <2>1. Runs(0, [s \in SUBSET S |-> base])
      BY <1>1
  <2>. HIDE DEF Runs, n
  <2>2. 0 \in 0 .. n
      BY <1>2
  <2>. QED
      BY <2>1, <2>2
<1>6. ASSUME NEW m \in 1 .. n, m - 1 \in N PROVE m \in N
  <2>1. PICK f : Runs(m - 1, f)
      BY <1>6
  <2>. DEFINE g == [s \in SUBSET S |-> IF Cardinality(s) = m THEN Turn(f, s) ELSE f[s]]
  <2>2. g \in [SUBSET S -> T] /\ g[{}] = base
    <3>1. \A s \in SUBSET S : Cardinality(s) = m => s # {}
        BY <1>1, <1>2
    <3>2. f \in [SUBSET S -> T] /\ \A s \in SUBSET S : Cardinality(s) = m => Turn(f, s) \in T
        BY <1>4, <2>1, <3>1
    <3>. HIDE DEF Turn
    <3>3. g \in [SUBSET S -> T]
        BY <3>2
    <3>. QED
        BY <2>1, <3>1, <3>3
  <2>3. ASSUME NEW s \in SUBSET S, s # {}, Cardinality(s) <= m
        PROVE  g[s] = Turn(g, s)
    <3>. DEFINE r == s \ {pick[s]}
    <3>1. r \in SUBSET S /\ Cardinality(r) = Cardinality(s) - 1 /\ Cardinality(s) \in 0 .. n
        BY <1>1, <1>3, <2>3
    <3>2. g[r] = f[r]
        BY <1>2, <2>3, <3>1
    <3>3. g[s] = Turn(f, s)
      <4>1. CASE Cardinality(s) = m
          BY <4>1
      <4>2. CASE Cardinality(s) # m
        <5>1. Cardinality(s) <= m - 1
            BY <2>3, <3>1, <4>2
        <5>2. f[s] = Turn(f, s)
            BY <2>1, <2>3, <5>1
        <5>. QED
            BY <4>2, <5>2
      <4>. QED
          BY <4>1, <4>2
    <3>. QED
        BY <3>2, <3>3
  <2>4. Runs(m, g)
      BY <2>2, <2>3
  <2>. HIDE DEF Runs, g
  <2>. QED
      BY <2>4
<1>. HIDE DEF N
<1>7. n \in N
    BY <1>2, <1>5, <1>6, UpTo
<1>8. PICK f : Runs(n, f)
    BY <1>7 DEF N
<1>9. \A s \in SUBSET S : Cardinality(s) <= n
    BY <1>1, <1>2
<1>10. f \in [SUBSET S -> T] /\ f[{}] = base /\ \A s \in SUBSET S : s # {} => f[s] = Turn(f, s)
  <2>. HIDE DEF n, Turn
  <2>. QED
      BY <1>8, <1>9
<1>11. FoldOf(f, S, T, base, pick, step)
    BY <1>10 DEF FoldOf
<1>. QED
    BY <1>11

LEMMA Greatest ==
    ASSUME NEW n \in Nat, NEW s \in SUBSET (1 .. n), s # {}
    PROVE  Max(s) \in s /\ \A y \in s : y <= Max(s)
<1>. DEFINE T == {n - x : x \in s}
<1>1. \A x \in s : x \in 1 .. n /\ n - x \in Nat
    OBVIOUS
<1>2. T \subseteq Nat /\ T # {}
    BY <1>1
<1>3. PICK t \in T : \A u \in T : t <= u
    BY <1>2, LeastNumber
<1>4. PICK x \in s : t = n - x
    OBVIOUS
<1>5. \A y \in s : x >= y
    BY <1>1, <1>3, <1>4
<1>. QED
    BY <1>5 DEF Max

LEMMA Initial ==
    ASSUME NEW n \in Nat, NEW k \in 1 .. n
    PROVE  /\ 1 .. k \in SUBSET (1 .. n) /\ 1 .. k # {}
           /\ Max(1 .. k) = k /\ (1 .. k) \ {k} = 1 .. k - 1
<1>1. k \in 1 .. k /\ \A y \in 1 .. k : k >= y
    OBVIOUS
<1>2. \A x \in 1 .. k : (\A y \in 1 .. k : x >= y) => x = k
    BY <1>1
<1>3. Max(1 .. k) = k
    BY <1>1, <1>2 DEF Max
<1>4. (1 .. k) \ {k} = 1 .. k - 1
    OBVIOUS
<1>. QED
    BY <1>1, <1>3, <1>4

(* The fold that FoldLeft makes is over the sets of a sequence's places,   *)
(* the last place first.                                                   *)
Listed(q, n, E) == q \in [1 .. n -> E]
FoldOfPlaces(f, n, q, T, base, step) ==
    /\ f \in [SUBSET (1 .. n) -> T] /\ f[{}] = base
    /\ \A s \in SUBSET (1 .. n) : s # {} => f[s] = step[q[Max(s)]][f[s \ {Max(s)}]]

LEMMA FoldOverPlaces ==
    ASSUME NEW n \in Nat, NEW E, NEW q, Listed(q, n, E), NEW T, NEW base \in T,
           NEW step, Turns(step, E, T)
    PROVE  \E f : FoldOfPlaces(f, n, q, T, base, step)
<1>. DEFINE S == 1 .. n
            pick == [s \in SUBSET S |-> Max(s)]
            turn == [i \in S |-> step[q[i]]]
<1>1. Picks(pick, S)
    BY Greatest DEF Picks
<1>2. Turns(turn, S, T)
    BY DEF Turns, Listed
<1>3. IsFiniteSet(S)
    BY FS_Interval
<1>4. PICK f : FoldOf(f, S, T, base, pick, turn)
  <2>. HIDE DEF S, pick, turn
  <2>. QED
      BY <1>1, <1>2, <1>3, FoldOverSets
<1>5. f \in [SUBSET S -> T] /\ f[{}] = base
    BY <1>4 DEF FoldOf
<1>6. ASSUME NEW s \in SUBSET S, s # {}
      PROVE  f[s] = step[q[Max(s)]][f[s \ {Max(s)}]]
  <2>1. pick[s] = Max(s) /\ Max(s) \in S
      BY <1>6, Greatest
  <2>2. turn[Max(s)] = step[q[Max(s)]]
      BY <2>1
  <2>. HIDE DEF S, pick, turn
  <2>3. f[s] = turn[Max(s)][f[s \ {Max(s)}]]
      BY <1>4, <1>6, <2>1 DEF FoldOf
  <2>. QED
      BY <2>2, <2>3
<1>7. FoldOfPlaces(f, n, q, T, base, step)
    BY <1>5, <1>6 DEF FoldOfPlaces
<1>. QED
    BY <1>7

(* The values of a fold from left to right, one for each prefix. *)
LeftFold(f, n, q, T, base, step) ==
    f \in [0 .. n -> T] /\ f[0] = base /\ \A k \in 1 .. n : f[k] = step[q[k]][f[k - 1]]

Unfolds(iter, n, q, T, base, step) ==
    /\ iter[{}] = base
    /\ \A k \in 1 .. n : iter[1 .. k - 1] \in T => iter[1 .. k] = step[q[k]][iter[1 .. k - 1]]

LEMMA FoldOverPrefixes ==
    ASSUME NEW n \in Nat, NEW E, NEW q, Listed(q, n, E), NEW T, NEW base \in T,
           NEW step, Turns(step, E, T), NEW iter, Unfolds(iter, n, q, T, base, step)
    PROVE  \E f : LeftFold(f, n, q, T, base, step) /\ f[n] = iter[1 .. n]
<1>. DEFINE f == [k \in 0 .. n |-> iter[1 .. k]]
            S == {k \in 0 .. n : iter[1 .. k] \in T}
<1>1. 0 \in S
  <2>1. 1 .. 0 = {}
      OBVIOUS
  <2>. QED
      BY <2>1 DEF Unfolds
<1>2. ASSUME NEW k \in 1 .. n, k - 1 \in S PROVE k \in S
  <2>1. step[q[k]] \in [T -> T]
      BY DEF Turns, Listed
  <2>2. iter[1 .. k] = step[q[k]][iter[1 .. k - 1]] /\ iter[1 .. k - 1] \in T
      BY <1>2 DEF Unfolds
  <2>. QED
      BY <2>1, <2>2
<1>3. 0 .. n \subseteq S
  <2>. HIDE DEF S
  <2>. QED
      BY <1>1, <1>2, UpTo
<1>4. \A k \in 1 .. n : k - 1 \in 0 .. n /\ f[k] = iter[1 .. k] /\ f[k - 1] = iter[1 .. k - 1]
    OBVIOUS
<1>5. f \in [0 .. n -> T] /\ f[0] = base /\ f[n] = iter[1 .. n]
  <2>1. 1 .. 0 = {}
      OBVIOUS
  <2>. QED
      BY <1>3, <2>1 DEF Unfolds
<1>6. \A k \in 1 .. n : f[k] = step[q[k]][f[k - 1]]
    BY <1>3, <1>4 DEF Unfolds
<1>. HIDE DEF f
<1>7. LeftFold(f, n, q, T, base, step)
    BY <1>5, <1>6 DEF LeftFold
<1>. QED
    BY <1>5, <1>7

-----------------------------------------------------------------------------
(* Sums over finite sets.                                                  *)

(* Induction over the subsets of a finite set. *)
Grows(U, S) ==
    {} \in U /\ \A s \in SUBSET S, x \in S : s \in U /\ x \notin s => s \cup {x} \in U

LEMMA EverySubset ==
    ASSUME NEW S, IsFiniteSet(S), NEW U, Grows(U, S)
    PROVE  SUBSET S \subseteq U
<1>. DEFINE N == {m \in 0 .. Cardinality(S) : \A s \in SUBSET S : Cardinality(s) = m => s \in U}
<1>1. \A s \in SUBSET S : IsFiniteSet(s) /\ Cardinality(s) \in 0 .. Cardinality(S)
                          /\ (Cardinality(s) = 0 <=> s = {})
    BY FS_Subset, FS_CardinalityType, FS_EmptySet
<1>2. Cardinality(S) \in Nat
    BY FS_CardinalityType
<1>3. 0 \in N
    BY <1>1, <1>2 DEF Grows
<1>4. ASSUME NEW m \in 1 .. Cardinality(S), m - 1 \in N PROVE m \in N
  <2>. SUFFICES ASSUME NEW s \in SUBSET S, Cardinality(s) = m PROVE s \in U
      OBVIOUS
  <2>1. PICK x \in s : TRUE
      BY <1>1
  <2>2. Cardinality(s \ {x}) = m - 1
      BY <1>1, <2>1, FS_RemoveElement
  <2>3. s \ {x} \in U /\ s \ {x} \in SUBSET S /\ x \in S /\ x \notin s \ {x}
      BY <1>4, <2>2
  <2>4. (s \ {x}) \cup {x} \in U
      BY <2>3 DEF Grows
  <2>5. (s \ {x}) \cup {x} = s
      BY <2>1
  <2>. QED
      BY <2>4, <2>5
<1>. HIDE DEF N
<1>5. 0 .. Cardinality(S) \subseteq N
    BY <1>2, <1>3, <1>4, UpTo
<1>. QED
    BY <1>1, <1>5 DEF N

Total(f, S) == SumFunctionOnSet(f, S)

(* The equation by which SumFunctionOnSet is defined. *)
Chosen(s) == CHOOSE x \in s : TRUE
SumsOver(g, f, S) ==
    g = [s \in SUBSET S |-> IF s = {} THEN 0 ELSE f[Chosen(s)] + g[s \ {Chosen(s)}]]

LEMMA ChosenIn == ASSUME NEW s, s # {} PROVE Chosen(s) \in s
BY DEF Chosen

LEMMA TotalIs ==
    ASSUME NEW f, NEW S
    PROVE  Total(f, S) = (CHOOSE g : SumsOver(g, f, S))[S]
BY DEF Total, SumFunctionOnSet, FoldFunctionOnSet, MapThenFoldSet, SumsOver, Chosen

LEMMA SumsExist ==
    ASSUME NEW S, IsFiniteSet(S), NEW f, \A x \in S : f[x] \in Int
    PROVE  \E g \in [SUBSET S -> Int] : SumsOver(g, f, S)
<1>. DEFINE pick == [s \in SUBSET S |-> Chosen(s)]
            add == [x \in S |-> [a \in Int |-> f[x] + a]]
<1>1. Picks(pick, S)
    BY ChosenIn DEF Picks
<1>2. Turns(add, S, Int) /\ 0 \in Int
    BY DEF Turns
<1>3. PICK g : FoldOf(g, S, Int, 0, pick, add)
  <2>. DEFINE T == Int
  <2>1. Turns(add, S, T) /\ 0 \in T
      BY <1>2
  <2>. HIDE DEF pick, add, T
  <2>2. \E g : FoldOf(g, S, T, 0, pick, add)
      BY <1>1, <2>1, FoldOverSets
  <2>. QED
      BY <2>2 DEF T
<1>4. g \in [SUBSET S -> Int] /\ g[{}] = 0
    BY <1>3 DEF FoldOf
<1>5. ASSUME NEW s \in SUBSET S, s # {}
      PROVE  g[s] = f[Chosen(s)] + g[s \ {Chosen(s)}]
  <2>1. pick[s] = Chosen(s) /\ Chosen(s) \in S /\ g[s \ {Chosen(s)}] \in Int
      BY <1>4, <1>5, ChosenIn
  <2>2. g[s] = add[Chosen(s)][g[s \ {Chosen(s)}]]
      BY <1>3, <1>5, <2>1 DEF FoldOf
  <2>. QED
      BY <2>1, <2>2
<1>6. SumsOver(g, f, S)
    BY <1>4, <1>5 DEF SumsOver
<1>. QED
    BY <1>4, <1>6

(* The sums over the subsets of S are what the equation says of S. *)
LEMMA SumsAreTotals ==
    ASSUME NEW S, IsFiniteSet(S), NEW f, \A x \in S : f[x] \in Int,
           NEW g, SumsOver(g, f, S), NEW s \in SUBSET S
    PROVE  g[s] = Total(f, s) /\ g[s] \in Int
<1>. DEFINE h == CHOOSE h : SumsOver(h, f, s)
            n == Cardinality(s)
            N == {m \in 0 .. n : \A r \in SUBSET s : Cardinality(r) = m => g[r] = h[r] /\ g[r] \in Int}
<1>1. IsFiniteSet(s) /\ n \in Nat
    BY FS_Subset, FS_CardinalityType
<1>2. SumsOver(h, f, s)
    BY <1>1, SumsExist
<1>. HIDE DEF h
<1>3. \A r \in SUBSET s : Cardinality(r) \in 0 .. n /\ IsFiniteSet(r)
                          /\ (Cardinality(r) = 0 <=> r = {})
    BY <1>1, FS_Subset, FS_CardinalityType, FS_EmptySet
<1>4. ASSUME NEW r \in SUBSET s
      PROVE  /\ g[r] = IF r = {} THEN 0 ELSE f[Chosen(r)] + g[r \ {Chosen(r)}]
             /\ h[r] = IF r = {} THEN 0 ELSE f[Chosen(r)] + h[r \ {Chosen(r)}]
    BY <1>2 DEF SumsOver
<1>5. 0 \in N
    BY SMTT(30), <1>1, <1>3, <1>4
<1>6. ASSUME NEW m \in 1 .. n, m - 1 \in N PROVE m \in N
  <2>. SUFFICES ASSUME NEW r \in SUBSET s, Cardinality(r) = m
                PROVE  g[r] = h[r] /\ g[r] \in Int
      OBVIOUS
  <2>1. r # {} /\ Chosen(r) \in r
      BY <1>3, ChosenIn
  <2>. DEFINE q == r \ {Chosen(r)}
  <2>2. Cardinality(q) = m - 1
      BY <1>3, <2>1, FS_RemoveElement
  <2>3. g[q] = h[q] /\ g[q] \in Int
      BY <1>6, <2>2
  <2>4. f[Chosen(r)] \in Int
      BY <2>1
  <2>. HIDE DEF q
  <2>5. g[r] = f[Chosen(r)] + g[q] /\ h[r] = f[Chosen(r)] + h[q]
      BY <1>4, <2>1 DEF q
  <2>. QED
      BY <2>3, <2>4, <2>5
<1>. HIDE DEF N
<1>7. n \in N
    BY <1>1, <1>5, <1>6, UpTo
<1>8. g[s] = h[s] /\ g[s] \in Int
    BY <1>7 DEF N
<1>9. h[s] = Total(f, s)
    BY TotalIs DEF h
<1>. QED
    BY <1>8, <1>9

(* The sum of nothing, and of one element more. *)
LEMMA TotalNone == ASSUME NEW f PROVE Total(f, {}) = 0
<1>1. IsFiniteSet({}) /\ {} \in SUBSET {}
    BY FS_EmptySet
<1>2. PICK g : SumsOver(g, f, {})
    BY <1>1, SumsExist
<1>3. g[{}] = 0
    BY <1>2 DEF SumsOver
<1>. QED
    BY <1>1, <1>2, <1>3, SumsAreTotals

LEMMA TotalWithout ==
    ASSUME NEW S, IsFiniteSet(S), NEW f, \A x \in S : f[x] \in Int
    PROVE  \A s \in SUBSET S : /\ Total(f, s) \in Int
                               /\ \A x \in s : Total(f, s) = f[x] + Total(f, s \ {x})
<1>. DEFINE n == Cardinality(S)
            Each(s) == \A x \in s : Total(f, s) = f[x] + Total(f, s \ {x})
            N == {m \in 0 .. n : \A s \in SUBSET S : Cardinality(s) = m => Each(s)}
<1>1. n \in Nat
    BY FS_CardinalityType
<1>2. \A s \in SUBSET S : IsFiniteSet(s) /\ Cardinality(s) \in 0 .. n
                          /\ (Cardinality(s) = 0 <=> s = {})
    BY FS_Subset, FS_CardinalityType, FS_EmptySet
<1>3. PICK g : SumsOver(g, f, S)
    BY SumsExist
<1>4. \A s \in SUBSET S : Total(f, s) = g[s] /\ Total(f, s) \in Int
    BY <1>3, SumsAreTotals
<1>5. ASSUME NEW s \in SUBSET S, s # {}
      PROVE  Chosen(s) \in s /\ Total(f, s) = f[Chosen(s)] + Total(f, s \ {Chosen(s)})
  <2>1. Chosen(s) \in s /\ g[s] = f[Chosen(s)] + g[s \ {Chosen(s)}]
      BY <1>3, <1>5, ChosenIn DEF SumsOver
  <2>. QED
      BY <1>4, <2>1
<1>6. 0 \in N
    BY <1>1, <1>2
<1>7. ASSUME NEW m \in 1 .. n, m - 1 \in N PROVE m \in N
  <2>. SUFFICES ASSUME NEW s \in SUBSET S, Cardinality(s) = m, NEW x \in s
                PROVE  Total(f, s) = f[x] + Total(f, s \ {x})
      OBVIOUS
  <2>. DEFINE c == Chosen(s)
  <2>1. c \in s /\ Total(f, s) = f[c] + Total(f, s \ {c})
      BY <1>5
  <2>2. CASE x = c
      BY <2>1, <2>2
  <2>3. CASE x # c
    <3>. HIDE DEF c
    <3>1. Cardinality(s \ {c}) = m - 1 /\ Cardinality(s \ {x}) = m - 1
        BY <1>2, <2>1, FS_RemoveElement
    <3>2. Each(s \ {c}) /\ Each(s \ {x})
        BY <1>7, <3>1
    <3>3. /\ Total(f, s \ {c}) = f[x] + Total(f, (s \ {c}) \ {x})
          /\ Total(f, s \ {x}) = f[c] + Total(f, (s \ {x}) \ {c})
        BY <2>1, <2>3, <3>2
    <3>4. (s \ {c}) \ {x} = (s \ {x}) \ {c}
        OBVIOUS
    <3>5. f[x] \in Int /\ f[c] \in Int /\ Total(f, (s \ {x}) \ {c}) \in Int
        BY <1>4, <2>1
    <3>. DEFINE a == Total(f, s \ {c})
                b == Total(f, s \ {x})
                r == Total(f, (s \ {x}) \ {c})
    <3>6. Total(f, s) = f[c] + a /\ a = f[x] + r /\ b = f[c] + r
        BY <2>1, <3>3, <3>4
    <3>7. f[x] \in Int /\ f[c] \in Int /\ r \in Int
        BY <3>5
    <3>. HIDE DEF a, b, r
    <3>8. Total(f, s) = f[x] + b
        BY <3>6, <3>7
    <3>. QED
        BY <3>8 DEF b
  <2>. QED
      BY <2>2, <2>3
<1>. HIDE DEF N
<1>8. 0 .. n \subseteq N
    BY <1>1, <1>6, <1>7, UpTo
<1>. QED
    BY <1>2, <1>4, <1>8 DEF N

LEMMA TotalWith ==
    ASSUME NEW S, IsFiniteSet(S), NEW f, \A x \in S : f[x] \in Int,
           NEW s \in SUBSET S, NEW x \in S, x \notin s
    PROVE  Total(f, s \cup {x}) = Total(f, s) + f[x] /\ Total(f, s) \in Int
<1>1. s \cup {x} \in SUBSET S /\ x \in s \cup {x} /\ (s \cup {x}) \ {x} = s
    OBVIOUS
<1>2. Total(f, s \cup {x}) = f[x] + Total(f, s) /\ Total(f, s) \in Int
    BY <1>1, TotalWithout
<1>. QED
    BY <1>2

LEMMA TotalSame ==
    ASSUME NEW s, IsFiniteSet(s), NEW f, \A x \in s : f[x] \in Int,
           NEW g, \A x \in s : g[x] = f[x]
    PROVE  Total(g, s) = Total(f, s)
<1>. DEFINE U == {r \in SUBSET s : Total(g, r) = Total(f, r)}
<1>1. {} \in U
    BY TotalNone
<1>2. ASSUME NEW r \in SUBSET s, NEW x \in s, r \in U, x \notin r PROVE r \cup {x} \in U
  <2>1. /\ Total(f, r \cup {x}) = Total(f, r) + f[x]
        /\ Total(g, r \cup {x}) = Total(g, r) + g[x]
      BY <1>2, TotalWith
  <2>. QED
      BY <1>2, <2>1
<1>. HIDE DEF U
<1>3. Grows(U, s)
    BY <1>1, <1>2 DEF Grows
<1>4. SUBSET s \subseteq U
    BY <1>3, EverySubset
<1>. QED
    BY <1>4 DEF U

LEMMA TotalUnion ==
    ASSUME NEW S, IsFiniteSet(S), NEW f, \A x \in S : f[x] \in Int,
           NEW a \in SUBSET S, NEW b \in SUBSET S, a \cap b = {}
    PROVE  Total(f, a \cup b) = Total(f, a) + Total(f, b)
<1>. DEFINE U == {r \in SUBSET b : Total(f, a \cup r) = Total(f, a) + Total(f, r)}
<1>0. IsFiniteSet(b)
    BY FS_Subset
<1>1. {} \in U
  <2>1. a \cup {} = a /\ Total(f, a) \in Int
      BY TotalWithout
  <2>. QED
      BY <2>1, TotalNone
<1>2. ASSUME NEW r \in SUBSET b, NEW x \in b, r \in U, x \notin r PROVE r \cup {x} \in U
  <2>1. /\ Total(f, r \cup {x}) = Total(f, r) + f[x] /\ Total(f, r) \in Int
      BY <1>2, TotalWith
  <2>2. x \notin a \cup r /\ a \cup r \in SUBSET S /\ (a \cup r) \cup {x} = a \cup (r \cup {x})
      BY <1>2
  <2>3. Total(f, (a \cup r) \cup {x}) = Total(f, a \cup r) + f[x]
      BY <2>2, TotalWith
  <2>4. Total(f, a \cup (r \cup {x})) = Total(f, a \cup r) + f[x]
      BY <2>2, <2>3
  <2>5. f[x] \in Int /\ Total(f, a) \in Int /\ Total(f, a \cup r) = Total(f, a) + Total(f, r)
      BY <1>2, TotalWithout
  <2>6. Total(f, a \cup (r \cup {x})) = Total(f, a) + Total(f, r \cup {x})
      BY <2>1, <2>4, <2>5
  <2>. QED
      BY <2>6
<1>. HIDE DEF U
<1>3. Grows(U, b)
    BY <1>1, <1>2 DEF Grows
<1>4. SUBSET b \subseteq U
    BY <1>0, <1>3, EverySubset
<1>. QED
    BY <1>4 DEF U

LEMMA TotalSign ==
    ASSUME NEW s, IsFiniteSet(s), NEW f, \A x \in s : f[x] \in Int
    PROVE  /\ (\A x \in s : f[x] >= 0) => Total(f, s) >= 0
           /\ (\A x \in s : f[x] <= 0) => Total(f, s) <= 0
<1>1. ASSUME \A x \in s : f[x] >= 0 PROVE Total(f, s) >= 0
  <2>. DEFINE U == {r \in SUBSET s : Total(f, r) >= 0}
  <2>1. {} \in U
      BY TotalNone
  <2>2. ASSUME NEW r \in SUBSET s, NEW x \in s, r \in U, x \notin r PROVE r \cup {x} \in U
    <3>1. Total(f, r \cup {x}) = Total(f, r) + f[x] /\ Total(f, r) \in Int
        BY <2>2, TotalWith
    <3>. QED
        BY <1>1, <2>2, <3>1
  <2>. HIDE DEF U
  <2>3. Grows(U, s)
      BY <2>1, <2>2 DEF Grows
  <2>4. SUBSET s \subseteq U
      BY <2>3, EverySubset
  <2>. QED
      BY <2>4 DEF U
<1>2. ASSUME \A x \in s : f[x] <= 0 PROVE Total(f, s) <= 0
  <2>. DEFINE U == {r \in SUBSET s : Total(f, r) <= 0}
  <2>1. {} \in U
      BY TotalNone
  <2>2. ASSUME NEW r \in SUBSET s, NEW x \in s, r \in U, x \notin r PROVE r \cup {x} \in U
    <3>1. Total(f, r \cup {x}) = Total(f, r) + f[x] /\ Total(f, r) \in Int
        BY <2>2, TotalWith
    <3>. QED
        BY <1>2, <2>2, <3>1
  <2>. HIDE DEF U
  <2>3. Grows(U, s)
      BY <2>1, <2>2 DEF Grows
  <2>4. SUBSET s \subseteq U
      BY <2>3, EverySubset
  <2>. QED
      BY <2>4 DEF U
<1>. QED
    BY <1>1, <1>2

(* A sum is no greater than another over fewer of the terms below 0 and    *)
(* more of those above.                                                    *)
LEMMA TotalCompare ==
    ASSUME NEW S, IsFiniteSet(S), NEW f, \A x \in S : f[x] \in Int,
           NEW a \in SUBSET S, NEW b \in SUBSET S,
           \A x \in a \ b : f[x] <= 0, \A x \in b \ a : f[x] >= 0
    PROVE  Total(f, a) <= Total(f, b)
<1>. DEFINE c == a \cap b
            ma == a \ b
            mb == b \ a
<1>1. a = c \cup ma /\ b = c \cup mb /\ c \cap ma = {} /\ c \cap mb = {}
      /\ c \in SUBSET S /\ ma \in SUBSET S /\ mb \in SUBSET S
    OBVIOUS
<1>2. IsFiniteSet(ma) /\ IsFiniteSet(mb)
    BY <1>1, FS_Subset
<1>. HIDE DEF c
<1>3. Total(f, ma) <= 0 /\ Total(f, mb) >= 0
    BY <1>1, <1>2, TotalSign
<1>. HIDE DEF ma, mb
<1>4. Total(f, c \cup ma) = Total(f, c) + Total(f, ma) /\ Total(f, c \cup mb) = Total(f, c) + Total(f, mb)
    BY <1>1, TotalUnion
<1>5. Total(f, c) \in Int /\ Total(f, ma) \in Int /\ Total(f, mb) \in Int
    BY <1>1, TotalWithout
<1>6. Total(f, a) = Total(f, c) + Total(f, ma) /\ Total(f, b) = Total(f, c) + Total(f, mb)
    BY <1>1, <1>4
<1>. QED
    BY <1>3, <1>5, <1>6

LEMMA TotalDifference ==
    ASSUME NEW s, IsFiniteSet(s), NEW f, NEW g, \A x \in s : f[x] \in Int /\ g[x] \in Int,
           NEW d, \A x \in s : d[x] = f[x] - g[x]
    PROVE  Total(d, s) = Total(f, s) - Total(g, s)
<1>. DEFINE U == {r \in SUBSET s : Total(d, r) = Total(f, r) - Total(g, r)}
<1>0. \A x \in s : d[x] \in Int
    OBVIOUS
<1>1. {} \in U
    BY TotalNone
<1>2. ASSUME NEW r \in SUBSET s, NEW x \in s, r \in U, x \notin r PROVE r \cup {x} \in U
  <2>1. /\ Total(f, r \cup {x}) = Total(f, r) + f[x] /\ Total(f, r) \in Int
        /\ Total(g, r \cup {x}) = Total(g, r) + g[x] /\ Total(g, r) \in Int
      BY <1>2, TotalWith
  <2>2. Total(d, r \cup {x}) = Total(d, r) + d[x]
      BY <1>0, <1>2, TotalWith
  <2>3. d[x] = f[x] - g[x] /\ f[x] \in Int /\ g[x] \in Int /\ Total(d, r) = Total(f, r) - Total(g, r)
      BY <1>2
  <2>4. Total(d, r \cup {x}) = Total(f, r \cup {x}) - Total(g, r \cup {x})
      BY <2>1, <2>2, <2>3
  <2>. QED
      BY <2>4
<1>. HIDE DEF U
<1>3. Grows(U, s)
    BY <1>1, <1>2 DEF Grows
<1>4. SUBSET s \subseteq U
    BY <1>3, EverySubset
<1>. QED
    BY <1>4 DEF U

(* A sum of as many equal terms as there are elements. *)
LEMMA TotalConstant ==
    ASSUME NEW s, IsFiniteSet(s), NEW c \in Int, NEW f, \A x \in s : f[x] = c
    PROVE  Total(f, s) = Cardinality(s) * c
<1>. DEFINE U == {r \in SUBSET s : Total(f, r) = Cardinality(r) * c}
<1>1. {} \in U
    BY TotalNone, FS_EmptySet
<1>2. ASSUME NEW r \in SUBSET s, NEW x \in s, r \in U, x \notin r PROVE r \cup {x} \in U
  <2>1. Total(f, r \cup {x}) = Total(f, r) + f[x]
      BY <1>2, TotalWith
  <2>2. IsFiniteSet(r)
      BY FS_Subset
  <2>3. Cardinality(r) \in Nat /\ Cardinality(r \cup {x}) = Cardinality(r) + 1
      BY <1>2, <2>2, FS_CardinalityType, FS_AddElement
  <2>4. (Cardinality(r) + 1) * c = Cardinality(r) * c + c
      BY <2>3
  <2>5. f[x] = c /\ Total(f, r) = Cardinality(r) * c
      BY <1>2
  <2>6. Total(f, r \cup {x}) = Cardinality(r \cup {x}) * c
      BY <2>1, <2>3, <2>4, <2>5
  <2>. QED
      BY <2>6
<1>. HIDE DEF U
<1>3. Grows(U, s)
    BY <1>1, <1>2 DEF Grows
<1>4. SUBSET s \subseteq U
    BY <1>3, EverySubset
<1>. QED
    BY <1>4 DEF U
=============================================================================
