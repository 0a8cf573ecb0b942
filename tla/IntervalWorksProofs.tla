------------------------ MODULE IntervalWorksProofs -------------------------
(***************************************************************************)
(* The works, for every number of jobs and workers and any number of       *)
(* deaths and restarts: the three indexes agree and no interval is lost.   *)
(*                                                                         *)
(* The arithmetic on blocks is recursion over data, out of the prover's    *)
(* reach: Calculates says what the works need of it, up to twice the       *)
(* number of leaves, and TLC evaluates it.                                 *)
(***************************************************************************)
EXTENDS IntervalWorks, Sums, SequenceTheorems

(* The numbers of leaves, as the code holds them. *)
Nums == {Counted[x] : x \in 0 .. LeafCount}
Once(q) == \A i, j \in DOMAIN q : q[i] = q[j] => i = j

(* A work that is well formed, and the record of the works. *)
WorkOK(w) ==
    /\ DOMAIN w = {"begin", "end", "size", "time", "id", "pbb"}
    /\ w.begin \in Nums /\ w.end \in Nums /\ w.size \in Nums
    /\ w.time \in Nat /\ w.id \in Nat \ {0} /\ w.pbb \in BOOLEAN

Shape(s) ==
    /\ DOMAIN s = {"work", "ids", "sizes", "times", "size", "id_generator"}
    /\ IsFiniteSet(Refs(s)) /\ Refs(s) \subseteq Nat \ {0}
    /\ \A r \in Refs(s) : WorkOK(s.work[r])
    /\ s.id_generator \in Nat

(* An index lists each of its keys once. *)
Lists(q, S) == q \in Seq(S) /\ Once(q) /\ ToSet(q) = S
Keyed(s, R) == {[size |-> s.work[r].size, ref |-> r] : r \in R}
SizeMap(s) == [r \in Refs(s) |-> Value(s.work[r].size)]

(* What the three indexes hold, and the total of the sizes. *)
SizesHold(s, R) ==
    /\ Lists(s.sizes, Keyed(s, R))
    /\ s.size \in Nums /\ Value(s.size) = Total(SizeMap(s), R)
IdsHold(s, R) ==
    /\ DOMAIN s.ids = {s.work[r].id : r \in R}
    /\ \A r \in R : s.ids[s.work[r].id] = r
TimesHold(s, R) == Lists(s.times, R)

(* The sizes that are noted are those of the intervals. *)
Sized(s, R) == \A r \in R : /\ Value(s.work[r].begin) <= Value(s.work[r].end)
                            /\ s.work[r].size = size_of(s.work[r])

(* Within one operation an index may lack a work, and a size be noted      *)
(* late: Z are the works in sizes, F those whose size is right, I those in *)
(* ids, T those in times.                                                  *)
Indexed(s, Z, F, I, T) ==
    /\ Shape(s)
    /\ Z \subseteq Refs(s) /\ SizesHold(s, Z)
    /\ F \subseteq Refs(s) /\ Sized(s, F)
    /\ I \subseteq Refs(s) /\ IdsHold(s, I)
    /\ T \subseteq Refs(s) /\ TimesHold(s, T)

Sound(s) == Indexed(s, Refs(s), Refs(s), Refs(s), Refs(s))

(* The numbers that are in some work. *)
Within(s) == UNION {Numbers(s.work[r]) : r \in Refs(s)}

(* A worker's copy: finished, or an interval. *)
HeldOK(w) ==
    /\ DOMAIN w = {"begin", "end", "id"}
    /\ w.id \in Nat \cup {-1}
    /\ \/ finished(w) /\ w.end = BigInt(-1)
       \/ w.begin \in Nums /\ w.end \in Nums /\ Value(w.begin) <= Value(w.end)

(* A worker is ahead of the work of its identity: the work ends no later,  *)
(* and what the worker has passed is explored.                             *)
Ahead(s, w, X) ==
    ~finished(w) /\ w.id \in DOMAIN s.ids =>
        LET own == s.work[s.ids[w.id]]
        IN  /\ Value(own.end) <= Value(w.end)
            /\ Value(own.begin) .. Value(w.begin) - 1 \subseteq X

(* A checkpoint that may be read: intervals, identities that differ, sizes *)
(* that add up to at most all leaves, and every unexplored leaf.           *)
TextSize(texts) == [k \in 1 .. Len(texts) |-> Value(size_of(Read(texts[k])))]
TextsOK(texts, X) ==
    /\ Len(texts) \in Nat
    /\ \A k \in 1 .. Len(texts) :
         LET w == Read(texts[k])
         IN  /\ w.begin \in Nums /\ w.end \in Nums /\ Value(w.begin) <= Value(w.end)
             /\ w.id \in Nat \ {0}
    /\ \A k, m \in 1 .. Len(texts) : texts[k].id = texts[m].id => k = m
    /\ Total(TextSize(texts), 1 .. Len(texts)) <= LeafCount
    /\ Leaves \ X \subseteq UNION {Numbers(Read(texts[k])) : k \in 1 .. Len(texts)}

-----------------------------------------------------------------------------
(* The numbers of leaves are told apart, compared and read again exactly. *)
LEMMA NumsAre ==
    ASSUME Calculates
    PROVE  /\ LeafCount \in Nat
           /\ \A a \in Nums : /\ Value(a) \in 0 .. LeafCount /\ a = Counted[Value(a)]
                              /\ NumberOf(TextOf(a)) = a /\ a # BigInt(-1)
           /\ \A x \in 0 .. LeafCount : Counted[x] \in Nums /\ Value(Counted[x]) = x
           /\ \A a, b \in Nums : Value(a) = Value(b) => a = b
           /\ \A a, b \in Nums : Less(a, b) <=> Value(a) < Value(b)
           /\ BigInt(0) \in Nums /\ Value(BigInt(0)) = 0
           /\ depths[0] \in Nums /\ Value(depths[0]) = LeafCount
<1>1. LeafCount \in Nat /\ \A x \in 0 .. LeafCount : x \in 0 .. 2 * LeafCount /\ Value(Counted[x]) = x
    BY DEF Calculates
<1>2. \A a \in Nums : Value(a) \in 0 .. LeafCount /\ a = Counted[Value(a)]
    BY <1>1 DEF Nums
<1>3. \A x \in 0 .. LeafCount : Counted[x] \in Nums /\ Value(Counted[x]) = x
    BY <1>1 DEF Nums
<1>4. \A a \in Nums : NumberOf(TextOf(a)) = a
    BY <1>2 DEF Calculates
<1>5. \A a \in Nums : a # BigInt(-1)
    BY <1>2 DEF Calculates
<1>6. \A a, b \in Nums : Value(a) = Value(b) => a = b
    BY <1>2
<1>7. \A a, b \in Nums : Less(a, b) <=> Value(a) < Value(b)
  <2>. SUFFICES ASSUME NEW a \in Nums, NEW b \in Nums PROVE Less(a, b) <=> Value(a) < Value(b)
      OBVIOUS
  <2>1. Less(Counted[Value(a)], Counted[Value(b)]) <=> Value(a) < Value(b)
      BY <1>2 DEF Calculates
  <2>. QED
      BY <1>2, <2>1
<1>8. BigInt(0) \in Nums /\ Value(BigInt(0)) = 0
  <2>1. 0 \in 0 .. LeafCount /\ Counted[0] = BigInt(0)
      BY <1>1 DEF Calculates
  <2>. QED
      BY <1>3, <2>1
<1>9. depths[0] \in Nums /\ Value(depths[0]) = LeafCount
  <2>1. LeafCount \in 0 .. LeafCount /\ depths[0] = Counted[LeafCount]
      BY <1>1 DEF Calculates
  <2>. QED
      BY <1>3, <2>1
<1>. QED
    BY <1>1, <1>2, <1>3, <1>4, <1>5, <1>6, <1>7, <1>8, <1>9

(* Sums and differences that stay in range are exact. *)
LEMMA Addition ==
    ASSUME Calculates, NEW a \in Nums, NEW b \in Nums, Value(a) + Value(b) <= LeafCount
    PROVE  add(a, b) \in Nums /\ Value(add(a, b)) = Value(a) + Value(b)
<1>1. PICK x \in 0 .. LeafCount : x = Value(a) /\ a = Counted[x]
    BY NumsAre
<1>2. PICK y \in 0 .. LeafCount : y = Value(b) /\ b = Counted[y]
    BY NumsAre
<1>3. add(a, b) = Counted[x + y]
    BY <1>1, <1>2 DEF Calculates
<1>4. x + y \in 0 .. LeafCount
    BY <1>1, <1>2
<1>5. Counted[x + y] \in Nums /\ Value(Counted[x + y]) = x + y
    BY <1>4, NumsAre
<1>6. add(a, b) \in Nums /\ Value(add(a, b)) = x + y
    BY <1>3, <1>5
<1>. QED
    BY <1>1, <1>2, <1>6

LEMMA Difference ==
    ASSUME Calculates, NEW a \in Nums, NEW b \in Nums, Value(b) <= Value(a)
    PROVE  subtract(a, b) \in Nums /\ Value(subtract(a, b)) = Value(a) - Value(b)
<1>. DEFINE x == Value(a)
            y == Value(b)
<1>1. x \in 0 .. LeafCount /\ y \in 0 .. LeafCount /\ a = Counted[x] /\ b = Counted[y]
    BY NumsAre
<1>2. LeafCount \in Nat /\ y <= x
    BY NumsAre
<1>. HIDE DEF x, y
<1>3. subtract(a, b) = Counted[x - y]
    BY <1>1, <1>2 DEF Calculates
<1>4. x - y \in 0 .. LeafCount
    BY <1>1, <1>2
<1>5. Counted[x - y] \in Nums /\ Value(Counted[x - y]) = x - y
    BY <1>4, NumsAre
<1>. QED
    BY <1>3, <1>5 DEF x, y

(* The middle of a work is between its ends. *)
LEMMA Half ==
    ASSUME Calculates, NEW w, w.begin \in Nums, w.end \in Nums, Value(w.begin) <= Value(w.end)
    PROVE  /\ Middle(w) \in Nums
           /\ Value(w.begin) <= Value(Middle(w)) /\ Value(Middle(w)) <= Value(w.end)
<1>. DEFINE x == Value(w.begin)
            y == Value(w.end)
            z == (x + y) \div 2
<1>1. x \in 0 .. LeafCount /\ y \in 0 .. LeafCount /\ w.begin = Counted[x] /\ w.end = Counted[y]
    BY NumsAre
<1>2. LeafCount \in Nat /\ x <= y
    BY NumsAre
<1>. HIDE DEF x, y
<1>3. add(w.begin, w.end) = Counted[x + y]
    BY <1>1 DEF Calculates
<1>4. x + y \in 0 .. 2 * LeafCount
    BY <1>1, <1>2
<1>5. divideWithRemainder(Counted[x + y], BigInt(2)).q = Counted[z]
    BY <1>4 DEF Calculates
<1>6. Middle(w) = Counted[z]
    BY <1>3, <1>5 DEF Middle
<1>7. z \in 0 .. LeafCount /\ x <= z /\ z <= y
    BY <1>1, <1>2
<1>. HIDE DEF z
<1>8. Counted[z] \in Nums /\ Value(Counted[z]) = z
    BY <1>7, NumsAre
<1>. QED
    BY <1>6, <1>7, <1>8 DEF x, y

LEMMA Successor ==
    ASSUME Calculates, NEW a \in Nums, Value(a) < LeafCount
    PROVE  increment(a) \in Nums /\ Value(increment(a)) = Value(a) + 1
<1>. DEFINE x == Value(a)
<1>1. x \in 0 .. LeafCount /\ a = Counted[x] /\ LeafCount \in Nat /\ x < LeafCount
    BY NumsAre
<1>. HIDE DEF x
<1>2. increment(a) = Counted[x + 1]
    BY <1>1 DEF Calculates
<1>3. x + 1 \in 0 .. LeafCount
    BY <1>1
<1>4. Counted[x + 1] \in Nums /\ Value(Counted[x + 1]) = x + 1
    BY <1>3, NumsAre
<1>. QED
    BY <1>2, <1>4 DEF x

LEMMA SizeOf ==
    ASSUME Calculates, NEW w, w.begin \in Nums, w.end \in Nums, Value(w.begin) <= Value(w.end)
    PROVE  size_of(w) \in Nums /\ Value(size_of(w)) = Value(w.end) - Value(w.begin)
<1>1. Value(w.begin) \in Int /\ Value(w.end) \in Int /\ (Less(w.begin, w.end) <=> Value(w.begin) < Value(w.end))
    BY NumsAre
<1>2. CASE Less(w.begin, w.end)
    BY <1>2, Difference DEF size_of
<1>3. CASE ~Less(w.begin, w.end)
  <2>1. size_of(w) = BigInt(0)
      BY <1>3 DEF size_of
  <2>2. BigInt(0) \in Nums /\ Value(BigInt(0)) = 0
      BY NumsAre
  <2>. QED
      BY <1>1, <1>3, <2>1, <2>2
<1>. QED
    BY <1>2, <1>3

(* Sequences without repetition. *)
LEMMA Joined ==
    ASSUME NEW T, NEW u \in Seq(T), NEW v \in Seq(T)
    PROVE  /\ u \o v \in Seq(T)
           /\ Len(u \o v) = Len(u) + Len(v) /\ DOMAIN (u \o v) = 1 .. Len(u) + Len(v)
           /\ \A i \in 1 .. Len(u) : (u \o v)[i] = u[i]
           /\ \A j \in 1 .. Len(v) : (u \o v)[Len(u) + j] = v[j]
<1>1. /\ u \o v \in Seq(T) /\ Len(u \o v) = Len(u) + Len(v) /\ Len(u) \in Nat /\ Len(v) \in Nat
      /\ \A i \in 1 .. Len(u) + Len(v) : (u \o v)[i] = IF i <= Len(u) THEN u[i] ELSE v[i - Len(u)]
    BY ConcatProperties, LenProperties
<1>2. DOMAIN (u \o v) = 1 .. Len(u) + Len(v)
    BY <1>1, LenProperties
<1>3. ASSUME NEW i \in 1 .. Len(u) PROVE (u \o v)[i] = u[i]
    BY <1>1
<1>4. ASSUME NEW j \in 1 .. Len(v) PROVE (u \o v)[Len(u) + j] = v[j]
  <2>1. Len(u) + j \in 1 .. Len(u) + Len(v) /\ ~(Len(u) + j <= Len(u)) /\ (Len(u) + j) - Len(u) = j
      BY <1>1
  <2>2. (u \o v)[Len(u) + j] = IF Len(u) + j <= Len(u) THEN u[Len(u) + j] ELSE v[(Len(u) + j) - Len(u)]
      BY <1>1, <2>1
  <2>. QED
      BY <2>1, <2>2
<1>. QED
    BY <1>1, <1>2, <1>3, <1>4

(* Without one of its members, a list holds the others. *)
LEMMA RemovedOnce ==
    ASSUME NEW T, NEW q \in Seq(T), Once(q), NEW e, e \in ToSet(q)
    PROVE  /\ RemoveFirst(q, e) \in Seq(T) /\ Once(RemoveFirst(q, e))
           /\ ToSet(RemoveFirst(q, e)) = ToSet(q) \ {e}
           /\ Len(RemoveFirst(q, e)) = Len(q) - 1 /\ Len(q) \in Nat
<1>. DEFINE n == Len(q)
            H == {i \in 1 .. n : q[i] = e}
<1>1. n \in Nat /\ DOMAIN q = 1 .. n /\ q \in [1 .. n -> T]
    BY LenProperties
<1>2. PICK k \in 1 .. n : q[k] = e
    BY <1>1 DEF ToSet
<1>3. H = {k}
    BY <1>1, <1>2 DEF Once
<1>4. Min(H) = k
  <2>1. \A x \in {k} : x = k
      OBVIOUS
  <2>. HIDE DEF H
  <2>. QED
      BY <1>1, <1>2, <1>3 DEF Min
<1>5. RemoveFirst(q, e) = RemoveAt(q, k)
  <2>1. SelectInSeq(q, LAMBDA v : v = e) = k
      BY <1>3, <1>4 DEF SelectInSeq
  <2>. QED
      BY <1>2, <2>1 DEF RemoveFirst
<1>. DEFINE u == SubSeq(q, 1, k - 1)
            v == SubSeq(q, k + 1, n)
            r == u \o v
<1>6. /\ u \in Seq(T) /\ Len(u) = k - 1 /\ \A i \in 1 .. k - 1 : u[i] = q[i]
      /\ v \in Seq(T) /\ Len(v) = n - k /\ \A i \in 1 .. n - k : v[i] = q[i + k]
  <2>1. /\ u = [i \in 1 .. k - 1 |-> q[i]]
        /\ v = [i \in 1 .. n - k |-> q[i + k]]
    <3>1. u = [i \in 1 .. (k - 1) - 1 + 1 |-> q[i + 1 - 1]]
        BY <1>1, <1>2
    <3>2. v = [i \in 1 .. n - (k + 1) + 1 |-> q[i + (k + 1) - 1]]
        BY <1>1, <1>2
    <3>. QED
        BY <1>1, <1>2, <3>1, <3>2
  <2>2. k - 1 \in Nat /\ n - k \in Nat
      BY <1>1, <1>2
  <2>3. /\ \A i \in 1 .. k - 1 : q[i] \in T
        /\ \A i \in 1 .. n - k : q[i + k] \in T
      BY <1>1, <1>2
  <2>. QED
      BY <2>1, <2>2, <2>3
<1>. HIDE DEF u, v, H
<1>7. /\ r \in Seq(T) /\ Len(r) = n - 1 /\ DOMAIN r = 1 .. n - 1
      /\ \A i \in 1 .. n - 1 : r[i] = IF i < k THEN q[i] ELSE q[i + 1]
  <2>1. k - 1 \in Nat /\ n - k \in Nat /\ (k - 1) + (n - k) = n - 1
      BY <1>1, <1>2
  <2>2. /\ r \in Seq(T) /\ Len(r) = (k - 1) + (n - k) /\ DOMAIN r = 1 .. (k - 1) + (n - k)
        /\ \A i \in 1 .. k - 1 : r[i] = u[i]
        /\ \A j \in 1 .. n - k : r[(k - 1) + j] = v[j]
    <3>1. u \in Seq(T) /\ v \in Seq(T) /\ Len(u) = k - 1 /\ Len(v) = n - k
        BY <1>6
    <3>2. /\ r \in Seq(T) /\ Len(r) = Len(u) + Len(v) /\ DOMAIN r = 1 .. Len(u) + Len(v)
          /\ \A i \in 1 .. Len(u) : r[i] = u[i]
          /\ \A j \in 1 .. Len(v) : r[Len(u) + j] = v[j]
      <4>1. PICK a, b : a = u /\ b = v
          OBVIOUS
      <4>2. a \in Seq(T) /\ b \in Seq(T)
          BY <3>1, <4>1
      <4>3. /\ a \o b \in Seq(T)
            /\ Len(a \o b) = Len(a) + Len(b) /\ DOMAIN (a \o b) = 1 .. Len(a) + Len(b)
            /\ \A i \in 1 .. Len(a) : (a \o b)[i] = a[i]
            /\ \A j \in 1 .. Len(b) : (a \o b)[Len(a) + j] = b[j]
          BY <4>2, Joined
      <4>. QED
          BY <4>1, <4>3
    <3>. QED
        BY <3>1, <3>2
  <2>3. ASSUME NEW i \in 1 .. n - 1 PROVE r[i] = IF i < k THEN q[i] ELSE q[i + 1]
    <3>1. CASE i < k
        BY <1>1, <1>2, <1>6, <2>2, <3>1
    <3>2. CASE ~(i < k)
      <4>1. PICK j \in 1 .. n - k : i = (k - 1) + j /\ j + k = i + 1
        <5>1. i - (k - 1) \in 1 .. n - k
            BY <1>1, <1>2, <3>2
        <5>. QED
            BY <1>1, <1>2, <5>1
      <4>. QED
          BY <1>6, <2>2, <3>2, <4>1
    <3>. QED
        BY <3>1, <3>2
  <2>. QED
      BY <2>1, <2>2, <2>3, LenProperties
<1>8. RemoveFirst(q, e) = r
    BY <1>5 DEF RemoveAt, u, v
<1>. HIDE DEF r
<1>9. Once(r)
  <2>. SUFFICES ASSUME NEW i \in 1 .. n - 1, NEW j \in 1 .. n - 1, r[i] = r[j] PROVE i = j
      BY <1>7 DEF Once
  <2>1. PICK a \in 1 .. n : a = IF i < k THEN i ELSE i + 1
      BY <1>1, <1>2
  <2>2. PICK b \in 1 .. n : b = IF j < k THEN j ELSE j + 1
      BY <1>1, <1>2
  <2>3. q[a] = r[i] /\ q[b] = r[j]
      BY <1>7, <2>1, <2>2
  <2>4. a = b
      BY <1>1, <2>3 DEF Once
  <2>. QED
      BY <1>1, <1>2, <2>1, <2>2, <2>4
<1>10. ToSet(r) = ToSet(q) \ {e}
  <2>1. ASSUME NEW x \in ToSet(r) PROVE x \in ToSet(q) \ {e}
    <3>1. PICK i \in 1 .. n - 1 : x = r[i]
        BY <1>7 DEF ToSet
    <3>2. PICK j \in 1 .. n : x = q[j] /\ j # k
        BY <1>1, <1>2, <1>7, <3>1
    <3>. QED
        BY <1>1, <1>2, <3>2 DEF Once, ToSet
  <2>2. ASSUME NEW x \in ToSet(q) \ {e} PROVE x \in ToSet(r)
    <3>1. PICK j \in 1 .. n : x = q[j]
        BY <1>1 DEF ToSet
    <3>2. j # k
        BY <1>2, <3>1
    <3>3. CASE j < k
      <4>1. j \in 1 .. n - 1 /\ r[j] = q[j]
          BY <1>1, <1>2, <1>7, <3>3
      <4>. QED
          BY <1>7, <3>1, <4>1 DEF ToSet
    <3>4. CASE j > k
      <4>1. j - 1 \in 1 .. n - 1 /\ r[j - 1] = q[j]
          BY <1>1, <1>2, <1>7, <3>4
      <4>. QED
          BY <1>7, <3>1, <4>1 DEF ToSet
    <3>. QED
        BY <1>1, <1>2, <3>2, <3>3, <3>4
  <2>. QED
      BY <2>1, <2>2
<1>. QED
    BY <1>1, <1>7, <1>8, <1>9, <1>10

(* With a new member, wherever it is inserted, a list holds that one as    *)
(* well.                                                                   *)
LEMMA InsertedOnce ==
    ASSUME NEW T, NEW q \in Seq(T), Once(q), NEW e \in T, e \notin ToSet(q),
           NEW k \in 1 .. Len(q) + 1
    PROVE  /\ InsertAt(q, k, e) \in Seq(T) /\ Once(InsertAt(q, k, e))
           /\ ToSet(InsertAt(q, k, e)) = ToSet(q) \cup {e}
           /\ Len(InsertAt(q, k, e)) = Len(q) + 1 /\ Len(q) \in Nat
<1>. DEFINE n == Len(q)
            u == SubSeq(q, 1, k - 1)
            v == SubSeq(q, k, n)
            m == u \o <<e>>
            r == m \o v
<1>1. n \in Nat /\ DOMAIN q = 1 .. n /\ q \in [1 .. n -> T] /\ k \in Int
    BY LenProperties
<1>6. /\ u \in Seq(T) /\ Len(u) = k - 1 /\ \A i \in 1 .. k - 1 : u[i] = q[i]
      /\ v \in Seq(T) /\ Len(v) = n - k + 1 /\ \A i \in 1 .. n - k + 1 : v[i] = q[i + k - 1]
  <2>1. /\ u = [i \in 1 .. k - 1 |-> q[i]]
        /\ v = [i \in 1 .. n - k + 1 |-> q[i + k - 1]]
    <3>1. u = [i \in 1 .. (k - 1) - 1 + 1 |-> q[i + 1 - 1]]
        BY <1>1
    <3>2. v = [i \in 1 .. n - k + 1 |-> q[i + k - 1]]
        BY <1>1
    <3>. QED
        BY <1>1, <3>1, <3>2
  <2>2. k - 1 \in Nat /\ n - k + 1 \in Nat
      BY <1>1
  <2>3. /\ \A i \in 1 .. k - 1 : q[i] \in T
        /\ \A i \in 1 .. n - k + 1 : q[i + k - 1] \in T
      BY <1>1
  <2>. QED
      BY <2>1, <2>2, <2>3
<1>. HIDE DEF u, v
<1>5. /\ m \in Seq(T) /\ Len(m) = k
      /\ \A i \in 1 .. k : m[i] = IF i < k THEN q[i] ELSE e
  <2>1. <<e>> \in Seq(T) /\ Len(<<e>>) = 1 /\ <<e>>[1] = e
      OBVIOUS
  <2>2. k - 1 \in Nat /\ (k - 1) + 1 = k
      BY <1>1
  <2>3. /\ m \in Seq(T) /\ Len(m) = (k - 1) + 1
        /\ \A i \in 1 .. k - 1 : m[i] = u[i]
        /\ \A j \in 1 .. 1 : m[(k - 1) + j] = <<e>>[j]
      BY SMTT(30), <1>6, <2>1, <2>2, Joined
  <2>4. m[k] = e
      BY <2>1, <2>2, <2>3
  <2>. QED
      BY <1>1, <1>6, <2>2, <2>3, <2>4
<1>. HIDE DEF m
<1>7. /\ r \in Seq(T) /\ Len(r) = n + 1 /\ DOMAIN r = 1 .. n + 1
      /\ \A i \in 1 .. n + 1 : r[i] = IF i < k THEN q[i] ELSE IF i = k THEN e ELSE q[i - 1]
  <2>1. k \in Nat /\ n - k + 1 \in Nat /\ k + (n - k + 1) = n + 1
      BY <1>1
  <2>2. /\ r \in Seq(T) /\ Len(r) = k + (n - k + 1) /\ DOMAIN r = 1 .. k + (n - k + 1)
        /\ \A i \in 1 .. k : r[i] = m[i]
        /\ \A j \in 1 .. n - k + 1 : r[k + j] = v[j]
      BY <1>5, <1>6, <2>1, Joined
  <2>3. ASSUME NEW i \in 1 .. n + 1
        PROVE  r[i] = IF i < k THEN q[i] ELSE IF i = k THEN e ELSE q[i - 1]
    <3>1. CASE i <= k
      <4>1. i \in 1 .. k /\ (i < k \/ i = k) /\ ~(k < k)
          BY <1>1, <3>1
      <4>. QED
          BY <1>5, <2>2, <4>1
    <3>2. CASE ~(i <= k)
      <4>1. PICK j \in 1 .. n - k + 1 : i = k + j /\ j + k - 1 = i - 1
        <5>1. i - k \in 1 .. n - k + 1
            BY <1>1, <3>2
        <5>. QED
            BY <1>1, <5>1
      <4>2. ~(i < k) /\ i # k
          BY <1>1, <3>2
      <4>. QED
          BY <1>6, <2>2, <4>1, <4>2
    <3>. QED
        BY <3>1, <3>2
  <2>. QED
      BY <2>1, <2>2, <2>3, LenProperties
<1>8. InsertAt(q, k, e) = r
    BY DEF InsertAt, m, u, v
<1>. HIDE DEF r
<1>4. \A i \in 1 .. n : q[i] # e
    BY <1>1 DEF ToSet
<1>9. Once(r)
  <2>. SUFFICES ASSUME NEW i \in 1 .. n + 1, NEW j \in 1 .. n + 1, r[i] = r[j] PROVE i = j
      BY <1>7 DEF Once
  <2>1. \A h \in 1 .. n + 1 : /\ h < k => h \in 1 .. n
                              /\ h > k => h - 1 \in 1 .. n
      BY <1>1
  <2>2. CASE i = k \/ j = k
    <3>1. \A h \in 1 .. n + 1 : h # k => r[h] # e
        BY <1>1, <1>4, <1>7, <2>1
    <3>2. r[k] = e
        BY <1>1, <1>7
    <3>. QED
        BY <2>2, <3>1, <3>2
  <2>3. CASE i # k /\ j # k
    <3>1. PICK a \in 1 .. n : a = IF i < k THEN i ELSE i - 1
        BY <1>1, <2>1, <2>3
    <3>2. PICK b \in 1 .. n : b = IF j < k THEN j ELSE j - 1
        BY <1>1, <2>1, <2>3
    <3>3. q[a] = r[i] /\ q[b] = r[j]
        BY <1>7, <2>3, <3>1, <3>2
    <3>4. a = b
        BY <1>1, <3>3 DEF Once
    <3>. QED
        BY <1>1, <2>3, <3>1, <3>2, <3>4
  <2>. QED
      BY <2>2, <2>3
<1>10. ToSet(r) = ToSet(q) \cup {e}
  <2>1. ASSUME NEW x \in ToSet(r) PROVE x \in ToSet(q) \cup {e}
    <3>1. PICK i \in 1 .. n + 1 : x = r[i]
        BY <1>7 DEF ToSet
    <3>2. /\ i < k => i \in 1 .. n
          /\ i > k => i - 1 \in 1 .. n
          /\ i < k \/ i = k \/ i > k
        BY <1>1
    <3>3. x = e \/ \E h \in 1 .. n : x = q[h]
        BY <1>1, <1>7, <3>1, <3>2
    <3>. QED
        BY <1>1, <3>3 DEF ToSet
  <2>2. ASSUME NEW x \in ToSet(q) PROVE x \in ToSet(r)
    <3>1. PICK j \in 1 .. n : x = q[j]
        BY <1>1 DEF ToSet
    <3>2. CASE j < k
      <4>1. j \in 1 .. n + 1 /\ r[j] = q[j]
          BY <1>1, <1>7, <3>2
      <4>. QED
          BY <1>7, <3>1, <4>1 DEF ToSet
    <3>3. CASE ~(j < k)
      <4>1. j + 1 \in 1 .. n + 1 /\ r[j + 1] = q[j]
          BY <1>1, <1>7, <3>3
      <4>. QED
          BY <1>7, <3>1, <4>1 DEF ToSet
    <3>. QED
        BY <3>2, <3>3
  <2>3. e \in ToSet(r)
    <3>1. k \in 1 .. n + 1 /\ r[k] = e
        BY <1>1, <1>7
    <3>. QED
        BY <1>7, <3>1 DEF ToSet
  <2>. QED
      BY <2>1, <2>2, <2>3
<1>. QED
    BY <1>1, <1>7, <1>8, <1>9, <1>10

(* The same for a member that is appended. *)
LEMMA AppendedOnce ==
    ASSUME NEW T, NEW q \in Seq(T), Once(q), NEW e \in T, e \notin ToSet(q)
    PROVE  /\ Append(q, e) \in Seq(T) /\ Once(Append(q, e))
           /\ ToSet(Append(q, e)) = ToSet(q) \cup {e}
           /\ Len(Append(q, e)) = Len(q) + 1 /\ Len(q) \in Nat
<1>. DEFINE n == Len(q)
            r == Append(q, e)
<1>1. /\ n \in Nat /\ DOMAIN q = 1 .. n /\ r \in Seq(T) /\ Len(r) = n + 1 /\ DOMAIN r = 1 .. n + 1
      /\ \A i \in 1 .. n : r[i] = q[i] /\ r[n + 1] = e
    BY AppendProperties, LenProperties
<1>2. \A i \in 1 .. n : q[i] # e
    BY <1>1 DEF ToSet
<1>3. r[n + 1] = e
    BY AppendProperties
<1>. HIDE DEF r
<1>4. \A i \in 1 .. n + 1 : i \in 1 .. n \/ i = n + 1
    BY <1>1
<1>5. Once(r)
    BY <1>1, <1>2, <1>3, <1>4 DEF Once
<1>6. ToSet(r) = ToSet(q) \cup {e}
  <2>1. n + 1 \in 1 .. n + 1 /\ \A i \in 1 .. n : i \in 1 .. n + 1
      BY <1>1
  <2>. QED
      BY <1>1, <1>3, <1>4, <2>1 DEF ToSet
<1>. QED
    BY <1>1, <1>5, <1>6 DEF r

(* A list is over any set that has its members. *)
LEMMA Narrowed ==
    ASSUME NEW T, NEW q \in Seq(T)
    PROVE  q \in Seq(ToSet(q))
<1>1. Len(q) \in Nat /\ q \in [1 .. Len(q) -> T] /\ DOMAIN q = 1 .. Len(q)
    BY LenProperties
<1>2. \A i \in 1 .. Len(q) : q[i] \in ToSet(q)
    BY <1>1 DEF ToSet
<1>3. q \in [1 .. Len(q) -> ToSet(q)]
    BY <1>1, <1>2
<1>. QED
    BY <1>1, <1>3

(* There is always a number for a new work. *)
LEMMA Unused ==
    ASSUME NEW S, IsFiniteSet(S)
    PROVE  Min((1 .. Cardinality(S) + 1) \ S) \in Nat \ {0}
           /\ Min((1 .. Cardinality(S) + 1) \ S) \notin S
<1>. DEFINE n == Cardinality(S)
            F == (1 .. n + 1) \ S
<1>1. n \in Nat
    BY FS_CardinalityType
<1>2. F # {}
  <2>1. SUFFICES ASSUME F = {} PROVE FALSE
      OBVIOUS
  <2>2. 1 .. n + 1 \in SUBSET S
      BY <2>1
  <2>3. Cardinality(1 .. n + 1) <= n
      BY <2>2, FS_Subset
  <2>4. Cardinality(1 .. n + 1) = n + 1
    <3>1. 1 \in Int /\ n + 1 \in Int /\ ~(1 > n + 1) /\ (n + 1) - 1 + 1 = n + 1
        BY <1>1
    <3>. QED
        BY <3>1, FS_Interval
  <2>. QED
      BY <1>1, <2>3, <2>4
<1>3. F \subseteq Nat \ {0} /\ \A x \in F : x \notin S
    BY <1>1
<1>. HIDE DEF F, n
<1>4. PICK x \in F : \A y \in F : x <= y
    BY <1>2, <1>3, LeastNumber
<1>5. Min(F) \in F
    BY <1>4 DEF Min
<1>. QED
    BY <1>3, <1>5 DEF F, n

(* Numbers counted from the smallest. *)
Below(S, x) == {y \in S : y < x}

(* Nth counts a finite set of numbers, each once. *)
LEMMA Counting ==
    ASSUME NEW S, IsFiniteSet(S), S \subseteq Nat
    PROVE  /\ \A k \in 1 .. Cardinality(S) : Nth(S, k) \in S
           /\ \A k, m \in 1 .. Cardinality(S) : Nth(S, k) = Nth(S, m) => k = m
           /\ \A x \in S : \E k \in 1 .. Cardinality(S) : Nth(S, k) = x
<1>. DEFINE n == Cardinality(S)
            rank == [x \in S |-> Cardinality(Below(S, x)) + 1]
<1>1. n \in Nat
    BY FS_CardinalityType
<1>2. \A x \in S : IsFiniteSet(Below(S, x)) /\ Cardinality(Below(S, x)) \in Nat
  <2>. TAKE x \in S
  <2>1. Below(S, x) \in SUBSET S
      BY DEF Below
  <2>. QED
      BY <2>1, FS_Subset, FS_CardinalityType
<1>3. \A x, z \in S : x < z => rank[x] < rank[z]
  <2>. SUFFICES ASSUME NEW x \in S, NEW z \in S, x < z PROVE rank[x] < rank[z]
      OBVIOUS
  <2>1. Below(S, x) \cup {x} \in SUBSET Below(S, z) /\ x \notin Below(S, x)
    <3>1. \A y \in S : y \in Nat /\ x \in Nat /\ z \in Nat
        OBVIOUS
    <3>2. \A y \in S : y < x => y < z
        BY <3>1
    <3>3. ~(x < x)
        BY <3>1
    <3>. QED
        BY <3>2, <3>3 DEF Below
  <2>2. IsFiniteSet(Below(S, x)) /\ IsFiniteSet(Below(S, z))
        /\ Cardinality(Below(S, x)) \in Nat /\ Cardinality(Below(S, z)) \in Nat
      BY <1>2
  <2>3. Cardinality(Below(S, x) \cup {x}) = Cardinality(Below(S, x)) + 1
      BY <2>1, <2>2, FS_AddElement
  <2>4. Cardinality(Below(S, x) \cup {x}) <= Cardinality(Below(S, z))
      BY <2>1, <2>2, FS_Subset
  <2>. QED
      BY <2>2, <2>3, <2>4
<1>4. \A x \in S : rank[x] \in 1 .. n
  <2>. SUFFICES ASSUME NEW x \in S PROVE rank[x] \in 1 .. n
      OBVIOUS
  <2>1. Below(S, x) \cup {x} \in SUBSET S /\ x \notin Below(S, x)
      BY DEF Below
  <2>2. IsFiniteSet(Below(S, x)) /\ Cardinality(Below(S, x)) \in Nat
      BY <1>2
  <2>3. Cardinality(Below(S, x) \cup {x}) = Cardinality(Below(S, x)) + 1
      BY <2>1, <2>2, FS_AddElement
  <2>4. Cardinality(Below(S, x) \cup {x}) <= n
      BY <2>1, FS_Subset
  <2>. QED
      BY <1>1, <2>2, <2>3, <2>4
<1>5. \A x, z \in S : rank[x] = rank[z] => x = z
  <2>. SUFFICES ASSUME NEW x \in S, NEW z \in S, rank[x] = rank[z] PROVE x = z
      OBVIOUS
  <2>1. x \in Nat /\ z \in Nat /\ rank[x] \in Int /\ rank[z] \in Int
      BY <1>4
  <2>2. ~(x < z) /\ ~(z < x)
      BY <1>3, <2>1
  <2>. QED
      BY <2>1, <2>2
<1>6. \A k \in 1 .. n : \E x \in S : rank[x] = k
  <2>1. rank \in Injection(S, 1 .. n)
    <3>1. rank \in [S -> 1 .. n]
        BY <1>4
    <3>. HIDE DEF rank
    <3>. QED
        BY <1>5, <3>1 DEF Injection, IsInjective
  <2>2. IsFiniteSet(1 .. n) /\ Cardinality(1 .. n) = n
    <3>1. 1 \in Int /\ n \in Int /\ (1 > n => n = 0) /\ n - 1 + 1 = n
        BY <1>1
    <3>. QED
        BY <3>1, FS_Interval
  <2>. HIDE DEF rank
  <2>3. rank \in Surjection(S, 1 .. n)
      BY <2>1, <2>2, FS_Injection
  <2>. QED
      BY <2>3 DEF Surjection
<1>7. \A k \in 1 .. n : Nth(S, k) \in S /\ rank[Nth(S, k)] = k
  <2>. SUFFICES ASSUME NEW k \in 1 .. n PROVE Nth(S, k) \in S /\ rank[Nth(S, k)] = k
      OBVIOUS
  <2>1. PICK x \in S : rank[x] = k
      BY <1>6
  <2>2. Cardinality(Below(S, x)) = k - 1
      BY <1>2, <2>1
  <2>3. Nth(S, k) = CHOOSE y \in S : Cardinality(Below(S, y)) = k - 1
      BY DEF Nth, Below
  <2>4. Nth(S, k) \in S /\ Cardinality(Below(S, Nth(S, k))) = k - 1
      BY <2>2, <2>3
  <2>. QED
      BY <1>1, <2>4
<1>8. ASSUME NEW x \in S PROVE \E k \in 1 .. n : Nth(S, k) = x
  <2>1. rank[x] \in 1 .. n
      BY <1>4
  <2>2. Nth(S, rank[x]) \in S /\ rank[Nth(S, rank[x])] = rank[x]
      BY <1>7, <2>1
  <2>. HIDE DEF rank
  <2>. QED
      BY <1>5, <2>1, <2>2
<1>. HIDE DEF rank
<1>. QED
    BY <1>7, <1>8

(* A sum does not depend on the names of its terms. *)
Renames(h, I, S) ==
    /\ h \in [I -> S] /\ \A x \in S : \E i \in I : h[i] = x
    /\ \A i, j \in I : h[i] = h[j] => i = j

(* A total does not depend on how the members are numbered. *)
LEMMA TotalRenamed ==
    ASSUME NEW S, IsFiniteSet(S), NEW f, \A x \in S : f[x] \in Int,
           NEW I, IsFiniteSet(I), NEW h, Renames(h, I, S),
           NEW g, \A i \in I : g[i] = f[h[i]]
    PROVE  Total(g, I) = Total(f, S)
<1>. DEFINE Image(J) == {h[i] : i \in J}
            V == {J \in SUBSET I : Total(g, J) = Total(f, Image(J))}
<1>1. \A i \in I : g[i] \in Int /\ h[i] \in S
    BY DEF Renames
<1>2. {} \in V
  <2>1. Image({}) = {}
      OBVIOUS
  <2>. QED
      BY <2>1, TotalNone
<1>3. ASSUME NEW J \in SUBSET I, J \in V, NEW x \in I, x \notin J PROVE J \cup {x} \in V
  <2>1. Image(J \cup {x}) = Image(J) \cup {h[x]}
      OBVIOUS
  <2>2. Image(J) \in SUBSET S /\ h[x] \in S /\ h[x] \notin Image(J)
      BY <1>1, <1>3 DEF Renames
  <2>3. Total(g, J \cup {x}) = Total(g, J) + g[x]
      BY <1>1, <1>3, TotalWith
  <2>4. Total(f, Image(J) \cup {h[x]}) = Total(f, Image(J)) + f[h[x]]
    <3>1. PICK A : A = Image(J)
        OBVIOUS
    <3>2. A \in SUBSET S /\ h[x] \notin A
        BY <2>2, <3>1
    <3>3. Total(f, A \cup {h[x]}) = Total(f, A) + f[h[x]]
        BY <2>2, <3>2, TotalWith
    <3>. QED
        BY <3>1, <3>3
  <2>5. g[x] = f[h[x]] /\ Total(g, J) = Total(f, Image(J))
      BY <1>3
  <2>6. Total(g, J \cup {x}) = Total(f, Image(J \cup {x}))
      BY <2>1, <2>3, <2>4, <2>5
  <2>. QED
      BY <2>6
<1>4. Grows(V, I)
  <2>. HIDE DEF V
  <2>. QED
      BY <1>2, <1>3 DEF Grows
<1>5. I \in V
  <2>. HIDE DEF V
  <2>1. SUBSET I \subseteq V
      BY <1>4, EverySubset
  <2>. QED
      BY <2>1
<1>6. Image(I) = S
    BY DEF Renames
<1>. QED
    BY <1>5, <1>6

(* The same four facts about an index and its keys. *)
LEMMA ListsWithout ==
    ASSUME NEW S, NEW q, Lists(q, S), NEW e \in S
    PROVE  Lists(RemoveFirst(q, e), S \ {e})
<1>1. q \in Seq(S) /\ Once(q) /\ e \in ToSet(q) /\ ToSet(q) = S
    BY DEF Lists
<1>2. /\ RemoveFirst(q, e) \in Seq(S) /\ Once(RemoveFirst(q, e))
      /\ ToSet(RemoveFirst(q, e)) = S \ {e}
    BY <1>1, RemovedOnce
<1>. QED
    BY <1>2, Narrowed DEF Lists

LEMMA ListsInserted ==
    ASSUME NEW S, NEW q, Lists(q, S), NEW e, e \notin S, NEW k \in 1 .. Len(q) + 1
    PROVE  Lists(InsertAt(q, k, e), S \cup {e})
<1>. DEFINE V == S \cup {e}
<1>1. q \in Seq(S) /\ Once(q) /\ e \notin ToSet(q) /\ ToSet(q) = S /\ e \in V
    BY DEF Lists
<1>2. q \in Seq(V)
    BY <1>1
<1>. HIDE DEF V
<1>3. /\ InsertAt(q, k, e) \in Seq(V) /\ Once(InsertAt(q, k, e))
      /\ ToSet(InsertAt(q, k, e)) = S \cup {e}
    BY <1>1, <1>2, InsertedOnce
<1>. QED
    BY <1>3 DEF Lists, V

LEMMA ListsAppended ==
    ASSUME NEW S, NEW q, Lists(q, S), NEW e, e \notin S
    PROVE  Lists(Append(q, e), S \cup {e})
<1>. DEFINE V == S \cup {e}
<1>1. q \in Seq(S) /\ Once(q) /\ e \notin ToSet(q) /\ ToSet(q) = S /\ e \in V
    BY DEF Lists
<1>2. q \in Seq(V)
    BY <1>1
<1>. HIDE DEF V
<1>3. /\ Append(q, e) \in Seq(V) /\ Once(Append(q, e))
      /\ ToSet(Append(q, e)) = S \cup {e}
    BY <1>1, <1>2, AppendedOnce
<1>. QED
    BY <1>3 DEF Lists, V

LEMMA ListsNothing == Lists(<<>>, {})
BY DEF Lists, Once, ToSet

(* The first of a list, and how many there are. *)
LEMMA ListsHead ==
    ASSUME NEW S, NEW q, Lists(q, S), S # {}
    PROVE  Head(q) \in S
<1>1. q \in Seq(S) /\ ToSet(q) = S /\ Len(q) \in Nat /\ DOMAIN q = 1 .. Len(q)
    BY LenProperties DEF Lists
<1>2. PICK i \in 1 .. Len(q) : TRUE
    BY <1>1 DEF ToSet
<1>3. q # <<>>
    BY <1>1, <1>2
<1>. QED
    BY <1>1, <1>3

(* An index is as long as the works are many. *)
LEMMA ListsCount ==
    ASSUME NEW S, NEW q, Lists(q, S), NEW R, NEW g \in [S -> R],
           \A x, y \in S : g[x] = g[y] => x = y, \A z \in R : \E x \in S : g[x] = z
    PROVE  Len(q) = Cardinality(R)
<1>. DEFINE n == Len(q)
            f == [i \in 1 .. n |-> g[q[i]]]
<1>1. /\ q \in Seq(S) /\ ToSet(q) = S /\ n \in Nat /\ DOMAIN q = 1 .. n
      /\ \A i \in 1 .. n : q[i] \in S
    BY LenProperties, ElementOfSeq DEF Lists
<1>2. f \in [1 .. n -> R]
    BY <1>1
<1>3. \A i, j \in 1 .. n : f[i] = f[j] => i = j
    BY <1>1 DEF Lists, Once
<1>4. \A z \in R : \E i \in 1 .. n : f[i] = z
  <2>. TAKE z \in R
  <2>1. PICK x \in S : g[x] = z
      OBVIOUS
  <2>2. PICK i \in 1 .. n : q[i] = x
      BY <1>1 DEF ToSet
  <2>. QED
      BY <2>1, <2>2
<1>. HIDE DEF f
<1>5. f \in Bijection(1 .. n, R)
    BY <1>2, <1>3, <1>4 DEF Bijection, Injection, Surjection, IsInjective
<1>6. ExistsBijection(1 .. n, R)
    BY <1>5 DEF ExistsBijection
<1>. HIDE DEF n
<1>7. Cardinality(R) = n
    BY <1>1, <1>6, FS_CountingElements
<1>. QED
    BY <1>7 DEF n

-----------------------------------------------------------------------------
(* What a change of the works leaves as it was. *)
Kept(s, t) ==
    /\ Refs(t) = Refs(s) /\ t.id_generator = s.id_generator
    /\ \A q \in Refs(s) : /\ t.work[q].begin = s.work[q].begin /\ t.work[q].end = s.work[q].end
                          /\ t.work[q].id = s.work[q].id /\ t.work[q].pbb = s.work[q].pbb

(* Sizes and their total are as they were. *)
Stored(s, t) == t.size = s.size /\ \A q \in Refs(s) : t.work[q].size = s.work[q].size

(* An index is true as long as the fields it is made from are. *)
LEMMA SizesKept ==
    ASSUME Calculates, NEW s, Shape(s), NEW t, NEW R, SizesHold(s, R), R \subseteq Refs(s), R \subseteq Refs(t),
           t.sizes = s.sizes, t.size = s.size, \A q \in R : t.work[q].size = s.work[q].size
    PROVE  SizesHold(t, R)
<1>1. Keyed(t, R) = Keyed(s, R)
    BY DEF Keyed
<1>2. Total(SizeMap(t), R) = Total(SizeMap(s), R)
  <2>1. IsFiniteSet(R)
      BY FS_Subset DEF Shape
  <2>2. \A q \in R : SizeMap(s)[q] \in Int
      BY NumsAre DEF Shape, WorkOK, SizeMap
  <2>3. \A q \in R : SizeMap(t)[q] = SizeMap(s)[q]
      BY DEF SizeMap
  <2>. QED
      BY <2>1, <2>2, <2>3, TotalSame
<1>. QED
    BY <1>1, <1>2 DEF SizesHold

LEMMA IdsKept ==
    ASSUME NEW s, NEW t, NEW R, IdsHold(s, R), t.ids = s.ids, \A q \in R : t.work[q].id = s.work[q].id
    PROVE  IdsHold(t, R)
BY DEF IdsHold

LEMMA SizedKept ==
    ASSUME NEW s, NEW t, NEW R, Sized(s, R),
           \A q \in R : /\ t.work[q].size = s.work[q].size
                        /\ t.work[q].begin = s.work[q].begin /\ t.work[q].end = s.work[q].end
    PROVE  Sized(t, R)
BY DEF Sized, size_of

(* The time of a work is in no key. *)
LEMMA Carried ==
    ASSUME Calculates, NEW s, NEW Z, NEW F, NEW I, NEW T, Indexed(s, Z, F, I, T), NEW t,
           Kept(s, t), Stored(s, t)
    PROVE  /\ t.sizes = s.sizes => SizesHold(t, Z)
           /\ t.ids = s.ids => IdsHold(t, I)
           /\ Sized(t, F)
           /\ Z \subseteq Refs(t) /\ F \subseteq Refs(t) /\ I \subseteq Refs(t) /\ T \subseteq Refs(t)
<1>1. /\ Z \subseteq Refs(s) /\ F \subseteq Refs(s) /\ I \subseteq Refs(s) /\ T \subseteq Refs(s)
      /\ Shape(s) /\ SizesHold(s, Z) /\ IdsHold(s, I) /\ Sized(s, F) /\ Refs(t) = Refs(s)
    BY DEF Indexed, Kept
<1>2. ASSUME t.sizes = s.sizes PROVE SizesHold(t, Z)
  <2>1. t.size = s.size /\ \A q \in Z : t.work[q].size = s.work[q].size
      BY <1>1 DEF Stored
  <2>. QED
      BY <1>1, <1>2, <2>1, SizesKept
<1>3. ASSUME t.ids = s.ids PROVE IdsHold(t, I)
  <2>1. \A q \in I : t.work[q].id = s.work[q].id
      BY <1>1 DEF Kept
  <2>. QED
      BY <1>1, <1>3, <2>1, IdsKept
<1>4. Sized(t, F)
  <2>1. \A q \in F : /\ t.work[q].size = s.work[q].size
                     /\ t.work[q].begin = s.work[q].begin /\ t.work[q].end = s.work[q].end
      BY <1>1 DEF Kept, Stored
  <2>. QED
      BY <1>1, <2>1, SizedKept
<1>. QED
    BY <1>1, <1>2, <1>3, <1>4

(* times_delete and times_insert. *)
LEMMA TimesDelete ==
    ASSUME Calculates, NEW s, NEW Z, NEW F, NEW I, NEW T, Indexed(s, Z, F, I, T), NEW r \in T
    PROVE  /\ Indexed(times_delete(s, r), Z, F, I, T \ {r})
           /\ Kept(s, times_delete(s, r)) /\ Stored(s, times_delete(s, r))
<1>. DEFINE t == times_delete(s, r)
<1>1. /\ t.work = s.work /\ t.ids = s.ids /\ t.sizes = s.sizes /\ t.size = s.size
      /\ t.times = RemoveFirst(s.times, r) /\ t.id_generator = s.id_generator
      /\ DOMAIN t = DOMAIN s
    BY DEF times_delete, Indexed, Shape
<1>. HIDE DEF t
<1>2. Shape(t) /\ Refs(t) = Refs(s)
    BY <1>1 DEF Indexed, Shape, Refs
<1>3. TimesHold(t, T \ {r})
    BY <1>1, ListsWithout DEF Indexed, TimesHold
<1>4. Kept(s, t) /\ Stored(s, t)
    BY <1>1, <1>2 DEF Kept, Stored
<1>5. /\ SizesHold(t, Z) /\ IdsHold(t, I) /\ Sized(t, F)
      /\ Z \subseteq Refs(t) /\ F \subseteq Refs(t) /\ I \subseteq Refs(t) /\ T \subseteq Refs(t)
    BY <1>1, <1>4, Carried
<1>6. Indexed(t, Z, F, I, T \ {r})
    BY <1>2, <1>3, <1>5 DEF Indexed
<1>. QED
    BY <1>4, <1>6 DEF t

(* A work enters the list of times at its end. *)
LEMMA TimesInsert ==
    ASSUME Calculates, NEW s, NEW Z, NEW F, NEW I, NEW T, Indexed(s, Z, F, I, T),
           NEW r \in Refs(s), r \notin T, NEW is_fault
    PROVE  /\ Indexed(times_insert(s, r, is_fault), Z, F, I, T \cup {r})
           /\ Kept(s, times_insert(s, r, is_fault)) /\ Stored(s, times_insert(s, r, is_fault))
<1>. DEFINE t == times_insert(s, r, is_fault)
            time == IF is_fault THEN 0 ELSE 1
<1>1. /\ t.work = [s.work EXCEPT ![r].time = time]
      /\ t.ids = s.ids /\ t.sizes = s.sizes /\ t.size = s.size
      /\ t.times = Append(s.times, r) /\ t.id_generator = s.id_generator
      /\ DOMAIN t = DOMAIN s
    BY DEF times_insert, Indexed, Shape
<1>. HIDE DEF t
<1>2. Refs(t) = Refs(s)
    BY <1>1 DEF Indexed, Shape, Refs
<1>3. \A q \in Refs(s) : /\ WorkOK(t.work[q]) /\ t.work[q].size = s.work[q].size
                         /\ t.work[q].begin = s.work[q].begin /\ t.work[q].end = s.work[q].end
                         /\ t.work[q].id = s.work[q].id /\ t.work[q].pbb = s.work[q].pbb
    BY <1>1 DEF Indexed, Shape, WorkOK, Refs
<1>4. Shape(t)
    BY <1>1, <1>2, <1>3 DEF Indexed, Shape
<1>5. TimesHold(t, T \cup {r})
    BY <1>1, ListsAppended DEF Indexed, TimesHold
<1>6. Kept(s, t) /\ Stored(s, t)
    BY <1>1, <1>2, <1>3 DEF Kept, Stored
<1>7. /\ SizesHold(t, Z) /\ IdsHold(t, I) /\ Sized(t, F)
      /\ Z \subseteq Refs(t) /\ F \subseteq Refs(t) /\ I \subseteq Refs(t) /\ T \subseteq Refs(t)
    BY <1>1, <1>6, Carried
<1>8. Indexed(t, Z, F, I, T \cup {r})
    BY <1>2, <1>4, <1>5, <1>7 DEF Indexed
<1>. QED
    BY <1>6, <1>8 DEF t

(* times_update. *)
LEMMA TimesUpdate ==
    ASSUME Calculates, NEW s, NEW Z, NEW F, NEW I, NEW T, Indexed(s, Z, F, I, T), NEW r \in T
    PROVE  /\ Indexed(times_update(s, r), Z, F, I, T)
           /\ Kept(s, times_update(s, r)) /\ Stored(s, times_update(s, r))
<1>1. PICK u : u = times_delete(s, r)
    OBVIOUS
<1>2. Indexed(u, Z, F, I, T \ {r}) /\ Kept(s, u) /\ Stored(s, u)
    BY <1>1, TimesDelete
<1>3. PICK t : t = times_insert(u, r, FALSE)
    OBVIOUS
<1>4. r \in Refs(u) /\ r \notin T \ {r} /\ T = (T \ {r}) \cup {r}
    BY <1>2 DEF Indexed, Kept
<1>5. FALSE \in BOOLEAN
    OBVIOUS
<1>6. Indexed(t, Z, F, I, (T \ {r}) \cup {r}) /\ Kept(u, t) /\ Stored(u, t)
    BY <1>2, <1>3, <1>4, <1>5, TimesInsert
<1>7. Indexed(t, Z, F, I, T)
    BY <1>4, <1>6
<1>8. Kept(s, t) /\ Stored(s, t)
    BY <1>2, <1>6 DEF Kept, Stored
<1>. QED
    BY <1>1, <1>3, <1>7, <1>8 DEF times_update

(* id_insert, for an identity that nobody uses, and id_delete. *)
LEMMA IdInsert ==
    ASSUME Calculates, NEW s, NEW Z, NEW F, NEW I, NEW T, Indexed(s, Z, F, I, T),
           NEW r \in Refs(s), s.work[r].id \notin DOMAIN s.ids
    PROVE  /\ Indexed(id_insert(s, r), Z, F, I \cup {r}, T)
           /\ Kept(s, id_insert(s, r)) /\ Stored(s, id_insert(s, r))
<1>. DEFINE t == id_insert(s, r)
            id == s.work[r].id
<1>1. /\ t.ids = With(s.ids, id, r)
      /\ t.work = s.work /\ t.times = s.times /\ t.sizes = s.sizes /\ t.size = s.size
      /\ t.id_generator = s.id_generator /\ DOMAIN t = DOMAIN s
    BY DEF id_insert, Indexed, Shape
<1>. HIDE DEF t
<1>2. Shape(t) /\ Refs(t) = Refs(s)
    BY <1>1 DEF Indexed, Shape, Refs
<1>3. IdsHold(t, I \cup {r})
  <2>1. DOMAIN t.ids = DOMAIN s.ids \cup {id} /\ t.ids[id] = r
        /\ \A i \in DOMAIN s.ids : t.ids[i] = s.ids[i]
      BY <1>1 DEF With
  <2>2. IdsHold(s, I)
      BY DEF Indexed
  <2>. QED
      BY <1>1, <2>1, <2>2 DEF IdsHold
<1>4. Kept(s, t) /\ Stored(s, t)
    BY <1>1, <1>2 DEF Kept, Stored
<1>5. /\ SizesHold(t, Z) /\ Sized(t, F)
      /\ Z \subseteq Refs(t) /\ F \subseteq Refs(t) /\ I \subseteq Refs(t) /\ T \subseteq Refs(t)
    BY <1>1, <1>4, Carried
<1>6. TimesHold(t, T)
    BY <1>1 DEF Indexed, TimesHold
<1>7. Indexed(t, Z, F, I \cup {r}, T)
    BY <1>2, <1>3, <1>5, <1>6 DEF Indexed
<1>. QED
    BY <1>4, <1>7 DEF t

(* Its identity is taken out. *)
LEMMA IdDelete ==
    ASSUME Calculates, NEW s, NEW Z, NEW F, NEW I, NEW T, Indexed(s, Z, F, I, T), NEW r \in I
    PROVE  /\ Indexed(id_delete(s, r), Z, F, I \ {r}, T)
           /\ Kept(s, id_delete(s, r)) /\ Stored(s, id_delete(s, r))
<1>. DEFINE t == id_delete(s, r)
            id == s.work[r].id
<1>1. /\ t.ids = Restrict(s.ids, DOMAIN s.ids \ {id})
      /\ t.work = s.work /\ t.times = s.times /\ t.sizes = s.sizes /\ t.size = s.size
      /\ t.id_generator = s.id_generator /\ DOMAIN t = DOMAIN s
    BY DEF id_delete, Indexed, Shape
<1>. HIDE DEF t
<1>2. Shape(t) /\ Refs(t) = Refs(s)
    BY <1>1 DEF Indexed, Shape, Refs
<1>3. IdsHold(t, I \ {r})
  <2>1. DOMAIN t.ids = DOMAIN s.ids \ {id}
        /\ \A i \in DOMAIN t.ids : t.ids[i] = s.ids[i]
      BY <1>1 DEF Restrict
  <2>2. IdsHold(s, I)
      BY DEF Indexed
  <2>3. \A q \in I \ {r} : s.work[q].id # id
      BY <2>2 DEF IdsHold
  <2>. HIDE DEF id
  <2>4. DOMAIN s.ids = {s.work[q].id : q \in I} /\ s.work[r].id = id
      BY <2>2 DEF IdsHold, id
  <2>5. DOMAIN t.ids = {s.work[q].id : q \in I \ {r}}
      BY <2>1, <2>3, <2>4
  <2>6. \A q \in I \ {r} : t.ids[s.work[q].id] = q
      BY <2>1, <2>2, <2>5 DEF IdsHold
  <2>. QED
      BY <1>1, <2>5, <2>6 DEF IdsHold
<1>4. Kept(s, t) /\ Stored(s, t)
    BY <1>1, <1>2 DEF Kept, Stored
<1>5. /\ SizesHold(t, Z) /\ Sized(t, F)
      /\ Z \subseteq Refs(t) /\ F \subseteq Refs(t) /\ I \subseteq Refs(t) /\ T \subseteq Refs(t)
    BY <1>1, <1>4, Carried
<1>6. TimesHold(t, T)
    BY <1>1 DEF Indexed, TimesHold
<1>7. Indexed(t, Z, F, I \ {r}, T)
    BY <1>2, <1>3, <1>5, <1>6 DEF Indexed
<1>. QED
    BY <1>4, <1>7 DEF t

(* sizes_delete and sizes_insert. *)
LEMMA SizesDelete ==
    ASSUME Calculates, NEW s, NEW Z, NEW F, NEW I, NEW T, Indexed(s, Z, F, I, T), NEW r \in Z
    PROVE  /\ Indexed(sizes_delete(s, r), Z \ {r}, F, I, T)
           /\ Kept(s, sizes_delete(s, r))
           /\ \A q \in Refs(s) : sizes_delete(s, r).work[q].size = s.work[q].size
           /\ Value(sizes_delete(s, r).size) = Value(s.size) - Value(s.work[r].size)
<1>. DEFINE t == sizes_delete(s, r)
            entry == [size |-> s.work[r].size, ref |-> r]
            m == SizeMap(s)
<1>0. /\ Shape(s) /\ Z \subseteq Refs(s) /\ SizesHold(s, Z) /\ IsFiniteSet(Z)
      /\ F \subseteq Refs(s) /\ I \subseteq Refs(s) /\ T \subseteq Refs(s)
    BY FS_Subset DEF Indexed, Shape
<1>1. entry \in Keyed(s, Z) /\ entry \in ToSet(s.sizes)
    BY <1>0 DEF SizesHold, Lists, Keyed
<1>2. /\ t.sizes = RemoveFirst(s.sizes, entry) /\ t.size = subtract(s.size, s.work[r].size)
      /\ t.work = s.work /\ t.times = s.times /\ t.ids = s.ids
      /\ t.id_generator = s.id_generator /\ DOMAIN t = DOMAIN s
    BY <1>0, <1>1 DEF sizes_delete, Shape
<1>. HIDE DEF t
<1>3. Shape(t) /\ Refs(t) = Refs(s)
    BY <1>0, <1>2 DEF Shape, Refs
<1>4. Lists(t.sizes, Keyed(t, Z \ {r}))
  <2>1. Keyed(t, Z \ {r}) = Keyed(s, Z) \ {entry}
      BY <1>2 DEF Keyed
  <2>2. Lists(s.sizes, Keyed(s, Z))
      BY <1>0 DEF SizesHold
  <2>. HIDE DEF entry
  <2>. QED
      BY <1>1, <1>2, <2>1, <2>2, ListsWithout
<1>5. /\ \A q \in Z : m[q] = Value(s.work[q].size) /\ m[q] \in Nat /\ s.work[q].size \in Nums
    BY <1>0, NumsAre DEF Shape, WorkOK, SizeMap
<1>6. Total(m, Z) = m[r] + Total(m, Z \ {r}) /\ Total(m, Z \ {r}) \in Int /\ Total(m, Z \ {r}) >= 0
  <2>. HIDE DEF m
  <2>0. \A q \in Z : m[q] \in Int
      BY <1>5
  <2>1. \A a \in SUBSET Z : Total(m, a) \in Int /\ \A x \in a : Total(m, a) = m[x] + Total(m, a \ {x})
      BY <1>0, <2>0, TotalWithout
  <2>2. Z \in SUBSET Z /\ Z \ {r} \in SUBSET Z
      OBVIOUS
  <2>3. IsFiniteSet(Z \ {r}) /\ \A x \in Z \ {r} : m[x] \in Int /\ m[x] >= 0
      BY <1>0, <1>5, FS_RemoveElement
  <2>4. Total(m, Z \ {r}) >= 0
      BY <2>3, TotalSign
  <2>. QED
      BY <2>1, <2>2, <2>4
<1>7. t.size \in Nums /\ Value(t.size) = Value(s.size) - Value(s.work[r].size)
  <2>1. s.size \in Nums /\ s.work[r].size \in Nums /\ Value(s.size) = Total(m, Z)
      BY <1>0, <1>5 DEF SizesHold
  <2>2. Value(s.work[r].size) <= Value(s.size)
      BY <1>5, <1>6, <2>1
  <2>. QED
      BY <1>2, <2>1, <2>2, Difference
<1>8. SizesHold(t, Z \ {r})
  <2>1. SizeMap(t) = m
      BY <1>2 DEF SizeMap, Refs
  <2>2. Value(s.size) = Total(m, Z)
      BY <1>0 DEF SizesHold
  <2>3. Value(t.size) = Total(SizeMap(t), Z \ {r})
      BY <1>5, <1>6, <1>7, <2>1, <2>2
  <2>. QED
      BY <1>4, <1>7, <2>3 DEF SizesHold
<1>9. Kept(s, t) /\ \A q \in Refs(s) : t.work[q].size = s.work[q].size
    BY <1>2, <1>3 DEF Kept
<1>10. IdsHold(t, I) /\ Sized(t, F) /\ TimesHold(t, T)
    BY <1>2, IdsKept, SizedKept DEF Indexed, TimesHold
<1>11. Indexed(t, Z \ {r}, F, I, T)
    BY <1>0, <1>3, <1>8, <1>10 DEF Indexed
<1>. QED
    BY <1>7, <1>9, <1>11 DEF t

(* Its size enters the sizes and the total. *)
LEMMA SizesInsert ==
    ASSUME Calculates, NEW s, NEW Z, NEW F, NEW I, NEW T, Indexed(s, Z, F, I, T),
           NEW r \in Refs(s), r \notin Z, Value(s.work[r].begin) <= Value(s.work[r].end),
           Value(s.size) + Value(size_of(s.work[r])) <= LeafCount
    PROVE  /\ Indexed(sizes_insert(s, r), Z \cup {r}, F \cup {r}, I, T)
           /\ Kept(s, sizes_insert(s, r))
           /\ \A q \in Refs(s) : q # r => sizes_insert(s, r).work[q].size = s.work[q].size
           /\ Value(sizes_insert(s, r).size) = Value(s.size) + Value(size_of(s.work[r]))
<1>. DEFINE t == sizes_insert(s, r)
            size == size_of(s.work[r])
            entry == [size |-> size, ref |-> r]
            k == Cardinality({n \in DOMAIN s.sizes : ~Less(s.sizes[n].size, size)}) + 1
<1>0. /\ Shape(s) /\ Z \subseteq Refs(s) /\ SizesHold(s, Z) /\ IsFiniteSet(Z)
      /\ F \subseteq Refs(s) /\ I \subseteq Refs(s) /\ T \subseteq Refs(s)
    BY FS_Subset DEF Indexed, Shape
<1>1. size \in Nums /\ Value(size) \in Nat
  <2>1. s.work[r].begin \in Nums /\ s.work[r].end \in Nums /\ Value(s.work[r].begin) <= Value(s.work[r].end)
      BY <1>0 DEF Shape, WorkOK
  <2>2. size \in Nums
      BY <2>1, SizeOf
  <2>. HIDE DEF size
  <2>. QED
      BY <2>2, NumsAre
<1>2. k \in 1 .. Len(s.sizes) + 1
  <2>1. Len(s.sizes) \in Nat /\ DOMAIN s.sizes = 1 .. Len(s.sizes)
      BY <1>0, LenProperties DEF SizesHold, Lists
  <2>2. PICK l : l = {n \in DOMAIN s.sizes : ~Less(s.sizes[n].size, size)}
      OBVIOUS
  <2>3. l \in SUBSET (1 .. Len(s.sizes))
      BY <2>1, <2>2
  <2>4. IsFiniteSet(1 .. Len(s.sizes)) /\ Cardinality(1 .. Len(s.sizes)) = Len(s.sizes)
    <3>1. PICK n \in Nat : n = Len(s.sizes)
        BY <2>1
    <3>2. 1 \in Int /\ n \in Int /\ (1 > n => n = 0) /\ n - 1 + 1 = n
        BY <3>1
    <3>3. IsFiniteSet(1 .. n) /\ Cardinality(1 .. n) = n
        BY <3>2, FS_Interval
    <3>. QED
        BY <3>1, <3>3
  <2>5. Cardinality(l) \in Nat /\ Cardinality(l) <= Len(s.sizes)
      BY <2>3, <2>4, FS_Subset, FS_CardinalityType
  <2>. QED
      BY <2>1, <2>2, <2>5
<1>3. /\ t.sizes = InsertAt(s.sizes, k, entry) /\ t.size = add(s.size, size)
      /\ t.work = [s.work EXCEPT ![r].size = size] /\ t.times = s.times /\ t.ids = s.ids
      /\ t.id_generator = s.id_generator /\ DOMAIN t = DOMAIN s
    BY <1>0 DEF sizes_insert, InsertSized, Shape
<1>. HIDE DEF t, k, size
<1>4. Refs(t) = Refs(s)
    BY <1>3 DEF Refs
<1>5. /\ \A q \in Refs(s) : /\ WorkOK(t.work[q])
                            /\ q # r => t.work[q] = s.work[q]
      /\ t.work[r].size = size
      /\ Kept(s, t)
    BY <1>0, <1>1, <1>3, <1>4 DEF Shape, WorkOK, Kept, Refs
<1>6. Shape(t)
    BY <1>0, <1>3, <1>4, <1>5 DEF Shape
<1>7. Lists(t.sizes, Keyed(t, Z \cup {r}))
  <2>1. Keyed(t, Z \cup {r}) = Keyed(s, Z) \cup {entry}
    <3>1. \A q \in Z : t.work[q].size = s.work[q].size
        BY <1>0, <1>5
    <3>. QED
        BY <1>5, <3>1 DEF Keyed
  <2>2. Lists(s.sizes, Keyed(s, Z)) /\ entry \notin Keyed(s, Z)
      BY <1>0 DEF SizesHold, Keyed
  <2>. HIDE DEF entry
  <2>3. PICK q, S : q = s.sizes /\ S = Keyed(s, Z)
      OBVIOUS
  <2>4. PICK e, n : e = entry /\ n = k
      OBVIOUS
  <2>5. Lists(q, S) /\ e \notin S /\ n \in 1 .. Len(q) + 1
      BY <1>2, <2>2, <2>3, <2>4
  <2>6. Lists(InsertAt(q, n, e), S \cup {e})
      BY <2>5, ListsInserted
  <2>. QED
      BY <1>3, <2>1, <2>3, <2>4, <2>6
<1>8. t.size \in Nums /\ Value(t.size) = Value(s.size) + Value(size)
  <2>1. s.size \in Nums /\ Value(s.size) + Value(size) <= LeafCount
      BY <1>0 DEF SizesHold, size
  <2>. QED
      BY <1>1, <1>3, <2>1, Addition
<1>9. Value(t.size) = Total(SizeMap(t), Z \cup {r})
  <2>. DEFINE m == SizeMap(t)
  <2>1. \A q \in Z \cup {r} : m[q] = Value(t.work[q].size) /\ m[q] \in Int
      BY <1>0, <1>4, <1>6, NumsAre DEF Shape, WorkOK, SizeMap
  <2>2. \A q \in Z : m[q] = SizeMap(s)[q]
      BY <1>0, <1>5, <2>1 DEF SizeMap
  <2>. HIDE DEF m
  <2>3. Total(SizeMap(s), Z) = Total(m, Z)
    <3>1. \A q \in Z : m[q] \in Int /\ SizeMap(s)[q] = m[q]
        BY <2>1, <2>2
    <3>. QED
        BY <1>0, <3>1, TotalSame
  <2>4. Total(m, Z \cup {r}) = Total(m, Z) + m[r]
    <3>1. PICK Y : Y = Z \cup {r}
        OBVIOUS
    <3>2. IsFiniteSet(Y) /\ Z \in SUBSET Y /\ r \in Y /\ \A q \in Y : m[q] \in Int
        BY <1>0, <2>1, <3>1, FS_AddElement
    <3>. QED
        BY <3>2, TotalWith
  <2>5. m[r] = Value(size) /\ Value(s.size) = Total(SizeMap(s), Z)
      BY <1>0, <1>5, <2>1 DEF SizesHold
  <2>. QED
      BY <1>8, <2>3, <2>4, <2>5 DEF m
<1>10. Sized(t, F \cup {r})
  <2>1. Sized(s, F)
      BY DEF Indexed
  <2>2. ASSUME NEW q \in F, q # r
        PROVE  t.work[q].size = size_of(t.work[q]) /\ Value(t.work[q].begin) <= Value(t.work[q].end)
      BY <1>0, <1>5, <2>1, <2>2 DEF Sized
  <2>3. size_of(t.work[r]) = size_of(s.work[r])
      BY <1>5 DEF size_of, Kept
  <2>4. t.work[r].size = size_of(t.work[r]) /\ Value(t.work[r].begin) <= Value(t.work[r].end)
      BY <1>5, <2>3 DEF size, Kept
  <2>. QED
      BY <2>2, <2>4 DEF Sized
<1>11. IdsHold(t, I)
  <2>1. \A q \in I : t.work[q].id = s.work[q].id
      BY <1>0, <1>5 DEF Kept
  <2>2. IdsHold(s, I)
      BY DEF Indexed
  <2>. QED
      BY <1>3, <2>1, <2>2 DEF IdsHold
<1>12. TimesHold(t, T) /\ SizesHold(t, Z \cup {r})
    BY <1>3, <1>7, <1>8, <1>9 DEF Indexed, TimesHold, SizesHold
<1>13. Indexed(t, Z \cup {r}, F \cup {r}, I, T)
    BY <1>0, <1>4, <1>6, <1>10, <1>11, <1>12 DEF Indexed
<1>14. \A q \in Refs(s) : q # r => t.work[q].size = s.work[q].size
    BY <1>5
<1>. QED
    BY <1>5, <1>8, <1>13, <1>14 DEF t, size

(* All three indexes are true as long as the fields they are made from     *)
(* are.                                                                    *)
LEMMA Transferred ==
    ASSUME Calculates, NEW s, NEW Z, NEW F, NEW I, NEW T, Indexed(s, Z, F, I, T), NEW t, Shape(t),
           t.ids = s.ids, t.sizes = s.sizes, t.times = s.times, t.size = s.size,
           Z \subseteq Refs(t), I \subseteq Refs(t), T \subseteq Refs(t),
           NEW G, G \subseteq F, G \subseteq Refs(t),
           \A q \in Z : t.work[q].size = s.work[q].size,
           \A q \in I : t.work[q].id = s.work[q].id,
           \A q \in G : /\ t.work[q].size = s.work[q].size
                        /\ t.work[q].begin = s.work[q].begin /\ t.work[q].end = s.work[q].end
    PROVE  Indexed(t, Z, G, I, T)
<1>1. /\ Shape(s) /\ Z \subseteq Refs(s) /\ SizesHold(s, Z) /\ IdsHold(s, I) /\ TimesHold(s, T)
      /\ Sized(s, F)
    BY DEF Indexed
<1>2. SizesHold(t, Z)
    BY <1>1, SizesKept
<1>3. IdsHold(t, I)
    BY <1>1, IdsKept
<1>4. Sized(t, G)
  <2>1. Sized(s, G)
      BY <1>1 DEF Sized
  <2>. QED
      BY <2>1, SizedKept
<1>5. TimesHold(t, T)
    BY <1>1 DEF TimesHold
<1>. QED
    BY <1>2, <1>3, <1>4, <1>5 DEF Indexed

(* The ends of a work are changed. *)
Elsewhere(s, t, r) ==
    /\ DOMAIN t = DOMAIN s /\ Refs(t) = Refs(s) /\ \A q \in Refs(s) : q # r => t.work[q] = s.work[q]
    /\ t.ids = s.ids /\ t.sizes = s.sizes /\ t.times = s.times /\ t.size = s.size

LEMMA Resized ==
    ASSUME Calculates, NEW s, NEW Z, NEW F, NEW I, NEW T, Indexed(s, Z, F, I, T),
           NEW r \in Refs(s), NEW t, Elsewhere(s, t, r), t.id_generator \in Nat,
           WorkOK(t.work[r]), t.work[r].size = s.work[r].size, t.work[r].id = s.work[r].id
    PROVE  Indexed(t, Z, F \ {r}, I, T)
<1>1. /\ Shape(s) /\ Z \subseteq Refs(s) /\ F \subseteq Refs(s) /\ I \subseteq Refs(s)
      /\ T \subseteq Refs(s)
    BY DEF Indexed
<1>2. Shape(t)
    BY <1>1 DEF Elsewhere, Shape
<1>3. /\ Refs(t) = Refs(s) /\ \A q \in Refs(s) : q # r => t.work[q] = s.work[q]
      /\ t.ids = s.ids /\ t.sizes = s.sizes /\ t.times = s.times /\ t.size = s.size
    BY DEF Elsewhere
<1>4. \A q \in Refs(s) : t.work[q].size = s.work[q].size /\ t.work[q].id = s.work[q].id
    BY <1>3
<1>5. /\ \A q \in Z : t.work[q].size = s.work[q].size
      /\ \A q \in I : t.work[q].id = s.work[q].id
    BY <1>1, <1>4
<1>6. \A q \in F \ {r} : /\ t.work[q].size = s.work[q].size
                         /\ t.work[q].begin = s.work[q].begin /\ t.work[q].end = s.work[q].end
    BY <1>1, <1>3
<1>7. PICK G : G = F \ {r}
    OBVIOUS
<1>8. /\ G \subseteq F /\ G \subseteq Refs(t)
      /\ \A q \in G : /\ t.work[q].size = s.work[q].size
                      /\ t.work[q].begin = s.work[q].begin /\ t.work[q].end = s.work[q].end
    BY <1>1, <1>3, <1>6, <1>7
<1>9. Indexed(t, Z, G, I, T)
    BY <1>1, <1>2, <1>3, <1>5, <1>8, Transferred
<1>. QED
    BY <1>7, <1>9

(* A work that no index holds any more is freed. *)
LEMMA WorkFree ==
    ASSUME Calculates, NEW s, NEW Z, NEW F, NEW I, NEW T, Indexed(s, Z, F, I, T),
           NEW r \in Refs(s), r \notin Z, r \notin F, r \notin I, r \notin T
    PROVE  /\ Indexed(work_free(s, r), Z, F, I, T)
           /\ Refs(work_free(s, r)) = Refs(s) \ {r}
           /\ \A q \in Refs(s) \ {r} : work_free(s, r).work[q] = s.work[q]
           /\ work_free(s, r).id_generator = s.id_generator
<1>. DEFINE t == work_free(s, r)
<1>1. /\ Shape(s) /\ Z \subseteq Refs(s) /\ F \subseteq Refs(s) /\ I \subseteq Refs(s)
      /\ T \subseteq Refs(s)
    BY DEF Indexed
<1>2. /\ t.work = Restrict(s.work, DOMAIN s.work \ {r}) /\ DOMAIN t = DOMAIN s
      /\ t.ids = s.ids /\ t.sizes = s.sizes /\ t.times = s.times /\ t.size = s.size
      /\ t.id_generator = s.id_generator
    BY <1>1 DEF work_free, Shape
<1>. HIDE DEF t
<1>3. Refs(t) = Refs(s) \ {r} /\ \A q \in Refs(s) \ {r} : t.work[q] = s.work[q]
    BY <1>2 DEF Refs, Restrict
<1>4. IsFiniteSet(Refs(t))
    BY <1>1, <1>3, FS_RemoveElement DEF Shape
<1>5. Shape(t)
    BY <1>1, <1>2, <1>3, <1>4 DEF Shape
<1>6. /\ Z \subseteq Refs(t) /\ F \subseteq Refs(t) /\ I \subseteq Refs(t) /\ T \subseteq Refs(t)
      /\ F \subseteq F
    BY <1>1, <1>3
<1>7. /\ \A q \in Z : t.work[q].size = s.work[q].size
      /\ \A q \in I : t.work[q].id = s.work[q].id
      /\ \A q \in F : /\ t.work[q].size = s.work[q].size
                      /\ t.work[q].begin = s.work[q].begin /\ t.work[q].end = s.work[q].end
    BY <1>3, <1>6
<1>8. Indexed(t, Z, F, I, T)
    BY ZenonT(60), <1>2, <1>5, <1>6, <1>7, Transferred
<1>. QED
    BY <1>2, <1>3, <1>8 DEF t

(* A new work, which no index holds yet. *)
LEMMA WorkMade ==
    ASSUME Calculates, NEW s, NEW Z, NEW F, NEW I, NEW T, Indexed(s, Z, F, I, T),
           NEW b \in Nums, NEW e \in Nums, NEW pbb \in BOOLEAN
    PROVE  /\ Indexed(NewWork(s, b, e, pbb), Z, F, I, T)
           /\ NewRef(s) \notin Refs(s)
           /\ Refs(NewWork(s, b, e, pbb)) = Refs(s) \cup {NewRef(s)}
           /\ \A q \in Refs(s) : NewWork(s, b, e, pbb).work[q] = s.work[q]
           /\ NewWork(s, b, e, pbb).work[NewRef(s)] =
                [begin |-> b, end |-> e, size |-> BigInt(0), time |-> 0,
                 id |-> s.id_generator + 1, pbb |-> pbb]
           /\ NewWork(s, b, e, pbb).id_generator = s.id_generator + 1
           /\ NewWork(s, b, e, pbb).size = s.size /\ NewWork(s, b, e, pbb).ids = s.ids
<1>. DEFINE t == NewWork(s, b, e, pbb)
            r == NewRef(s)
            w == [begin |-> b, end |-> e, size |-> BigInt(0), time |-> 0,
                  id |-> s.id_generator + 1, pbb |-> pbb]
<1>1. /\ Shape(s) /\ Z \subseteq Refs(s) /\ F \subseteq Refs(s) /\ I \subseteq Refs(s)
      /\ T \subseteq Refs(s) /\ s.id_generator \in Nat /\ IsFiniteSet(Refs(s))
    BY DEF Indexed, Shape
<1>2. r \in Nat \ {0} /\ r \notin Refs(s)
    BY <1>1, Unused DEF NewRef
<1>3. /\ t.work = With(s.work, r, w) /\ DOMAIN t = DOMAIN s
      /\ t.ids = s.ids /\ t.sizes = s.sizes /\ t.times = s.times /\ t.size = s.size
      /\ t.id_generator = s.id_generator + 1
    BY <1>1 DEF NewWork, Shape
<1>4. WorkOK(w)
  <2>1. BigInt(0) \in Nums
      BY NumsAre
  <2>2. s.id_generator + 1 \in Nat \ {0}
      BY <1>1
  <2>. QED
      BY <2>1, <2>2 DEF WorkOK
<1>. HIDE DEF t, w, r
<1>5. Refs(t) = Refs(s) \cup {r} /\ (\A q \in Refs(s) : t.work[q] = s.work[q]) /\ t.work[r] = w
    BY <1>2, <1>3 DEF Refs, With
<1>6. IsFiniteSet(Refs(t))
    BY <1>1, <1>5, FS_AddElement
<1>7. Shape(t)
    BY <1>1, <1>2, <1>3, <1>4, <1>5, <1>6 DEF Shape
<1>8. /\ Z \subseteq Refs(t) /\ F \subseteq Refs(t) /\ I \subseteq Refs(t) /\ T \subseteq Refs(t)
      /\ F \subseteq F
    BY <1>1, <1>5
<1>9. /\ \A q \in Z : t.work[q].size = s.work[q].size
      /\ \A q \in I : t.work[q].id = s.work[q].id
      /\ \A q \in F : /\ t.work[q].size = s.work[q].size
                      /\ t.work[q].begin = s.work[q].begin /\ t.work[q].end = s.work[q].end
    BY <1>1, <1>5
<1>10. Indexed(t, Z, F, I, T)
    BY <1>3, <1>7, <1>8, <1>9, Transferred
<1>. QED
    BY <1>2, <1>3, <1>5, <1>10 DEF t, w, r

(* sizes_update. *)
LEMMA SizesUpdate ==
    ASSUME Calculates, NEW s, NEW Z, NEW F, NEW I, NEW T, Indexed(s, Z, F, I, T), NEW r \in Z,
           Value(s.work[r].begin) <= Value(s.work[r].end),
           Value(size_of(s.work[r])) <= Value(s.work[r].size)
    PROVE  /\ Indexed(sizes_update(s, r), Z, F \cup {r}, I, T)
           /\ Kept(s, sizes_update(s, r))
           /\ Value(sizes_update(s, r).size)
                = Value(s.size) - Value(s.work[r].size) + Value(size_of(s.work[r]))
<1>1. PICK u : u = sizes_delete(s, r)
    OBVIOUS
<1>2. /\ Indexed(u, Z \ {r}, F, I, T) /\ Kept(s, u)
      /\ Value(u.size) = Value(s.size) - Value(s.work[r].size)
    BY <1>1, SizesDelete
<1>3. r \in Refs(s) /\ r \in Refs(u) /\ size_of(u.work[r]) = size_of(s.work[r])
      /\ u.work[r].begin = s.work[r].begin /\ u.work[r].end = s.work[r].end
    BY <1>2 DEF Indexed, Kept, size_of
<1>4. /\ s.size \in Nums /\ Value(s.size) \in 0 .. LeafCount /\ LeafCount \in Nat
      /\ Value(s.work[r].size) \in Nat /\ Value(size_of(s.work[r])) \in Nat
  <2>1. /\ s.size \in Nums /\ s.work[r].size \in Nums
        /\ s.work[r].begin \in Nums /\ s.work[r].end \in Nums
      BY <1>3 DEF Indexed, Shape, SizesHold, WorkOK
  <2>2. size_of(s.work[r]) \in Nums
      BY <2>1, SizeOf
  <2>. QED
      BY <2>1, <2>2, NumsAre
<1>5. Value(u.size) + Value(size_of(u.work[r])) <= LeafCount
    BY <1>2, <1>3, <1>4
<1>6. PICK t : t = sizes_insert(u, r)
    OBVIOUS
<1>7. r \notin Z \ {r} /\ Value(u.work[r].begin) <= Value(u.work[r].end) /\ (Z \ {r}) \cup {r} = Z
    BY <1>3
<1>8. /\ Indexed(t, (Z \ {r}) \cup {r}, F \cup {r}, I, T) /\ Kept(u, t)
      /\ Value(t.size) = Value(u.size) + Value(size_of(u.work[r]))
    BY <1>2, <1>3, <1>5, <1>6, <1>7, SizesInsert
<1>9. Indexed(t, Z, F \cup {r}, I, T) /\ Kept(s, t)
    BY <1>2, <1>7, <1>8 DEF Kept
<1>. QED
    BY <1>1, <1>2, <1>3, <1>6, <1>8, <1>9 DEF sizes_update

(* Updated: the work of a worker that exchanges it is freed, or its sizes  *)
(* and times are brought up to date.                                       *)
Others(s, t, r) ==
    \A q \in Refs(t) \ {r} : /\ q \in Refs(s)
                             /\ t.work[q].begin = s.work[q].begin /\ t.work[q].end = s.work[q].end
                             /\ t.work[q].id = s.work[q].id

(* All is in order, but that the size of one work is not yet known. *)
Unsized(s, r) == r \in Refs(s) /\ Indexed(s, Refs(s), Refs(s) \ {r}, Refs(s), Refs(s))

(* A work with nothing left goes out of all indexes and is freed. *)
LEMMA UpdatedEmpty ==
    ASSUME Calculates, NEW s, NEW r, Unsized(s, r),
           NEW t, t = work_free(id_delete(sizes_delete(times_delete(s, r), r), r), r)
    PROVE  /\ Sound(t) /\ Refs(t) = Refs(s) \ {r} /\ Others(s, t, r)
           /\ t.id_generator = s.id_generator
<1>. DEFINE R == Refs(s)
            Q == R \ {r}
<1>0. r \in R /\ r \notin Q
    BY DEF Unsized
<1>1. PICK a : a = times_delete(s, r)
    OBVIOUS
<1>2. PICK b : b = sizes_delete(a, r)
    OBVIOUS
<1>3. PICK c : c = id_delete(b, r)
    OBVIOUS
<1>4. PICK d : d = work_free(c, r)
    OBVIOUS
<1>5. Indexed(s, R, Q, R, R)
    BY DEF Unsized
<1>. HIDE DEF Q, R
<1>6. Indexed(a, R, Q, R, R \ {r}) /\ Kept(s, a)
    BY <1>0, <1>1, <1>5, TimesDelete
<1>7. Indexed(b, R \ {r}, Q, R, R \ {r}) /\ Kept(a, b)
    BY <1>0, <1>2, <1>6, SizesDelete
<1>8. Indexed(c, R \ {r}, Q, R \ {r}, R \ {r}) /\ Kept(b, c)
    BY <1>0, <1>3, <1>7, IdDelete
<1>9. Refs(c) = R /\ Kept(s, c)
    BY <1>6, <1>7, <1>8 DEF Kept, R
<1>10. Indexed(c, Q, Q, Q, Q) /\ r \in Refs(c)
    BY <1>0, <1>8, <1>9 DEF Q
<1>11. /\ Indexed(d, Q, Q, Q, Q) /\ Refs(d) = Refs(c) \ {r}
       /\ \A q \in Refs(c) \ {r} : d.work[q] = c.work[q]
       /\ d.id_generator = c.id_generator
    BY <1>0, <1>4, <1>10, WorkFree
<1>12. Refs(d) = Q /\ Sound(d)
    BY <1>9, <1>11 DEF Q, Sound
<1>13. Others(s, d, r) /\ d.id_generator = s.id_generator
    BY <1>9, <1>11, <1>12 DEF Others, Kept, Q
<1>. QED
    BY <1>1, <1>2, <1>3, <1>4, <1>12, <1>13 DEF Q, R

(* A work with something left is noted with its new size. *)
LEMMA UpdatedInPlace ==
    ASSUME Calculates, NEW s, NEW r, Unsized(s, r),
           Value(s.work[r].begin) <= Value(s.work[r].end),
           Value(size_of(s.work[r])) <= Value(s.work[r].size),
           NEW t, t = sizes_update(times_update(s, r), r)
    PROVE  Sound(t) /\ Kept(s, t)
<1>0. PICK R : R = Refs(s)
    OBVIOUS
<1>1. PICK Q : Q = R \ {r}
    OBVIOUS
<1>2. PICK u : u = times_update(s, r)
    OBVIOUS
<1>3. Indexed(u, R, Q, R, R) /\ Kept(s, u) /\ Stored(s, u) /\ r \in R
  <2>1. Indexed(s, R, Q, R, R) /\ r \in R
      BY <1>0, <1>1 DEF Unsized
  <2>. QED
      BY <1>2, <2>1, TimesUpdate
<1>4. /\ u.work[r].begin = s.work[r].begin /\ u.work[r].end = s.work[r].end
      /\ u.work[r].size = s.work[r].size
    BY <1>0, <1>3 DEF Kept, Stored
<1>5. /\ Value(u.work[r].begin) <= Value(u.work[r].end)
      /\ Value(size_of(u.work[r])) <= Value(u.work[r].size)
    BY <1>4 DEF size_of
<1>6. t = sizes_update(u, r)
    BY <1>2
<1>7. Indexed(t, R, Q \cup {r}, R, R) /\ Kept(u, t)
    BY <1>3, <1>5, <1>6, SizesUpdate
<1>8. Q \cup {r} = R /\ Refs(t) = R /\ Kept(s, t)
    BY <1>0, <1>1, <1>3, <1>7 DEF Kept
<1>. QED
    BY <1>7, <1>8 DEF Sound

(* _update shortens the work of an identity, and loses nothing else. *)
Shortened(s, t, r, lo, hi) ==
    /\ r \in Refs(s) /\ Others(s, t, r)
    /\ \/ Refs(t) = Refs(s) \ {r} /\ Value(lo) >= Value(hi)
       \/ /\ Refs(t) = Refs(s) /\ Value(lo) < Value(hi)
          /\ t.work[r].begin = lo /\ t.work[r].end = hi /\ t.work[r].id = s.work[r].id

(* The ends of an intersection. *)
LEMMA EndsOf ==
    ASSUME Calculates, NEW a \in Nums, NEW b \in Nums
    PROVE  /\ Larger(a, b) \in Nums /\ Smaller(a, b) \in Nums
           /\ Value(Larger(a, b)) >= Value(a) /\ Value(Larger(a, b)) >= Value(b)
           /\ Value(Larger(a, b)) \in {Value(a), Value(b)}
           /\ Value(Smaller(a, b)) <= Value(a) /\ Value(Smaller(a, b)) <= Value(b)
           /\ Value(Smaller(a, b)) \in {Value(a), Value(b)}
<1>1. /\ Value(a) \in Int /\ Value(b) \in Int
      /\ (Less(a, b) <=> Value(a) < Value(b)) /\ (Less(b, a) <=> Value(b) < Value(a))
    BY NumsAre
<1>. QED
    BY <1>1 DEF Larger, Smaller

(* The progress of a worker is noted, and the indexes agree again. *)
LEMMA UpdateSound ==
    ASSUME Calculates, NEW s, Sound(s), NEW w, w.begin \in Nums, w.end \in Nums
    PROVE  LET a == _update(s, w)
               r == s.ids[w.id]
               own == s.work[r]
           IN  /\ Sound(a.s) /\ a.s.id_generator = s.id_generator
               /\ a.ref \in Refs(a.s) \cup {NULL} /\ (a.ref # NULL => Refs(a.s) # {})
               /\ \/ w.id \notin DOMAIN s.ids /\ a.s = s
                  \/ w.id \in DOMAIN s.ids
                     /\ Shortened(s, a.s, r, Larger(own.begin, w.begin), Smaller(own.end, w.end))
<1>1. CASE w.id \notin DOMAIN s.ids
    BY <1>1 DEF _update, NULL
<1>2. CASE w.id \in DOMAIN s.ids
  <2>. DEFINE r == s.ids[w.id]
              own == s.work[r]
              R == Refs(s)
              lo == Larger(own.begin, w.begin)
              hi == Smaller(own.end, w.end)
              met == [s EXCEPT !.work[r] = intersection(@, w)]
  <2>1. /\ Shape(s) /\ Indexed(s, R, R, R, R) /\ IdsHold(s, R) /\ Sized(s, R)
      BY DEF Sound, Indexed
  <2>2. r \in R /\ r \in Nat \ {0} /\ own.id = w.id
      BY <1>2, <2>1 DEF IdsHold, Shape
  <2>3. /\ WorkOK(own) /\ own.begin \in Nums /\ own.end \in Nums
        /\ Value(own.begin) <= Value(own.end) /\ own.size = size_of(own)
      BY <2>1, <2>2 DEF Shape, Sized, WorkOK
  <2>4. /\ lo \in Nums /\ hi \in Nums /\ Value(lo) >= Value(own.begin) /\ Value(hi) <= Value(own.end)
      BY <2>3, EndsOf
  <2>5. /\ DOMAIN met = DOMAIN s /\ met.ids = s.ids /\ met.sizes = s.sizes /\ met.times = s.times
        /\ met.size = s.size /\ met.id_generator = s.id_generator
        /\ met.work = [s.work EXCEPT ![r] = [own EXCEPT !.begin = lo, !.end = hi]]
      BY <2>1 DEF Shape, intersection
  <2>6. _update(s, w) = Updated(met, r)
      BY <1>2 DEF _update
  <2>. HIDE DEF met, lo, hi
  <2>7. /\ Refs(met) = R /\ \A q \in R : q # r => met.work[q] = s.work[q]
        /\ met.work[r] = [own EXCEPT !.begin = lo, !.end = hi]
      BY <2>2, <2>5 DEF Refs
  <2>8. /\ met.work[r].begin = lo /\ met.work[r].end = hi /\ met.work[r].id = own.id
        /\ met.work[r].size = own.size /\ WorkOK(met.work[r])
      BY <2>3, <2>4, <2>7 DEF WorkOK
  <2>9. Elsewhere(s, met, r) /\ met.id_generator \in Nat
      BY <2>1, <2>5, <2>7 DEF Elsewhere, Shape
  <2>. HIDE DEF r, own, R
  <2>10. PICK v : v = r
      OBVIOUS
  <2>11. v \in Refs(s) /\ Elsewhere(s, met, v) /\ WorkOK(met.work[v])
         /\ met.work[v].size = s.work[v].size /\ met.work[v].id = s.work[v].id
      BY <2>2, <2>8, <2>9, <2>10 DEF R, own
  <2>12. PICK A, m : A = R /\ m = met
      OBVIOUS
  <2>13. Indexed(m, A, A \ {v}, A, A)
      BY <2>1, <2>9, <2>11, <2>12, Resized
  <2>14. A = Refs(m) /\ A = Refs(s) /\ v \in A /\ m.id_generator = s.id_generator
         /\ \A q \in A \ {v} : m.work[q] = s.work[q]
      BY <2>2, <2>5, <2>7, <2>10, <2>12 DEF R
  <2>20. Unsized(m, v)
      BY <2>13, <2>14 DEF Unsized
  <2>15. /\ m.work[v].begin = lo /\ m.work[v].end = hi /\ m.work[v].id = s.work[v].id
         /\ m.work[v].size = s.work[v].size
      BY <2>8, <2>10, <2>11, <2>12
  <2>16. (empty(m.work[v]) <=> Value(lo) >= Value(hi)) /\ Value(lo) \in Nat /\ Value(hi) \in Nat
      BY <2>4, <2>15, NumsAre DEF empty
  <2>17. CASE empty(m.work[v])
    <3>1. PICK t : t = work_free(id_delete(sizes_delete(times_delete(m, v), v), v), v)
        OBVIOUS
    <3>0. /\ Sound(t) /\ Refs(t) = Refs(m) \ {v} /\ Others(m, t, v)
          /\ t.id_generator = m.id_generator
        BY <2>20, <3>1, UpdatedEmpty
    <3>2. Sound(t) /\ Refs(t) = A \ {v} /\ Others(m, t, v) /\ t.id_generator = m.id_generator
        BY <2>14, <3>0
    <3>3. Updated(m, v).s = t /\ Updated(m, v).ref = NULL
        BY <2>17, <3>1 DEF Updated
    <3>4. Shortened(s, t, v, lo, hi)
        BY <2>14, <2>16, <2>17, <3>2 DEF Shortened, Others
    <3>. QED
        BY <1>2, <2>6, <2>10, <2>12, <2>14, <3>2, <3>3, <3>4 DEF r, own, lo, hi
  <2>18. CASE ~empty(m.work[v])
    <3>1. PICK t : t = sizes_update(times_update(m, v), v)
        OBVIOUS
    <3>2. /\ Value(lo) < Value(hi) /\ Value(m.work[v].begin) <= Value(m.work[v].end)
        BY <2>15, <2>16, <2>18
    <3>3. Value(size_of(m.work[v])) <= Value(m.work[v].size)
      <4>1. /\ Value(size_of(m.work[v])) = Value(hi) - Value(lo)
          BY <2>4, <2>15, <3>2, SizeOf
      <4>2. Value(own.size) = Value(own.end) - Value(own.begin)
          BY <2>3, SizeOf
      <4>3. Value(own.end) \in Nat /\ Value(own.begin) \in Nat
          BY <2>3, NumsAre
      <4>. QED
          BY <2>4, <2>8, <2>10, <2>12, <2>16, <4>1, <4>2, <4>3
    <3>4. Sound(t) /\ Kept(m, t)
        BY <2>14, <2>20, <3>1, <3>2, <3>3, UpdatedInPlace
    <3>5. Updated(m, v).s = t /\ Updated(m, v).ref = v
        BY <2>18, <3>1 DEF Updated
    <3>6. Shortened(s, t, v, lo, hi)
        BY <2>14, <2>15, <3>2, <3>4 DEF Shortened, Others, Kept
    <3>7. Refs(t) = A /\ v \in A /\ t.id_generator = s.id_generator
        BY <2>14, <3>4 DEF Kept
    <3>. QED
        BY <1>2, <2>6, <2>10, <2>12, <2>14, <3>4, <3>5, <3>6, <3>7 DEF r, own, lo, hi
  <2>. QED
      BY <2>17, <2>18
<1>. QED
    BY <1>1, <1>2

(* _fault and _oldest give the work that waited longest once more. *)
LEMMA Given ==
    ASSUME Calculates, NEW s, Sound(s), Refs(s) # {}
    PROVE  /\ times_oldest(s) \in Refs(s)
           /\ Sound(times_update(s, times_oldest(s))) /\ Kept(s, times_update(s, times_oldest(s)))
<1>1. PICK R : R = Refs(s)
    OBVIOUS
<1>2. Indexed(s, R, R, R, R) /\ Lists(s.times, R) /\ R # {}
    BY <1>1 DEF Sound, Indexed, TimesHold
<1>3. PICK r : r = times_oldest(s)
    OBVIOUS
<1>4. r \in R
    BY <1>2, <1>3, ListsHead DEF times_oldest
<1>5. PICK t : t = times_update(s, r)
    OBVIOUS
<1>6. Indexed(t, R, R, R, R) /\ Kept(s, t)
    BY <1>2, <1>4, <1>5, TimesUpdate
<1>7. Sound(t)
    BY <1>1, <1>6 DEF Kept, Sound
<1>. QED
    BY <1>1, <1>3, <1>4, <1>5, <1>6, <1>7

(* _big divides the largest work in two. *)
Halved(s, t, r, new, m) ==
    /\ r \in Refs(s) /\ new \in Nat \ {0} /\ new \notin Refs(s) /\ Refs(t) = Refs(s) \cup {new}
    /\ Value(s.work[r].begin) <= Value(m) /\ Value(m) <= Value(s.work[r].end) /\ m \in Nums
    /\ \A q \in Refs(s) : /\ t.work[q].begin = s.work[q].begin /\ t.work[q].id = s.work[q].id
                          /\ t.work[q].end = IF q = r THEN m ELSE s.work[q].end
    /\ t.work[new].begin = m /\ t.work[new].end = s.work[r].end
    /\ t.work[new].id = s.id_generator + 1 /\ t.id_generator = s.id_generator + 1

(* Both halves are indexed, the second under a new identity. *)
LEMMA DividedSound ==
    ASSUME Calculates, NEW s, Sound(s), NEW r \in Refs(s), NEW m, m = Middle(s.work[r]), NEW new,
           new = NewRef(s)
    PROVE  LET d == Divided(s, r, [first |-> m, second |-> m])
           IN  /\ Halved(s, d, r, new, m)
               /\ Indexed(d, Refs(s), Refs(s) \ {r}, Refs(s), Refs(s))
               /\ d.size = s.size /\ d.work[r].size = s.work[r].size
<1>. DEFINE own == s.work[r]
<1>1. PICK R : R = Refs(s)
    OBVIOUS
<1>2. Indexed(s, R, R, R, R) /\ r \in R /\ Shape(s) /\ WorkOK(own)
      /\ Value(own.begin) <= Value(own.end)
    BY <1>1 DEF Sound, Indexed, Shape, Sized
<1>3. own.begin \in Nums /\ own.end \in Nums /\ own.pbb \in BOOLEAN
    BY <1>2 DEF WorkOK
<1>4. m \in Nums /\ Value(own.begin) <= Value(m) /\ Value(m) <= Value(own.end)
    BY <1>2, <1>3, Half
<1>5. PICK n : n = NewWork(s, m, own.end, own.pbb)
    OBVIOUS
<1>6. PICK w : w = [begin |-> m, end |-> own.end, size |-> BigInt(0), time |-> 0,
                    id |-> s.id_generator + 1, pbb |-> own.pbb]
    OBVIOUS
<1>7. /\ Indexed(n, R, R, R, R) /\ new \notin R /\ Refs(n) = R \cup {new}
      /\ \A q \in R : n.work[q] = s.work[q]
      /\ n.work[new] = w /\ n.id_generator = s.id_generator + 1 /\ n.size = s.size
    BY <1>1, <1>2, <1>3, <1>4, <1>5, <1>6, WorkMade
<1>8. r \in Refs(n) /\ Shape(n) /\ r # new /\ n.work[r] = own
    BY <1>2, <1>7 DEF Indexed
<1>9. PICK d : d = [n EXCEPT !.work[r].end = m]
    OBVIOUS
<1>10. /\ DOMAIN d = DOMAIN n /\ d.ids = n.ids /\ d.sizes = n.sizes /\ d.times = n.times
       /\ d.size = n.size /\ d.id_generator = n.id_generator
       /\ d.work = [n.work EXCEPT ![r] = [own EXCEPT !.end = m]]
    BY <1>8, <1>9 DEF Shape
<1>. HIDE DEF own
<1>11. /\ Refs(d) = Refs(n) /\ \A q \in Refs(n) : q # r => d.work[q] = n.work[q]
       /\ d.work[r] = [own EXCEPT !.end = m]
    BY <1>8, <1>10 DEF Refs
<1>12. /\ WorkOK(d.work[r]) /\ d.work[r].size = own.size /\ d.work[r].id = own.id
       /\ d.work[r].begin = own.begin /\ d.work[r].end = m
    BY <1>2, <1>4, <1>11 DEF WorkOK
<1>13. Elsewhere(n, d, r) /\ d.id_generator \in Nat
    BY <1>8, <1>10, <1>11 DEF Elsewhere, Shape
<1>14. Indexed(d, R, R \ {r}, R, R)
    BY <1>7, <1>8, <1>12, <1>13, Resized
<1>15. Halved(s, d, r, new, m)
  <2>1. new \in Nat \ {0}
      BY <1>7, <1>8 DEF Shape
  <2>2. /\ \A q \in R : /\ d.work[q].begin = s.work[q].begin /\ d.work[q].id = s.work[q].id
                        /\ d.work[q].end = IF q = r THEN m ELSE s.work[q].end
      BY <1>7, <1>11, <1>12 DEF own
  <2>3. d.work[new] = w
      BY <1>7, <1>8, <1>11
  <2>. QED
      BY <1>1, <1>4, <1>6, <1>7, <1>10, <1>11, <2>1, <2>2, <2>3 DEF Halved, own
<1>16. Divided(s, r, [first |-> m, second |-> m]) = d
    BY <1>5, <1>9 DEF Divided, own
<1>. QED
    BY <1>1, <1>7, <1>10, <1>12, <1>14, <1>15, <1>16 DEF own

(* Either no work is big, or the largest is halved. *)
LEMMA BigSound ==
    ASSUME Calculates, NEW s, Sound(s), Refs(s) # {}, NEW b, b = _big(s)
    PROVE  \/ b.ref = NULL
           \/ \E r, m, I : /\ Halved(s, b.s, r, b.ref, m)
                           /\ Indexed(b.s, Refs(b.s), Refs(b.s), I, Refs(b.s))
                           /\ s.id_generator + 1 \notin DOMAIN s.ids => I = Refs(b.s)
<1>1. PICK R : R = Refs(s)
    OBVIOUS
<1>2. Indexed(s, R, R, R, R) /\ Shape(s) /\ Lists(s.sizes, Keyed(s, R)) /\ R # {}
      /\ SizesHold(s, R) /\ Sized(s, R) /\ IdsHold(s, R)
    BY <1>1 DEF Sound, Indexed, SizesHold
<1>3. PICK r : r = Head(s.sizes).ref
    OBVIOUS
<1>4. r \in R /\ r # NULL
  <2>1. Keyed(s, R) # {}
      BY <1>2 DEF Keyed
  <2>2. Head(s.sizes) \in Keyed(s, R)
      BY <1>2, <2>1, ListsHead
  <2>3. r \in R
      BY <1>3, <2>2 DEF Keyed
  <2>. QED
      BY <1>1, <1>2, <2>3 DEF Shape, NULL
<1>5. CASE ~big(s.work[r])
    BY <1>3, <1>5 DEF _big, sizes_big
<1>6. CASE big(s.work[r])
  <2>1. sizes_big(s) = r
      BY <1>3, <1>6 DEF sizes_big
  <2>2. PICK m, new : m = Middle(s.work[r]) /\ new = NewRef(s)
      OBVIOUS
  <2>3. PICK d : d = Divided(s, r, [first |-> m, second |-> m])
      OBVIOUS
  <2>4. /\ Halved(s, d, r, new, m) /\ Indexed(d, R, R \ {r}, R, R)
        /\ d.size = s.size /\ d.work[r].size = s.work[r].size
      BY <1>1, <1>4, <2>2, <2>3, DividedSound
  <2>5. PICK x, y, z : x = Value(s.work[r].begin) /\ y = Value(m) /\ z = Value(s.work[r].end)
      OBVIOUS
  <2>6. /\ d.work[r].begin = s.work[r].begin /\ d.work[r].end = m
        /\ d.work[new].begin = m /\ d.work[new].end = s.work[r].end
        /\ x <= y /\ y <= z /\ m \in Nums /\ s.work[r].begin \in Nums /\ s.work[r].end \in Nums
        /\ Refs(d) = R \cup {new} /\ new \notin R
      BY <1>1, <1>2, <1>4, <2>4, <2>5 DEF Halved, Shape, WorkOK
  <2>7. x \in Nat /\ y \in Nat /\ z \in Nat /\ LeafCount \in Nat /\ Value(s.size) \in 0 .. LeafCount
      BY <1>2, <2>5, <2>6, NumsAre DEF SizesHold
  <2>8. Value(size_of(d.work[r])) = y - x /\ Value(d.work[r].size) = z - x
    <3>1. Value(size_of(d.work[r])) = y - x
        BY <2>5, <2>6, SizeOf
    <3>2. d.work[r].size = size_of(s.work[r])
        BY <1>2, <1>4, <2>4 DEF Sized
    <3>3. Value(size_of(s.work[r])) = z - x
      <4>1. Value(s.work[r].begin) <= Value(s.work[r].end)
          BY <2>5, <2>6, <2>7
      <4>. QED
          BY <2>5, <2>6, <4>1, SizeOf
    <3>. QED
        BY <3>1, <3>2, <3>3
  <2>9. PICK e : e = sizes_update(d, r)
      OBVIOUS
  <2>10. /\ Indexed(e, R, (R \ {r}) \cup {r}, R, R) /\ Kept(d, e)
         /\ Value(e.size) = Value(s.size) - (z - x) + (y - x)
    <3>1. PICK F : F = R \ {r}
        OBVIOUS
    <3>2. Indexed(d, R, F, R, R) /\ Value(d.work[r].begin) <= Value(d.work[r].end)
          /\ Value(size_of(d.work[r])) <= Value(d.work[r].size)
        BY <2>4, <2>5, <2>6, <2>7, <2>8, <3>1
    <3>3. /\ Indexed(e, R, F \cup {r}, R, R) /\ Kept(d, e)
          /\ Value(e.size) = Value(d.size) - Value(d.work[r].size) + Value(size_of(d.work[r]))
        BY <1>4, <2>9, <3>2, SizesUpdate
    <3>. QED
        BY <2>4, <2>8, <3>1, <3>3
  <2>11. /\ Indexed(e, R, R, R, R) /\ new \in Refs(e) /\ new \notin R
         /\ e.work[new].begin = m /\ e.work[new].end = s.work[r].end
      BY <1>4, <2>6, <2>10 DEF Kept
  <2>12. /\ Value(e.work[new].begin) <= Value(e.work[new].end)
         /\ Value(e.size) + Value(size_of(e.work[new])) <= LeafCount
    <3>1. Value(m) <= Value(s.work[r].end)
        BY <2>5, <2>6
    <3>2. Value(size_of(e.work[new])) = z - y
        BY <2>5, <2>6, <2>11, <3>1, SizeOf
    <3>. QED
        BY <2>7, <2>10, <2>11, <3>1, <3>2
  <2>13. PICK f : f = sizes_insert(e, new)
      OBVIOUS
  <2>14. PICK S : S = R \cup {new}
      OBVIOUS
  <2>15. Indexed(f, S, S, R, R) /\ Kept(e, f)
      BY <2>11, <2>12, <2>13, <2>14, SizesInsert
  <2>16. Kept(d, f) /\ Refs(f) = S /\ new \in Refs(f) /\ f.work[new].id = s.id_generator + 1
         /\ IdsHold(f, R)
      BY <2>4, <2>6, <2>10, <2>14, <2>15 DEF Kept, Halved, Indexed
  <2>17. DOMAIN f.ids = DOMAIN s.ids
    <3>1. \A q \in R : f.work[q].id = s.work[q].id
        BY <1>1, <2>4, <2>6, <2>16 DEF Kept, Halved
    <3>2. {f.work[q].id : q \in R} = {s.work[q].id : q \in R}
        BY <3>1
    <3>. QED
        BY <1>2, <2>16, <3>2 DEF IdsHold
  <2>18. PICK g : g = id_insert(f, new)
      OBVIOUS
  <2>19. \E I : /\ Indexed(g, S, S, I, R) /\ Kept(f, g)
                /\ s.id_generator + 1 \notin DOMAIN s.ids => I = S
    <3>1. CASE s.id_generator + 1 \notin DOMAIN s.ids
      <4>1. f.work[new].id \notin DOMAIN f.ids
          BY <2>16, <2>17, <3>1
      <4>2. Indexed(g, S, S, R \cup {new}, R) /\ Kept(f, g)
          BY <2>15, <2>16, <2>18, <4>1, IdInsert
      <4>. QED
          BY <2>14, <4>2
    <3>2. CASE s.id_generator + 1 \in DOMAIN s.ids
      <4>1. g = f
          BY <2>16, <2>17, <2>18, <3>2 DEF id_insert
      <4>2. Kept(f, f)
          BY DEF Kept
      <4>. QED
          BY <2>15, <3>2, <4>1, <4>2
    <3>. QED
        BY <3>1, <3>2
  <2>20. PICK I : /\ Indexed(g, S, S, I, R) /\ Kept(f, g)
                  /\ s.id_generator + 1 \notin DOMAIN s.ids => I = S
      BY <2>19
  <2>21. PICK h : h = times_insert(g, new, FALSE)
      OBVIOUS
  <2>22. Indexed(h, S, S, I, S) /\ Kept(g, h)
    <3>1. new \in Refs(g) /\ new \notin R /\ FALSE \in BOOLEAN
        BY <2>6, <2>16, <2>20 DEF Kept
    <3>2. Indexed(h, S, S, I, R \cup {new}) /\ Kept(g, h)
        BY <2>20, <2>21, <3>1, TimesInsert
    <3>. QED
        BY <2>14, <3>2
  <2>23. Kept(d, h) /\ Refs(h) = S
      BY <2>16, <2>20, <2>22 DEF Kept
  <2>24. Halved(s, h, r, new, m)
      BY <1>1, <2>4, <2>6, <2>23 DEF Halved, Kept
  <2>25. b.s = h /\ b.ref = new
    <3>1. Cut(m) = [first |-> m, second |-> m]
        BY DEF Cut
    <3>. QED
        BY <1>4, <2>1, <2>2, <2>3, <2>9, <2>13, <2>18, <2>21, <3>1 DEF _big
  <2>26. /\ Halved(s, b.s, r, b.ref, m) /\ Indexed(b.s, Refs(b.s), Refs(b.s), I, Refs(b.s))
         /\ s.id_generator + 1 \notin DOMAIN s.ids => I = Refs(b.s)
      BY <2>20, <2>22, <2>23, <2>24, <2>25
  <2>. QED
      BY <2>26
<1>. QED
    BY <1>5, <1>6

(* What a request does, after the progress of the worker is noted. *)
Answers(u, a) ==
    \/ Refs(u) = {} /\ a.s = u /\ a.ref = NULL
    \/ Sound(a.s) /\ Kept(u, a.s) /\ a.ref \in Refs(u)
    \/ \E r, m, I : /\ Halved(u, a.s, r, a.ref, m)
                    /\ Indexed(a.s, Refs(a.s), Refs(a.s), I, Refs(a.s))
                    /\ u.id_generator + 1 \notin DOMAIN u.ids => I = Refs(a.s)

(* What the worker's progress did before. *)
Noted(s, u, w) ==
    \/ w.id \notin DOMAIN s.ids /\ u = s
    \/ LET own == s.work[s.ids[w.id]]
       IN  /\ w.id \in DOMAIN s.ids
           /\ Shortened(s, u, s.ids[w.id], Larger(own.begin, w.begin), Smaller(own.end, w.end))

(* Identities lead to their works and back. *)
LEMMA Identities ==
    ASSUME NEW s, NEW R, IdsHold(s, R)
    PROVE  /\ \A id \in DOMAIN s.ids : s.ids[id] \in R /\ s.work[s.ids[id]].id = id
           /\ \A q \in R : s.work[q].id \in DOMAIN s.ids /\ s.ids[s.work[q].id] = q
BY DEF IdsHold

(* A request answers with a work that was there, with the second half of   *)
(* one, or with none when none is left.                                    *)
LEMMA FoundAnswers ==
    ASSUME Calculates, NEW u, Sound(u.s), u.ref \in Refs(u.s) \cup {NULL}, NEW late \in BOOLEAN,
           NEW a, a = Found(u, late)
    PROVE  Answers(u.s, a)
<1>1. Shape(u.s) /\ IdsHold(u.s, Refs(u.s)) /\ NULL \notin Refs(u.s)
    BY DEF Sound, Indexed, Shape, NULL
<1>2. DOMAIN u.s.ids = {} <=> Refs(u.s) = {}
    BY <1>1, Identities
<1>3. Kept(u.s, u.s)
    BY DEF Kept
<1>4. CASE Refs(u.s) = {}
    BY <1>2, <1>4 DEF Found, Answers
<1>5. CASE Refs(u.s) # {} /\ u.ref # NULL
    BY <1>2, <1>3, <1>5 DEF Found, Or, Answers
<1>6. CASE Refs(u.s) # {} /\ u.ref = NULL
  <2>1. PICK r, t : r = times_oldest(u.s) /\ t = times_update(u.s, r)
      OBVIOUS
  <2>2. r \in Refs(u.s) /\ Sound(t) /\ Kept(u.s, t) /\ r # NULL
      BY <1>1, <1>6, <2>1, Given
  <2>3. a = Or(_fault(u.s, late), Or(_big(u.s), _oldest(u.s)))
      BY <1>2, <1>6 DEF Found, Or
  <2>4. _oldest(u.s) = [s |-> t, ref |-> r]
      BY <2>1 DEF _oldest
  <2>5. CASE times_fault(u.s, late) # NULL
    <3>1. _fault(u.s, late) = [s |-> t, ref |-> r]
        BY <2>1, <2>5 DEF _fault, times_fault
    <3>. QED
        BY <2>2, <2>3, <3>1 DEF Or, Answers
  <2>6. CASE times_fault(u.s, late) = NULL
    <3>1. PICK b : b = _big(u.s)
        OBVIOUS
    <3>2. _fault(u.s, late).ref = NULL
        BY <2>6 DEF _fault
    <3>3. a = Or(b, _oldest(u.s))
        BY <2>3, <3>1, <3>2 DEF Or
    <3>4. CASE b.ref = NULL
        BY <2>2, <2>4, <3>3, <3>4 DEF Or, Answers
    <3>5. CASE b.ref # NULL
      <4>1. a = b
          BY <3>3, <3>5 DEF Or
      <4>2. \E r1, m, I : /\ Halved(u.s, b.s, r1, b.ref, m)
                          /\ Indexed(b.s, Refs(b.s), Refs(b.s), I, Refs(b.s))
                          /\ u.s.id_generator + 1 \notin DOMAIN u.s.ids => I = Refs(b.s)
          BY <1>6, <3>1, <3>5, BigSound
      <4>. QED
          BY <4>1, <4>2 DEF Answers
    <3>. QED
        BY <3>4, <3>5
  <2>. QED
      BY <2>5, <2>6
<1>. QED
    BY <1>4, <1>5, <1>6

(* The whole of a request: the progress noted, then the answer. *)
LEMMA RequestAnswers ==
    ASSUME Calculates, NEW s, Sound(s), NEW w, w.begin \in Nums, w.end \in Nums,
           NEW late \in BOOLEAN, NEW a, a = request(s, w, late)
    PROVE  \E u : Sound(u) /\ u.id_generator = s.id_generator /\ Noted(s, u, w) /\ Answers(u, a)
<1>1. PICK u : u = _update(s, w)
    OBVIOUS
<1>2. /\ Sound(u.s) /\ u.s.id_generator = s.id_generator /\ u.ref \in Refs(u.s) \cup {NULL}
      /\ Noted(s, u.s, w)
    BY <1>1, UpdateSound DEF Noted
<1>3. Answers(u.s, a)
    BY <1>1, <1>2, FoundAnswers DEF request
<1>. QED
    BY <1>2, <1>3

-----------------------------------------------------------------------------
(* Intervals only shrink, and what they no longer hold is explored. *)
Narrower(s, t) ==
    \A id \in DOMAIN s.ids \cap DOMAIN t.ids :
        LET v == s.work[s.ids[id]]
            w == t.work[t.ids[id]]
        IN  Value(v.begin) <= Value(w.begin) /\ Value(w.end) <= Value(v.end)

(* What sound works give most often. *)
LEMMA SoundIs ==
    ASSUME Calculates, NEW s, Sound(s)
    PROVE  /\ IdsHold(s, Refs(s)) /\ s.id_generator \in Nat
           /\ \A q \in Refs(s) : /\ s.work[q].begin \in Nums /\ s.work[q].end \in Nums
                                 /\ Value(s.work[q].begin) \in Nat /\ Value(s.work[q].end) \in Nat
                                 /\ Value(s.work[q].begin) <= Value(s.work[q].end)
                                 /\ s.work[q].id \in Nat \ {0} /\ q \in Nat \ {0}
<1>1. IdsHold(s, Refs(s)) /\ Shape(s) /\ Sized(s, Refs(s))
    BY DEF Sound, Indexed
<1>. QED
    BY <1>1, NumsAre DEF Shape, WorkOK, Sized

(* What the progress takes out of the works is explored, for the worker is *)
(* ahead of its work.                                                      *)
LEMMA NotedLosesNothing ==
    ASSUME Calculates, NEW s, Sound(s), NEW w, w.begin \in Nums, w.end \in Nums, ~finished(w),
           NEW X, Ahead(s, w, X), NEW u, Sound(u), Noted(s, u, w)
    PROVE  /\ DOMAIN u.ids \subseteq DOMAIN s.ids /\ Narrower(s, u)
           /\ Within(s) \ X \subseteq Within(u)
<1>. DEFINE r == s.ids[w.id]
            own == s.work[r]
            lo == Larger(own.begin, w.begin)
            hi == Smaller(own.end, w.end)
<1>1. CASE w.id \notin DOMAIN s.ids /\ u = s
  <2>1. \A id \in DOMAIN s.ids : s.ids[id] \in Refs(s)
      BY SoundIs, Identities
  <2>2. Narrower(s, s)
      BY <2>1, SoundIs DEF Narrower
  <2>. QED
      BY <1>1, <2>2
<1>2. CASE w.id \in DOMAIN s.ids /\ Shortened(s, u, r, lo, hi)
  <2>1. IdsHold(s, Refs(s)) /\ IdsHold(u, Refs(u))
      BY SoundIs
  <2>2. /\ r \in Refs(s) /\ Refs(u) \subseteq Refs(s)
        /\ \A q \in Refs(u) \ {r} : /\ u.work[q].begin = s.work[q].begin
                                    /\ u.work[q].end = s.work[q].end
                                    /\ u.work[q].id = s.work[q].id
        /\ Refs(s) \ {r} \subseteq Refs(u)
        /\ r \in Refs(u) => /\ u.work[r].begin = lo /\ u.work[r].end = hi
                            /\ u.work[r].id = s.work[r].id
        /\ r \notin Refs(u) => Value(lo) >= Value(hi)
      BY <1>2 DEF Shortened, Others
  <2>3. /\ own.begin \in Nums /\ own.end \in Nums
        /\ Value(own.begin) \in Nat /\ Value(own.end) \in Nat
        /\ Value(w.begin) \in Nat /\ Value(w.end) \in Nat
      BY SMTT(30), <2>2, SoundIs, NumsAre
  <2>4. /\ Value(lo) >= Value(own.begin) /\ Value(lo) \in {Value(own.begin), Value(w.begin)}
        /\ Value(hi) <= Value(own.end) /\ Value(hi) \in {Value(own.end), Value(w.end)}
      BY <2>3, EndsOf
  <2>5. /\ Value(own.end) <= Value(w.end)
        /\ Value(own.begin) .. Value(w.begin) - 1 \subseteq X
      BY <1>2 DEF Ahead
  <2>. HIDE DEF r, own, lo, hi
  <2>6. \A q \in Refs(u) : u.work[q].id = s.work[q].id
      BY <2>2
  <2>7. \A id \in DOMAIN u.ids : id \in DOMAIN s.ids /\ u.ids[id] = s.ids[id] /\ u.ids[id] \in Refs(u)
      BY <2>1, <2>2, <2>6, Identities
  <2>8. ASSUME NEW q \in Refs(u)
        PROVE  Value(s.work[q].begin) <= Value(u.work[q].begin)
               /\ Value(u.work[q].end) <= Value(s.work[q].end)
    <3>1. CASE q = r
        BY <2>2, <2>4, <3>1 DEF own
    <3>2. CASE q # r
        BY <2>2, <3>2, SoundIs
    <3>. QED
        BY <3>1, <3>2
  <2>9. Narrower(s, u)
      BY <2>7, <2>8 DEF Narrower
  <2>10. ASSUME NEW x \in Within(s) \ X PROVE x \in Within(u)
    <3>1. PICK q \in Refs(s) : x \in Numbers(s.work[q])
        BY DEF Within
    <3>2. CASE q # r
      <4>1. q \in Refs(u) /\ Numbers(u.work[q]) = Numbers(s.work[q])
          BY <2>2, <3>2 DEF Numbers
      <4>. QED
          BY <3>1, <4>1 DEF Within
    <3>3. CASE q = r
      <4>1. x \in Value(own.begin) .. Value(own.end) - 1 /\ x \in Int
          BY <2>3, <3>1, <3>3 DEF Numbers, own
      <4>2. x \notin Value(own.begin) .. Value(w.begin) - 1
          BY <2>5
      <4>3. x >= Value(w.begin) /\ Value(hi) = Value(own.end)
          BY <2>3, <2>4, <2>5, <4>1, <4>2
      <4>4. x \in Value(lo) .. Value(hi) - 1 /\ ~(Value(lo) >= Value(hi))
          BY <2>3, <2>4, <4>1, <4>3
      <4>5. r \in Refs(u) /\ x \in Numbers(u.work[r])
          BY <2>2, <4>4 DEF Numbers
      <4>. QED
          BY <4>5 DEF Within
    <3>. QED
        BY <3>2, <3>3
  <2>. QED
      BY <2>7, <2>9, <2>10
<1>. QED
    BY <1>1, <1>2 DEF Noted

(* What an answer leaves of the works, and what the worker gets. *)
LEMMA AnswerLosesNothing ==
    ASSUME Calculates, NEW u, Sound(u), NEW a, Answers(u, a),
           a.s.id_generator # u.id_generator => a.s.id_generator \notin DOMAIN u.ids
    PROVE  /\ Sound(a.s) /\ Narrower(u, a.s) /\ Within(u) \subseteq Within(a.s)
           /\ \A id \in DOMAIN a.s.ids :
                 id \in DOMAIN u.ids \/ (id = a.s.id_generator /\ id = u.id_generator + 1)
           /\ a.s.id_generator \in {u.id_generator, u.id_generator + 1}
           /\ a.ref = NULL => Refs(a.s) = {}
           /\ a.ref # NULL => a.ref \in Refs(a.s)
           /\ a.s.id_generator = u.id_generator => DOMAIN a.s.ids \subseteq DOMAIN u.ids
           /\ a.s.id_generator # u.id_generator =>
                 a.ref # NULL /\ a.s.work[a.ref].id = a.s.id_generator
<1>0. IdsHold(u, Refs(u)) /\ u.id_generator \in Nat
    BY SoundIs
<1>1. CASE Refs(u) = {} /\ a.s = u /\ a.ref = NULL
  <2>1. DOMAIN u.ids = {}
      BY <1>0, <1>1, Identities
  <2>2. Narrower(u, u)
      BY <2>1 DEF Narrower
  <2>. QED
      BY <1>1, <2>1, <2>2
<1>2. CASE Sound(a.s) /\ Kept(u, a.s) /\ a.ref \in Refs(u)
  <2>1. /\ Refs(a.s) = Refs(u) /\ a.s.id_generator = u.id_generator
        /\ \A q \in Refs(u) : /\ a.s.work[q].begin = u.work[q].begin
                              /\ a.s.work[q].end = u.work[q].end /\ a.s.work[q].id = u.work[q].id
      BY <1>2 DEF Kept
  <2>2. IdsHold(a.s, Refs(u))
      BY <1>2, <2>1, SoundIs
  <2>3. ASSUME NEW id \in DOMAIN a.s.ids
        PROVE  id \in DOMAIN u.ids /\ a.s.ids[id] = u.ids[id] /\ u.ids[id] \in Refs(u)
    <3>1. PICK q \in Refs(u) : a.s.ids[id] = q /\ a.s.work[q].id = id
        BY <2>2, Identities
    <3>2. u.work[q].id = id
        BY <2>1, <3>1
    <3>3. id \in DOMAIN u.ids /\ u.ids[id] = q
        BY <1>0, <3>2, Identities
    <3>. QED
        BY <3>1, <3>3
  <2>4. Narrower(u, a.s)
      BY <2>1, <2>3, SoundIs DEF Narrower
  <2>5. Within(u) \subseteq Within(a.s)
      BY <2>1 DEF Within, Numbers
  <2>6. a.ref # NULL
      BY <1>2, SoundIs DEF NULL
  <2>. QED
      BY <1>2, <2>1, <2>3, <2>4, <2>5, <2>6
<1>3. ASSUME NEW r, NEW m, NEW I, Halved(u, a.s, r, a.ref, m),
             Indexed(a.s, Refs(a.s), Refs(a.s), I, Refs(a.s)),
             u.id_generator + 1 \notin DOMAIN u.ids => I = Refs(a.s)
      PROVE  /\ Sound(a.s) /\ Narrower(u, a.s) /\ Within(u) \subseteq Within(a.s)
             /\ \A id \in DOMAIN a.s.ids :
                   id \in DOMAIN u.ids \/ (id = a.s.id_generator /\ id = u.id_generator + 1)
             /\ a.s.id_generator \in {u.id_generator, u.id_generator + 1}
             /\ a.ref = NULL => Refs(a.s) = {}
             /\ a.ref # NULL => a.ref \in Refs(a.s)
             /\ a.s.id_generator = u.id_generator => DOMAIN a.s.ids \subseteq DOMAIN u.ids
             /\ a.s.id_generator # u.id_generator =>
                   a.ref # NULL /\ a.s.work[a.ref].id = a.s.id_generator
  <2>. DEFINE new == a.ref
              t == a.s
  <2>1. /\ r \in Refs(u) /\ new \in Nat \ {0} /\ new \notin Refs(u) /\ Refs(t) = Refs(u) \cup {new}
        /\ Value(u.work[r].begin) <= Value(m) /\ Value(m) <= Value(u.work[r].end) /\ m \in Nums
        /\ \A q \in Refs(u) : /\ t.work[q].begin = u.work[q].begin /\ t.work[q].id = u.work[q].id
                              /\ t.work[q].end = IF q = r THEN m ELSE u.work[q].end
        /\ t.work[new].begin = m /\ t.work[new].end = u.work[r].end
        /\ t.work[new].id = u.id_generator + 1 /\ t.id_generator = u.id_generator + 1
      BY <1>3 DEF Halved
  <2>2. t.id_generator # u.id_generator /\ t.id_generator \notin DOMAIN u.ids
      BY <1>0, <2>1
  <2>3. Sound(t)
      BY <1>3, <2>1, <2>2 DEF Sound
  <2>4. IdsHold(t, Refs(t))
      BY <2>3, SoundIs
  <2>. HIDE DEF new, t
  <2>5. \A id \in DOMAIN t.ids : \/ id \in DOMAIN u.ids /\ t.ids[id] = u.ids[id] /\ u.ids[id] \in Refs(u)
                                 \/ id = u.id_generator + 1
    <3>. SUFFICES ASSUME NEW id \in DOMAIN t.ids
                  PROVE  \/ id \in DOMAIN u.ids /\ t.ids[id] = u.ids[id] /\ u.ids[id] \in Refs(u)
                         \/ id = u.id_generator + 1
        OBVIOUS
    <3>1. PICK q \in Refs(t) : t.ids[id] = q /\ t.work[q].id = id
        BY <2>4, Identities
    <3>2. CASE q = new
        BY <2>1, <3>1, <3>2
    <3>3. CASE q \in Refs(u)
      <4>1. u.work[q].id = id
          BY <2>1, <3>1, <3>3
      <4>2. id \in DOMAIN u.ids /\ u.ids[id] = q
          BY <1>0, <3>3, <4>1, Identities
      <4>. QED
          BY <3>1, <3>3, <4>2
    <3>. QED
        BY <2>1, <3>2, <3>3
  <2>6. Narrower(u, t)
    <3>1. \A q \in Refs(u) : /\ Value(u.work[q].begin) <= Value(t.work[q].begin)
                             /\ Value(t.work[q].end) <= Value(u.work[q].end)
        BY <2>1, SoundIs
    <3>2. \A id \in DOMAIN u.ids \cap DOMAIN t.ids : t.ids[id] = u.ids[id] /\ u.ids[id] \in Refs(u)
        BY <2>1, <2>2, <2>5
    <3>. QED
        BY <3>1, <3>2 DEF Narrower
  <2>7. ASSUME NEW x \in Within(u) PROVE x \in Within(t)
    <3>1. PICK q \in Refs(u) : x \in Numbers(u.work[q])
        BY DEF Within
    <3>2. CASE q # r
      <4>1. q \in Refs(t) /\ Numbers(t.work[q]) = Numbers(u.work[q])
          BY <2>1, <3>2 DEF Numbers
      <4>. QED
          BY <3>1, <4>1 DEF Within
    <3>3. CASE q = r
      <4>1. Value(u.work[r].begin) \in Nat /\ Value(u.work[r].end) \in Nat /\ Value(m) \in Nat
          BY <2>1, SoundIs, NumsAre
      <4>2. \/ x \in Value(u.work[r].begin) .. Value(m) - 1
            \/ x \in Value(m) .. Value(u.work[r].end) - 1
          BY <2>1, <3>1, <3>3, <4>1 DEF Numbers
      <4>3. x \in Numbers(t.work[r]) \/ x \in Numbers(t.work[new])
          BY <2>1, <4>2 DEF Numbers
      <4>4. r \in Refs(t) /\ new \in Refs(t)
          BY <2>1
      <4>. QED
          BY <4>3, <4>4 DEF Within
    <3>. QED
        BY <3>2, <3>3
  <2>8. new # NULL /\ new \in Refs(t)
      BY <2>1 DEF NULL
  <2>. QED
      BY <2>1, <2>2, <2>3, <2>5, <2>6, <2>7, <2>8 DEF t, new
<1>. QED
    BY <1>1, <1>2, <1>3 DEF Answers

(* Together. *)
LEMMA RequestLosesNothing ==
    ASSUME Calculates, NEW s, Sound(s), NEW w, w.begin \in Nums, w.end \in Nums, ~finished(w),
           NEW X, Ahead(s, w, X), NEW late \in BOOLEAN, NEW a, a = request(s, w, late),
           a.s.id_generator # s.id_generator => a.s.id_generator \notin DOMAIN s.ids
    PROVE  /\ Sound(a.s) /\ Narrower(s, a.s) /\ Within(s) \ X \subseteq Within(a.s)
           /\ a.s.id_generator \in {s.id_generator, s.id_generator + 1}
           /\ \A id \in DOMAIN a.s.ids :
                 \/ id \in DOMAIN s.ids
                 \/ id = a.s.id_generator /\ a.s.id_generator # s.id_generator
           /\ a.ref = NULL => Refs(a.s) = {}
           /\ a.ref # NULL => a.ref \in Refs(a.s)
           /\ a.s.id_generator # s.id_generator =>
                 a.ref # NULL /\ a.s.work[a.ref].id = a.s.id_generator
<1>1. PICK u : Sound(u) /\ u.id_generator = s.id_generator /\ Noted(s, u, w) /\ Answers(u, a)
    BY RequestAnswers
<1>2. /\ DOMAIN u.ids \subseteq DOMAIN s.ids /\ Narrower(s, u)
      /\ Within(s) \ X \subseteq Within(u)
    BY <1>1, NotedLosesNothing
<1>3. a.s.id_generator # u.id_generator => a.s.id_generator \notin DOMAIN u.ids
    BY <1>1, <1>2
<1>4. /\ Sound(a.s) /\ Narrower(u, a.s) /\ Within(u) \subseteq Within(a.s)
      /\ \A id \in DOMAIN a.s.ids :
            id \in DOMAIN u.ids \/ (id = a.s.id_generator /\ id = u.id_generator + 1)
      /\ a.s.id_generator \in {u.id_generator, u.id_generator + 1}
      /\ a.ref = NULL => Refs(a.s) = {}
      /\ a.ref # NULL => a.ref \in Refs(a.s)
      /\ a.s.id_generator = u.id_generator => DOMAIN a.s.ids \subseteq DOMAIN u.ids
      /\ a.s.id_generator # u.id_generator =>
            a.ref # NULL /\ a.s.work[a.ref].id = a.s.id_generator
    BY <1>1, <1>3, AnswerLosesNothing
<1>5. s.id_generator \in Nat
    BY SoundIs
<1>6. \A id \in DOMAIN a.s.ids :
         \/ id \in DOMAIN u.ids
         \/ id = a.s.id_generator /\ a.s.id_generator # s.id_generator
    BY <1>1, <1>4, <1>5
<1>7. Narrower(s, a.s)
  <2>. SUFFICES ASSUME NEW id \in DOMAIN s.ids \cap DOMAIN a.s.ids
                PROVE  LET v == s.work[s.ids[id]]
                           x == a.s.work[a.s.ids[id]]
                       IN  Value(v.begin) <= Value(x.begin) /\ Value(x.end) <= Value(v.end)
      BY DEF Narrower
  <2>1. id \in DOMAIN u.ids
      BY <1>6
  <2>2. s.ids[id] \in Refs(s) /\ u.ids[id] \in Refs(u) /\ a.s.ids[id] \in Refs(a.s)
      BY <1>1, <1>4, <2>1, SoundIs, Identities
  <2>3. PICK x, y, z : x = s.work[s.ids[id]] /\ y = u.work[u.ids[id]] /\ z = a.s.work[a.s.ids[id]]
      OBVIOUS
  <2>4. /\ Value(x.begin) \in Nat /\ Value(x.end) \in Nat /\ Value(y.begin) \in Nat
        /\ Value(y.end) \in Nat /\ Value(z.begin) \in Nat /\ Value(z.end) \in Nat
      BY <1>1, <1>4, <2>2, <2>3, SoundIs
  <2>5. /\ Value(x.begin) <= Value(y.begin) /\ Value(y.end) <= Value(x.end)
        /\ Value(y.begin) <= Value(z.begin) /\ Value(z.end) <= Value(y.end)
      BY <1>2, <1>4, <2>1, <2>3 DEF Narrower
  <2>. QED
      BY SMTT(30), <2>3, <2>4, <2>5
<1>8. Within(s) \ X \subseteq Within(a.s)
    BY <1>2, <1>4
<1>. QED
    BY <1>1, <1>2, <1>4, <1>6, <1>7, <1>8

(* What a worker holds. *)
LEMMA SameIsNotLess == ~Less(BigInt(-1), BigInt(-1))
<1>1. BigInt(-1).sign = -1
    BY DEF BigInt, negative
<1>2. U!compareTo(BigInt(-1).mag, BigInt(-1).mag) = 0
    BY DEF U!compareTo
<1>. QED
    BY <1>1, <1>2 DEF Less, compareTo

(* A new worker holds an empty interval and no identity. *)
LEMMA FreshHeld ==
    ASSUME Calculates
    PROVE  HeldOK(Fresh) /\ ~finished(Fresh) /\ Fresh.id = -1
<1>1. BigInt(0) \in Nums /\ BigInt(0) # BigInt(-1) /\ Value(BigInt(0)) = 0
    BY NumsAre
<1>. QED
    BY <1>1 DEF HeldOK, Fresh, finished

(* An interval that is not finished has ends in range. *)
LEMMA HeldIs ==
    ASSUME Calculates, NEW w, HeldOK(w)
    PROVE  /\ ~finished(w) => /\ w.begin \in Nums /\ w.end \in Nums
                              /\ Value(w.begin) \in Nat /\ Value(w.end) \in Nat
                              /\ Value(w.begin) <= Value(w.end) /\ Value(w.end) <= LeafCount
           /\ finished(w) => empty(w)
<1>1. CASE finished(w)
  <2>1. w.begin = BigInt(-1) /\ w.begin \notin Nums
      BY <1>1, NumsAre DEF finished
  <2>2. w.end = BigInt(-1)
      BY <2>1 DEF HeldOK
  <2>3. empty(w)
      BY <2>1, <2>2, SameIsNotLess DEF empty
  <2>. QED
      BY <1>1, <2>3
<1>2. CASE ~finished(w)
  <2>1. w.begin \in Nums /\ w.end \in Nums /\ Value(w.begin) <= Value(w.end)
      BY <1>2 DEF HeldOK
  <2>2. /\ Value(w.begin) \in 0 .. LeafCount /\ Value(w.end) \in 0 .. LeafCount
        /\ LeafCount \in Nat
      BY <2>1, NumsAre
  <2>. QED
      BY <1>2, <2>1, <2>2
<1>. QED
    BY <1>1, <1>2

(* A copy passes through text and comes back the same. *)
LEMMA CopyIs ==
    ASSUME Calculates, NEW w, w.begin \in Nums, w.end \in Nums
    PROVE  Copy(w) = [begin |-> w.begin, end |-> w.end, id |-> w.id]
BY NumsAre DEF Copy, Read, Written

(* Any answer can be worked on, even one with an identity in use. *)
LEMMA AnsweredHeld ==
    ASSUME Calculates, NEW s, Sound(s), NEW w, HeldOK(w), ~finished(w),
           NEW late \in BOOLEAN, NEW a, a = request(s, w, late)
    PROVE  /\ HeldOK(Answered(a, w))
           /\ a.ref = NULL => finished(Answered(a, w)) /\ Answered(a, w).id = w.id
           /\ a.ref # NULL => LET own == a.s.work[a.ref]
                              IN  Answered(a, w) = [begin |-> own.begin, end |-> own.end, id |-> own.id]
           /\ a.s.id_generator \in {s.id_generator, s.id_generator + 1} /\ s.id_generator \in Nat
           /\ Refs(s) = {} => Refs(a.s) = {}
<1>1. w.begin \in Nums /\ w.end \in Nums
    BY HeldIs
<1>2. PICK u : Sound(u) /\ u.id_generator = s.id_generator /\ Noted(s, u, w) /\ Answers(u, a)
    BY <1>1, RequestAnswers
<1>3. a.ref # NULL => /\ a.s.work[a.ref].begin \in Nums /\ a.s.work[a.ref].end \in Nums
                      /\ Value(a.s.work[a.ref].begin) <= Value(a.s.work[a.ref].end)
                      /\ a.s.work[a.ref].id \in Nat
  <2>1. CASE Sound(a.s) /\ Kept(u, a.s) /\ a.ref \in Refs(u)
      BY <2>1, SoundIs DEF Kept
  <2>2. ASSUME NEW r, NEW m, Halved(u, a.s, r, a.ref, m)
        PROVE  /\ a.s.work[a.ref].begin \in Nums /\ a.s.work[a.ref].end \in Nums
               /\ Value(a.s.work[a.ref].begin) <= Value(a.s.work[a.ref].end)
               /\ a.s.work[a.ref].id \in Nat
    <3>1. /\ r \in Refs(u) /\ m \in Nums /\ Value(m) <= Value(u.work[r].end)
          /\ a.s.work[a.ref].begin = m /\ a.s.work[a.ref].end = u.work[r].end
          /\ a.s.work[a.ref].id = u.id_generator + 1
        BY <2>2 DEF Halved
    <3>2. u.work[r].end \in Nums /\ u.id_generator \in Nat
        BY <1>2, <3>1, SoundIs
    <3>. QED
        BY <3>1, <3>2
  <2>. QED
      BY <1>2, <2>1, <2>2 DEF Answers
<1>4. ASSUME a.ref = NULL
      PROVE  HeldOK(Answered(a, w)) /\ finished(Answered(a, w)) /\ Answered(a, w).id = w.id
  <2>1. Answered(a, w) = [w EXCEPT !.begin = BigInt(-1), !.end = BigInt(-1)]
      BY <1>4 DEF Answered, set_finished
  <2>2. /\ DOMAIN Answered(a, w) = {"begin", "end", "id"} /\ Answered(a, w).id = w.id
        /\ Answered(a, w).begin = BigInt(-1) /\ Answered(a, w).end = BigInt(-1)
      BY <2>1 DEF HeldOK
  <2>. QED
      BY <1>4, <2>2 DEF HeldOK, finished
<1>5. ASSUME a.ref # NULL
      PROVE  /\ HeldOK(Answered(a, w))
             /\ LET own == a.s.work[a.ref]
                IN  Answered(a, w) = [begin |-> own.begin, end |-> own.end, id |-> own.id]
  <2>1. PICK own : own = a.s.work[a.ref]
      OBVIOUS
  <2>2. Answered(a, w) = [begin |-> own.begin, end |-> own.end, id |-> own.id]
      BY <1>3, <1>5, <2>1, CopyIs DEF Answered
  <2>. QED
      BY SMTT(30), <1>3, <1>5, <2>1, <2>2 DEF HeldOK
<1>6. a.s.id_generator \in {s.id_generator, s.id_generator + 1}
    BY <1>2 DEF Answers, Kept, Halved
<1>7. ASSUME Refs(s) = {} PROVE Refs(a.s) = {}
  <2>1. IdsHold(s, Refs(s))
      BY SoundIs
  <2>2. DOMAIN s.ids = {}
      BY <1>7, <2>1, Identities
  <2>3. Refs(u) = {}
      BY <1>2, <1>7, <2>2 DEF Noted
  <2>. QED
      BY <1>2, <2>3 DEF Answers, Kept, Halved
<1>8. s.id_generator \in Nat
    BY SoundIs
<1>. QED
    BY <1>4, <1>5, <1>6, <1>7, <1>8

(* A worker stays ahead of the work of its identity while works shrink. *)
LEMMA AheadKept ==
    ASSUME Calculates, NEW s, Sound(s), NEW w, HeldOK(w), NEW X, Ahead(s, w, X),
           NEW t, Sound(t), Narrower(s, t), w.id \in DOMAIN t.ids => w.id \in DOMAIN s.ids,
           NEW Y, X \subseteq Y
    PROVE  Ahead(t, w, Y)
<1>. SUFFICES ASSUME ~finished(w), w.id \in DOMAIN t.ids
              PROVE  LET own == t.work[t.ids[w.id]]
                     IN  /\ Value(own.end) <= Value(w.end)
                         /\ Value(own.begin) .. Value(w.begin) - 1 \subseteq Y
    BY DEF Ahead
<1>1. PICK x, y : x = s.work[s.ids[w.id]] /\ y = t.work[t.ids[w.id]]
    OBVIOUS
<1>2. s.ids[w.id] \in Refs(s) /\ t.ids[w.id] \in Refs(t)
    BY SoundIs, Identities
<1>3. /\ Value(x.begin) \in Nat /\ Value(x.end) \in Nat /\ Value(y.begin) \in Nat
      /\ Value(y.end) \in Nat /\ Value(w.begin) \in Nat /\ Value(w.end) \in Nat
    BY <1>1, <1>2, SoundIs, HeldIs
<1>4. Value(x.begin) <= Value(y.begin) /\ Value(y.end) <= Value(x.end)
    BY <1>1 DEF Narrower
<1>5. Value(x.end) <= Value(w.end) /\ Value(x.begin) .. Value(w.begin) - 1 \subseteq X
    BY <1>1 DEF Ahead
<1>6. \A n \in Value(y.begin) .. Value(w.begin) - 1 : n \in Value(x.begin) .. Value(w.begin) - 1
    BY <1>3, <1>4
<1>7. Value(y.end) <= Value(w.end)
    BY <1>3, <1>4, <1>5
<1>8. Value(y.begin) .. Value(w.begin) - 1 \subseteq Y
    BY <1>5, <1>6
<1>. QED
    BY <1>1, <1>7, <1>8

(* The works that the coordinator begins with. *)
LEMMA NoWorksSound ==
    ASSUME Calculates
    PROVE  /\ Indexed(NoWorks, {}, {}, {}, {}) /\ Refs(NoWorks) = {} /\ Value(NoWorks.size) = 0
           /\ NoWorks.id_generator = 0 /\ DOMAIN NoWorks.ids = {}
<1>1. DOMAIN NoWorks.work = {} /\ DOMAIN NoWorks.ids = {}
    BY DEF NoWorks
<1>2. Refs(NoWorks) = {}
    BY <1>1 DEF Refs
<1>3. BigInt(0) \in Nums /\ Value(BigInt(0)) = 0
    BY NumsAre
<1>4. IsFiniteSet({})
    BY FS_EmptySet
<1>5. Shape(NoWorks)
  <2>1. /\ DOMAIN NoWorks = {"work", "ids", "sizes", "times", "size", "id_generator"}
        /\ NoWorks.id_generator \in Nat
      BY DEF NoWorks
  <2>. QED
      BY <1>2, <1>4, <2>1 DEF Shape
<1>6. Keyed(NoWorks, {}) = {}
    BY DEF Keyed
<1>7. SizesHold(NoWorks, {})
  <2>1. NoWorks.sizes = <<>> /\ NoWorks.size = BigInt(0)
      BY DEF NoWorks
  <2>2. Total(SizeMap(NoWorks), {}) = 0
      BY TotalNone
  <2>. QED
      BY <1>3, <1>6, <2>1, <2>2, ListsNothing DEF SizesHold
<1>8. IdsHold(NoWorks, {}) /\ Sized(NoWorks, {})
    BY <1>1 DEF IdsHold, Sized
<1>9. TimesHold(NoWorks, {})
    BY ListsNothing DEF TimesHold, NoWorks
<1>10. Indexed(NoWorks, {}, {}, {}, {})
    BY <1>2, <1>5, <1>7, <1>8, <1>9 DEF Indexed
<1>. QED
    BY <1>1, <1>2, <1>3, <1>10 DEF NoWorks

(* The first unused reference after 1 .. n. *)
LEMMA NewRefOf ==
    ASSUME NEW s, NEW n \in Nat, Refs(s) = 1 .. n
    PROVE  NewRef(s) = n + 1
<1>1. Cardinality(1 .. n) = n
  <2>1. 1 \in Int /\ n \in Int /\ (1 > n => n = 0) /\ n - 1 + 1 = n
      OBVIOUS
  <2>. QED
      BY <2>1, FS_Interval
<1>2. (1 .. n + 1) \ (1 .. n) = {n + 1}
    OBVIOUS
<1>3. Min({n + 1}) = n + 1
    BY DEF Min
<1>. QED
    BY <1>1, <1>2, <1>3 DEF NewRef

(* A work is entered in the three indexes, in either order. *)
Entered(s, t, r) ==
    /\ Sound(t) /\ Refs(t) = Refs(s) /\ t.id_generator = s.id_generator
    /\ \A q \in Refs(s) : /\ t.work[q].begin = s.work[q].begin /\ t.work[q].end = s.work[q].end
                          /\ t.work[q].id = s.work[q].id

(* init without a file enters by identity first. *)
LEMMA EnteredById ==
    ASSUME Calculates, NEW s, NEW R, Indexed(s, R, R, R, R), NEW r \in Refs(s), r \notin R,
           Refs(s) = R \cup {r}, s.work[r].id \notin DOMAIN s.ids,
           Value(s.work[r].begin) <= Value(s.work[r].end),
           Value(s.size) + Value(size_of(s.work[r])) <= LeafCount,
           NEW t, t = times_insert(sizes_insert(id_insert(s, r), r), r, TRUE)
    PROVE  Entered(s, t, r)
<1>1. PICK S : S = R \cup {r}
    OBVIOUS
<1>2. PICK a : a = id_insert(s, r)
    OBVIOUS
<1>3. Indexed(a, R, R, S, R) /\ Kept(s, a) /\ Stored(s, a)
    BY <1>1, <1>2, IdInsert
<1>4. /\ r \in Refs(a) /\ a.work[r].begin = s.work[r].begin /\ a.work[r].end = s.work[r].end
      /\ a.size = s.size
    BY <1>3 DEF Kept, Stored
<1>5. /\ Value(a.work[r].begin) <= Value(a.work[r].end)
      /\ Value(a.size) + Value(size_of(a.work[r])) <= LeafCount
    BY <1>4 DEF size_of
<1>6. PICK b : b = sizes_insert(a, r)
    OBVIOUS
<1>7. Indexed(b, S, S, S, R) /\ Kept(a, b)
    BY <1>1, <1>3, <1>4, <1>5, <1>6, SizesInsert
<1>8. r \in Refs(b)
    BY <1>4, <1>7 DEF Kept
<1>9. PICK h : h = times_insert(b, r, TRUE)
    OBVIOUS
<1>10. Indexed(t, S, S, S, S) /\ Kept(b, t)
  <2>1. Indexed(h, S, S, S, R \cup {r}) /\ Kept(b, h)
      BY <1>7, <1>8, <1>9, TimesInsert
  <2>. QED
      BY <1>1, <1>2, <1>6, <1>9, <2>1
<1>11. Kept(s, b)
    BY <1>3, <1>7 DEF Kept
<1>12. Kept(s, t) /\ Refs(t) = S
    BY ZenonT(60), <1>1, <1>10, <1>11 DEF Kept
<1>. QED
    BY <1>10, <1>12 DEF Sound, Entered, Kept

(* init with a file enters by size first. *)
LEMMA EnteredBySize ==
    ASSUME Calculates, NEW s, NEW R, Indexed(s, R, R, R, R), NEW r \in Refs(s), r \notin R,
           Refs(s) = R \cup {r}, s.work[r].id \notin {s.work[q].id : q \in R},
           Value(s.work[r].begin) <= Value(s.work[r].end),
           Value(s.size) + Value(size_of(s.work[r])) <= LeafCount,
           NEW t, t = times_insert(id_insert(sizes_insert(s, r), r), r, TRUE)
    PROVE  Entered(s, t, r) /\ Value(t.size) = Value(s.size) + Value(size_of(s.work[r]))
<1>1. PICK S : S = R \cup {r}
    OBVIOUS
<1>2. PICK a : a = sizes_insert(s, r)
    OBVIOUS
<1>3. /\ Indexed(a, S, S, R, R) /\ Kept(s, a)
      /\ Value(a.size) = Value(s.size) + Value(size_of(s.work[r]))
    BY <1>1, <1>2, SizesInsert
<1>4. r \in Refs(a) /\ a.work[r].id \notin DOMAIN a.ids
  <2>1. IdsHold(a, R) /\ R \subseteq Refs(a) /\ R \subseteq Refs(s)
      BY <1>3 DEF Indexed, Kept
  <2>2. \A q \in Refs(s) : a.work[q].id = s.work[q].id
      BY <1>3 DEF Kept
  <2>3. ASSUME s.work[r].id \in DOMAIN a.ids PROVE FALSE
    <3>1. PICK q \in R : a.work[q].id = s.work[r].id
        BY <2>1, <2>3, Identities
    <3>2. s.work[q].id = s.work[r].id
        BY <2>1, <2>2, <3>1
    <3>. QED
        BY <3>2
  <2>. QED
      BY <1>3, <2>2, <2>3 DEF Kept
<1>5. PICK b : b = id_insert(a, r)
    OBVIOUS
<1>6. Indexed(b, S, S, S, R) /\ Kept(a, b) /\ Stored(a, b)
  <2>1. Indexed(b, S, S, R \cup {r}, R) /\ Kept(a, b) /\ Stored(a, b)
      BY <1>3, <1>4, <1>5, IdInsert
  <2>. QED
      BY <1>1, <2>1
<1>7. r \in Refs(b)
    BY <1>4, <1>6 DEF Kept
<1>8. PICK h : h = times_insert(b, r, TRUE)
    OBVIOUS
<1>9. Indexed(t, S, S, S, S) /\ Kept(b, t) /\ Stored(b, t)
  <2>1. Indexed(h, S, S, S, R \cup {r}) /\ Kept(b, h) /\ Stored(b, h)
      BY <1>6, <1>7, <1>8, TimesInsert
  <2>. QED
      BY <1>1, <1>2, <1>5, <1>8, <2>1
<1>10. t.size = a.size
    BY <1>6, <1>9 DEF Stored
<1>11. Kept(s, b)
    BY <1>3, <1>6 DEF Kept
<1>12. Kept(s, t) /\ Refs(t) = S
    BY ZenonT(60), <1>1, <1>9, <1>11 DEF Kept
<1>. QED
    BY <1>3, <1>9, <1>10, <1>12 DEF Sound, Entered, Kept

(* All the leaves are one work. *)
LEMMA AllLeavesSound ==
    ASSUME Calculates
    PROVE  /\ Sound(AllLeaves) /\ AllLeaves.id_generator = 1
           /\ \A r \in Refs(AllLeaves) : AllLeaves.work[r].id = 1
           /\ Within(AllLeaves) = Leaves
<1>1. BigInt(0) \in Nums /\ Value(BigInt(0)) = 0 /\ depths[0] \in Nums /\ Value(depths[0]) = LeafCount
      /\ LeafCount \in Nat
    BY NumsAre
<1>2. NewRef(NoWorks) = 1
  <2>1. Refs(NoWorks) = 1 .. 0
      BY NoWorksSound
  <2>2. 0 \in Nat /\ 0 + 1 = 1
      OBVIOUS
  <2>. QED
      BY <2>1, <2>2, NewRefOf
<1>3. PICK s : s = NewWork(NoWorks, BigInt(0), depths[0], TRUE)
    OBVIOUS
<1>4. /\ Indexed(s, {}, {}, {}, {}) /\ Refs(s) = {} \cup {1}
      /\ s.work[1] = [begin |-> BigInt(0), end |-> depths[0], size |-> BigInt(0), time |-> 0,
                      id |-> 1, pbb |-> TRUE]
      /\ s.id_generator = 1 /\ s.size = NoWorks.size /\ s.ids = NoWorks.ids
  <2>1. /\ Indexed(NoWorks, {}, {}, {}, {}) /\ Refs(NoWorks) = {}
        /\ NoWorks.id_generator = 0 /\ 0 + 1 = 1
      BY NoWorksSound
  <2>2. PICK yes \in BOOLEAN, b \in Nums, e \in Nums : yes = TRUE /\ b = BigInt(0) /\ e = depths[0]
      BY <1>1
  <2>3. /\ Indexed(NewWork(NoWorks, b, e, yes), {}, {}, {}, {})
        /\ Refs(NewWork(NoWorks, b, e, yes)) = Refs(NoWorks) \cup {NewRef(NoWorks)}
        /\ NewWork(NoWorks, b, e, yes).work[NewRef(NoWorks)] =
             [begin |-> b, end |-> e, size |-> BigInt(0), time |-> 0,
              id |-> NoWorks.id_generator + 1, pbb |-> yes]
        /\ NewWork(NoWorks, b, e, yes).id_generator = NoWorks.id_generator + 1
        /\ NewWork(NoWorks, b, e, yes).size = NoWorks.size
        /\ NewWork(NoWorks, b, e, yes).ids = NoWorks.ids
      BY <2>1, WorkMade
  <2>. QED
      BY <1>2, <1>3, <2>1, <2>2, <2>3
<1>5. /\ s.work[1].begin = BigInt(0) /\ s.work[1].end = depths[0] /\ s.work[1].id = 1
    BY <1>4
<1>6. /\ Value(s.work[1].begin) <= Value(s.work[1].end) /\ Value(s.size) = 0
      /\ Value(size_of(s.work[1])) = LeafCount
  <2>1. Value(s.work[1].begin) <= Value(s.work[1].end)
      BY <1>1, <1>5
  <2>2. Value(size_of(s.work[1])) = Value(s.work[1].end) - Value(s.work[1].begin)
      BY <1>1, <1>5, <2>1, SizeOf
  <2>3. Value(s.size) = 0
      BY <1>4, NoWorksSound
  <2>. QED
      BY <1>1, <1>5, <2>1, <2>2, <2>3
<1>7. Entered(s, AllLeaves, 1)
  <2>1. AllLeaves = times_insert(sizes_insert(id_insert(s, 1), 1), 1, TRUE)
      BY <1>3 DEF AllLeaves
  <2>2. s.work[1].id \notin DOMAIN s.ids
      BY <1>4, NoWorksSound
  <2>3. PICK r, R : r = 1 /\ R = {}
      OBVIOUS
  <2>4. /\ Indexed(s, R, R, R, R) /\ r \in Refs(s) /\ r \notin R /\ Refs(s) = R \cup {r}
        /\ s.work[r].id \notin DOMAIN s.ids
        /\ Value(s.work[r].begin) <= Value(s.work[r].end)
        /\ Value(s.size) + Value(size_of(s.work[r])) <= LeafCount
        /\ AllLeaves = times_insert(sizes_insert(id_insert(s, r), r), r, TRUE)
      BY <1>1, <1>4, <1>6, <2>1, <2>2, <2>3
  <2>5. Entered(s, AllLeaves, r)
      BY <2>4, EnteredById
  <2>. QED
      BY <2>3, <2>5
<1>8. /\ Refs(AllLeaves) = {1} /\ AllLeaves.work[1].begin = BigInt(0)
      /\ AllLeaves.work[1].end = depths[0] /\ AllLeaves.work[1].id = 1
    BY <1>4, <1>5, <1>7 DEF Entered
<1>9. Numbers(AllLeaves.work[1]) = Leaves
    BY <1>1, <1>8 DEF Numbers, Leaves
<1>. QED
    BY <1>4, <1>7, <1>8, <1>9 DEF Entered, Within

(* A checkpoint is read, one work after the other. *)
Reads(g, texts) ==
    g = [n \in 0 .. Len(texts) |-> IF n = 0 THEN NoWorks ELSE Recalled(g[n - 1], n, texts[n])]

(* The recursion of Loaded has a solution. *)
LEMMA LoadedIs ==
    ASSUME NEW texts
    PROVE  Loaded(texts) = (CHOOSE g : Reads(g, texts))[Len(texts)]
BY DEF Loaded, Reads

LEMMA LoadedReads ==
    ASSUME NEW texts, Len(texts) \in Nat
    PROVE  \E g : Reads(g, texts) /\ Loaded(texts) = g[Len(texts)]
<1>. DEFINE n == Len(texts)
            Part(g, m) == g = [k \in 0 .. m |-> IF k = 0 THEN NoWorks ELSE Recalled(g[k - 1], k, texts[k])]
            S == {m \in 0 .. n : \E g : Part(g, m)}
<1>1. 0 \in S
  <2>1. PICK g : g = [k \in 0 .. 0 |-> NoWorks]
      OBVIOUS
  <2>2. \A k \in 0 .. 0 : k = 0
      OBVIOUS
  <2>3. Part(g, 0)
      BY <2>1, <2>2
  <2>. QED
      BY <2>3
<1>2. ASSUME NEW i \in 1 .. n, i - 1 \in S PROVE i \in S
  <2>1. PICK f : Part(f, i - 1)
      BY <1>2
  <2>2. PICK g : g = [k \in 0 .. i |-> IF k = i THEN Recalled(f[i - 1], i, texts[i]) ELSE f[k]]
      OBVIOUS
  <2>3. \A k \in 0 .. i : g[k] = IF k = 0 THEN NoWorks ELSE Recalled(g[k - 1], k, texts[k])
    <3>. SUFFICES ASSUME NEW k \in 0 .. i
                  PROVE  g[k] = IF k = 0 THEN NoWorks ELSE Recalled(g[k - 1], k, texts[k])
        OBVIOUS
    <3>1. CASE k = i
      <4>1. g[k] = Recalled(f[i - 1], i, texts[i]) /\ i - 1 \in 0 .. i /\ i - 1 # i /\ i # 0
          BY <2>2, <3>1
      <4>2. g[i - 1] = f[i - 1]
          BY <2>2, <4>1
      <4>. QED
          BY <3>1, <4>1, <4>2
    <3>2. CASE k \in 0 .. i - 1
      <4>1. k # i /\ (k # 0 => k - 1 \in 0 .. i /\ k - 1 # i)
          BY <3>2
      <4>2. g[k] = f[k] /\ (k # 0 => g[k - 1] = f[k - 1])
          BY <2>2, <4>1
      <4>3. f[k] = IF k = 0 THEN NoWorks ELSE Recalled(f[k - 1], k, texts[k])
          BY <2>1, <3>2
      <4>. QED
          BY <4>2, <4>3
    <3>. QED
        BY <3>1, <3>2
  <2>4. g = [k \in 0 .. i |-> g[k]]
      BY <2>2
  <2>5. Part(g, i)
      BY <2>3, <2>4
  <2>. QED
      BY <2>5
<1>3. n \in S
  <2>. HIDE DEF S
  <2>1. 0 .. n \subseteq S
      BY <1>1, <1>2, UpTo
  <2>. QED
      BY <2>1
<1>4. \E g : Reads(g, texts)
    BY <1>3 DEF Reads
<1>. QED
    BY <1>4, LoadedIs

(* After the first of them. *)
Recalls(s, i, texts) ==
    /\ Sound(s) /\ Refs(s) = 1 .. i
    /\ \A k \in 1 .. i : /\ s.work[k].begin = Read(texts[k]).begin
                         /\ s.work[k].end = Read(texts[k]).end
                         /\ s.work[k].id = Read(texts[k]).id
    /\ Value(s.size) = Total(TextSize(texts), 1 .. i)

(* The sizes read so far add up to no more than all leaves. *)
LEMMA PartOfTexts ==
    ASSUME Calculates, NEW texts, NEW X, TextsOK(texts, X), NEW i \in 1 .. Len(texts)
    PROVE  /\ Total(TextSize(texts), 1 .. i - 1) + Value(size_of(Read(texts[i])))
                = Total(TextSize(texts), 1 .. i)
           /\ Total(TextSize(texts), 1 .. i) <= LeafCount
<1>. DEFINE n == Len(texts)
            f == TextSize(texts)
<1>1. n \in Nat /\ LeafCount \in Nat
    BY NumsAre DEF TextsOK
<1>2. \A k \in 1 .. n : f[k] = Value(size_of(Read(texts[k]))) /\ f[k] \in Nat
  <2>. TAKE k \in 1 .. n
  <2>1. /\ Read(texts[k]).begin \in Nums /\ Read(texts[k]).end \in Nums
        /\ Value(Read(texts[k]).begin) <= Value(Read(texts[k]).end)
      BY DEF TextsOK
  <2>2. size_of(Read(texts[k])) \in Nums
      BY <2>1, SizeOf
  <2>3. Value(size_of(Read(texts[k]))) \in Nat
      BY <2>2, NumsAre
  <2>. QED
      BY <2>3 DEF TextSize
<1>. HIDE DEF n, f
<1>3. PICK S : S = 1 .. n
    OBVIOUS
<1>4. IsFiniteSet(S) /\ \A k \in S : f[k] \in Int /\ f[k] >= 0
  <2>1. 1 \in Int /\ n \in Int
      BY <1>1
  <2>. QED
      BY <1>2, <1>3, <2>1, FS_Interval
<1>5. PICK a, b : a = 1 .. i - 1 /\ b = 1 .. i
    OBVIOUS
<1>6. i \in 1 .. n
    BY DEF n
<1>7. /\ a \in SUBSET S /\ b \in SUBSET S /\ i \in S /\ i \notin a /\ a \cup {i} = b
    BY <1>1, <1>3, <1>5, <1>6
<1>8. Total(f, a \cup {i}) = Total(f, a) + f[i] /\ Total(f, a) \in Int
    BY <1>4, <1>7, TotalWith
<1>9. Total(f, b) <= Total(f, S)
  <2>1. /\ S \in SUBSET S /\ \A x \in b \ S : f[x] <= 0
        /\ \A x \in S \ b : f[x] >= 0 /\ \A y \in S : f[y] \in Int
      BY <1>4, <1>7
  <2>. QED
      BY <1>4, <1>7, <2>1, TotalCompare
<1>10. Total(f, S) <= LeafCount
    BY <1>3 DEF TextsOK, n, f
<1>11. Total(f, S) \in Int /\ Total(f, b) \in Int
    BY <1>4, <1>7, TotalWithout
<1>12. Total(f, b) <= LeafCount
    BY <1>1, <1>9, <1>10, <1>11
<1>13. Total(f, a) + f[i] = Total(f, b) /\ f[i] = Value(size_of(Read(texts[i])))
    BY <1>2, <1>6, <1>7, <1>8
<1>. QED
    BY <1>5, <1>12, <1>13 DEF f

(* The next work of the checkpoint enters the works. *)
LEMMA RecalledSound ==
    ASSUME Calculates, NEW texts, NEW X, TextsOK(texts, X), NEW i \in 1 .. Len(texts),
           NEW s, Recalls(s, i - 1, texts)
    PROVE  Recalls(Recalled(s, i, texts[i]), i, texts)
<1>1. PICK w : w = Read(texts[i])
    OBVIOUS
<1>2. /\ w.begin \in Nums /\ w.end \in Nums /\ Value(w.begin) <= Value(w.end) /\ w.id \in Nat \ {0}
      /\ w.id = texts[i].id /\ Len(texts) \in Nat
    BY <1>1 DEF TextsOK, Read
<1>3. PICK R : R = 1 .. i - 1
    OBVIOUS
<1>4. Indexed(s, R, R, R, R) /\ Refs(s) = R
    BY <1>3 DEF Recalls, Sound
<1>5. NewRef(s) = i
  <2>1. i - 1 \in Nat /\ (i - 1) + 1 = i /\ Refs(s) = 1 .. i - 1
      BY <1>2, <1>3, <1>4
  <2>. QED
      BY <2>1, NewRefOf
<1>6. PICK new : new = NewWork(s, w.begin, w.end, FALSE)
    OBVIOUS
<1>7. /\ Indexed(new, R, R, R, R) /\ i \notin R /\ Refs(new) = R \cup {i}
      /\ \A q \in R : new.work[q] = s.work[q]
      /\ new.work[i].begin = w.begin /\ new.work[i].end = w.end /\ new.size = s.size
  <2>1. PICK no \in BOOLEAN, b \in Nums, e \in Nums : no = FALSE /\ b = w.begin /\ e = w.end
      BY <1>2
  <2>2. /\ Indexed(NewWork(s, b, e, no), R, R, R, R) /\ NewRef(s) \notin Refs(s)
        /\ Refs(NewWork(s, b, e, no)) = Refs(s) \cup {NewRef(s)}
        /\ \A q \in Refs(s) : NewWork(s, b, e, no).work[q] = s.work[q]
        /\ NewWork(s, b, e, no).work[NewRef(s)] =
             [begin |-> b, end |-> e, size |-> BigInt(0), time |-> 0,
              id |-> s.id_generator + 1, pbb |-> no]
        /\ NewWork(s, b, e, no).size = s.size
      BY <1>4, WorkMade
  <2>3. new = NewWork(s, b, e, no)
      BY <1>6, <2>1
  <2>4. /\ Indexed(new, R, R, R, R) /\ i \notin R /\ Refs(new) = R \cup {i}
        /\ \A q \in R : new.work[q] = s.work[q]
        /\ new.size = s.size
      BY <1>4, <1>5, <2>2, <2>3
  <2>5. new.work[i] = [begin |-> b, end |-> e, size |-> BigInt(0), time |-> 0,
                       id |-> s.id_generator + 1, pbb |-> no]
      BY <1>5, <2>2, <2>3
  <2>. QED
      BY <2>1, <2>4, <2>5
<1>8. Shape(new) /\ i \in Refs(new) /\ WorkOK(new.work[i])
    BY <1>7 DEF Indexed, Shape
<1>9. PICK held : held = [new EXCEPT !.work[i].id = w.id, !.id_generator = 0]
    OBVIOUS
<1>10. /\ DOMAIN held = DOMAIN new /\ held.ids = new.ids /\ held.sizes = new.sizes
       /\ held.times = new.times /\ held.size = new.size /\ held.id_generator = 0
       /\ held.work = [new.work EXCEPT ![i] = [new.work[i] EXCEPT !.id = w.id]]
    BY <1>8, <1>9 DEF Shape
<1>11. /\ Refs(held) = Refs(new) /\ \A q \in Refs(new) : q # i => held.work[q] = new.work[q]
       /\ held.work[i] = [new.work[i] EXCEPT !.id = w.id]
    BY <1>8, <1>10 DEF Refs
<1>12. /\ WorkOK(held.work[i]) /\ held.work[i].id = w.id
       /\ held.work[i].begin = w.begin /\ held.work[i].end = w.end
    BY <1>2, <1>7, <1>8, <1>11 DEF WorkOK
<1>13. Shape(held)
    BY <1>8, <1>10, <1>11, <1>12 DEF Shape
<1>14. \A q \in R : held.work[q] = s.work[q] /\ held.work[q] = new.work[q]
    BY <1>7, <1>11
<1>15. Indexed(held, R, R, R, R)
  <2>1. R \subseteq Refs(held) /\ R \subseteq R
      BY <1>7, <1>11
  <2>2. Indexed(new, R, R, R, R)
      BY <1>7
  <2>3. /\ \A q \in R : held.work[q].size = new.work[q].size
        /\ \A q \in R : held.work[q].id = new.work[q].id
      BY <1>14
  <2>4. \A q \in R : /\ held.work[q].size = new.work[q].size
                     /\ held.work[q].begin = new.work[q].begin /\ held.work[q].end = new.work[q].end
      BY <1>14
  <2>. QED
      BY <1>10, <1>13, <2>1, <2>2, <2>3, <2>4, Transferred
<1>16. /\ i \in Refs(held) /\ i \notin R /\ Refs(held) = R \cup {i}
       /\ Value(held.work[i].begin) <= Value(held.work[i].end)
    BY <1>2, <1>7, <1>11, <1>12
<1>17. held.work[i].id \notin {held.work[q].id : q \in R}
  <2>. SUFFICES ASSUME NEW q \in R, held.work[q].id = held.work[i].id PROVE FALSE
      OBVIOUS
  <2>1. s.work[q].id = Read(texts[q]).id
      BY <1>3 DEF Recalls
  <2>2. texts[q].id = texts[i].id
      BY <1>2, <1>12, <1>14, <2>1 DEF Read
  <2>3. q \in 1 .. Len(texts) /\ q # i
      BY <1>2, <1>3
  <2>. QED
      BY <2>2, <2>3 DEF TextsOK
<1>18. /\ Value(held.size) + Value(size_of(held.work[i])) = Total(TextSize(texts), 1 .. i)
       /\ Total(TextSize(texts), 1 .. i) <= LeafCount
  <2>1. Value(held.size) = Total(TextSize(texts), 1 .. i - 1)
      BY <1>7, <1>10 DEF Recalls
  <2>2. size_of(held.work[i]) = size_of(Read(texts[i]))
      BY <1>1, <1>12 DEF size_of
  <2>. QED
      BY <2>1, <2>2, PartOfTexts
<1>19. PICK t : t = times_insert(id_insert(sizes_insert(held, i), i), i, TRUE)
    OBVIOUS
<1>20. Entered(held, t, i) /\ Value(t.size) = Value(held.size) + Value(size_of(held.work[i]))
  <2>1. Value(held.size) + Value(size_of(held.work[i])) <= LeafCount
      BY <1>18
  <2>. QED
      BY <1>15, <1>16, <1>17, <1>19, <2>1, EnteredBySize
<1>21. Recalled(s, i, texts[i]) = t
    BY <1>1, <1>6, <1>9, <1>19 DEF Recalled
<1>22. Refs(t) = 1 .. i /\ Sound(t)
    BY <1>2, <1>3, <1>16, <1>20 DEF Entered
<1>23. \A k \in 1 .. i : /\ t.work[k].begin = Read(texts[k]).begin
                         /\ t.work[k].end = Read(texts[k]).end
                         /\ t.work[k].id = Read(texts[k]).id
  <2>. TAKE k \in 1 .. i
  <2>1. k \in Refs(held) /\ (k \in R \/ k = i)
      BY <1>2, <1>3, <1>16
  <2>2. /\ t.work[k].begin = held.work[k].begin /\ t.work[k].end = held.work[k].end
        /\ t.work[k].id = held.work[k].id
      BY <1>20, <2>1 DEF Entered
  <2>3. CASE k \in R
      BY <1>3, <1>14, <2>2, <2>3 DEF Recalls
  <2>4. CASE k = i
      BY <1>1, <1>12, <2>2, <2>4
  <2>. QED
      BY <2>1, <2>3, <2>4
<1>. QED
    BY <1>18, <1>20, <1>21, <1>22, <1>23 DEF Recalls

(* The whole checkpoint is read: the indexes agree and no leaf is lost. *)
LEMMA LoadedSound ==
    ASSUME Calculates, NEW texts, NEW X, TextsOK(texts, X)
    PROVE  Sound(Loaded(texts)) /\ Leaves \ X \subseteq Within(Loaded(texts))
<1>1. PICK n : n = Len(texts)
    OBVIOUS
<1>2. n \in Nat
    BY <1>1 DEF TextsOK
<1>3. PICK g : Reads(g, texts) /\ Loaded(texts) = g[n]
    BY <1>1, <1>2, LoadedReads
<1>4. /\ g[0] = NoWorks
      /\ \A i \in 1 .. n : g[i] = Recalled(g[i - 1], i, texts[i])
  <2>1. \A i \in 0 .. n : g[i] = IF i = 0 THEN NoWorks ELSE Recalled(g[i - 1], i, texts[i])
      BY <1>1, <1>3 DEF Reads
  <2>. QED
      BY <1>2, <2>1
<1>5. PICK S : S = {i \in 0 .. n : Recalls(g[i], i, texts)}
    OBVIOUS
<1>6. 0 \in S
  <2>1. 1 .. 0 = {}
      OBVIOUS
  <2>2. Refs(NoWorks) = {} /\ Indexed(NoWorks, {}, {}, {}, {}) /\ Value(NoWorks.size) = 0
      BY NoWorksSound
  <2>3. Sound(NoWorks)
      BY <2>2 DEF Sound
  <2>4. Total(TextSize(texts), {}) = 0
      BY TotalNone
  <2>5. Recalls(NoWorks, 0, texts)
      BY <2>1, <2>2, <2>3, <2>4 DEF Recalls
  <2>. QED
      BY <1>2, <1>4, <1>5, <2>5
<1>7. ASSUME NEW i \in 1 .. n, i - 1 \in S PROVE i \in S
  <2>1. Recalls(g[i - 1], i - 1, texts) /\ i \in 1 .. Len(texts)
      BY <1>1, <1>5, <1>7
  <2>2. Recalls(Recalled(g[i - 1], i, texts[i]), i, texts)
      BY <2>1, RecalledSound
  <2>. QED
      BY <1>4, <1>5, <2>2
<1>8. 0 .. n \subseteq S
    BY <1>2, <1>6, <1>7, UpTo
<1>9. PICK t : t = Loaded(texts)
    OBVIOUS
<1>10. Recalls(t, n, texts)
    BY <1>2, <1>3, <1>5, <1>8, <1>9
<1>11. Leaves \ X \subseteq Within(t)
  <2>. SUFFICES ASSUME NEW x \in Leaves \ X PROVE x \in Within(t)
      OBVIOUS
  <2>1. PICK k \in 1 .. n : x \in Numbers(Read(texts[k]))
      BY <1>1 DEF TextsOK
  <2>2. /\ k \in Refs(t) /\ t.work[k].begin = Read(texts[k]).begin
        /\ t.work[k].end = Read(texts[k]).end
      BY <1>10 DEF Recalls
  <2>3. x \in Numbers(t.work[k])
      BY <2>1, <2>2 DEF Numbers
  <2>. QED
      BY <2>2, <2>3 DEF Within
<1>. QED
    BY <1>9, <1>10, <1>11 DEF Recalls

(* The works of the checkpoint that save writes. *)
Texts(s) == [n \in 1 .. Cardinality(DOMAIN s.ids) |-> Written(s.work[s.ids[Nth(DOMAIN s.ids, n)]])]

(* There are finitely many identities. *)
LEMMA IdentitiesFinite ==
    ASSUME Calculates, NEW s, Sound(s)
    PROVE  IsFiniteSet(DOMAIN s.ids) /\ DOMAIN s.ids \subseteq Nat
<1>1. PICK R, D : R = Refs(s) /\ D = DOMAIN s.ids
    OBVIOUS
<1>2. IsFiniteSet(R) /\ D = {s.work[r].id : r \in R}
    BY <1>1 DEF Sound, Indexed, Shape, IdsHold
<1>3. PICK f : f = [r \in R |-> s.work[r].id]
    OBVIOUS
<1>4. f \in Surjection(R, D)
    BY <1>2, <1>3 DEF Surjection
<1>5. IsFiniteSet(D)
    BY <1>2, <1>4, FS_Surjection
<1>6. D \subseteq Nat
    BY <1>1, <1>2, SoundIs
<1>. QED
    BY <1>1, <1>5, <1>6

(* Every unexplored leaf is in the checkpoint, and it may be read. *)
LEMMA Saved ==
    ASSUME Calculates, NEW s, Sound(s), NEW X, Leaves \ X \subseteq Within(s)
    PROVE  TextsOK(Texts(s), X)
<1>1. PICK R, D, q, c : R = Refs(s) /\ D = DOMAIN s.ids /\ q = Texts(s) /\ c = Cardinality(D)
    OBVIOUS
<1>2. IsFiniteSet(D) /\ D \subseteq Nat /\ IsFiniteSet(R)
    BY <1>1, IdentitiesFinite DEF Sound, Indexed, Shape
<1>3. c \in Nat
    BY <1>1, <1>2, FS_CardinalityType
<1>4. /\ \A k \in 1 .. c : Nth(D, k) \in D
      /\ \A k, m \in 1 .. c : Nth(D, k) = Nth(D, m) => k = m
      /\ \A x \in D : \E k \in 1 .. c : Nth(D, k) = x
    BY <1>1, <1>2, Counting
<1>5. PICK h : h = [k \in 1 .. c |-> s.ids[Nth(D, k)]]
    OBVIOUS
<1>6. q = [k \in 1 .. c |-> Written(s.work[h[k]])]
    BY <1>1, <1>5 DEF Texts
<1>7. Len(q) = c
    BY <1>3, <1>6
<1>8. /\ \A id \in D : s.ids[id] \in R /\ s.work[s.ids[id]].id = id
      /\ \A r \in R : s.work[r].id \in D /\ s.ids[s.work[r].id] = r
  <2>1. IdsHold(s, R)
      BY <1>1, SoundIs
  <2>. QED
      BY <1>1, <2>1, Identities
<1>9. \A k \in 1 .. c : h[k] \in R /\ s.work[h[k]].id = Nth(D, k)
    BY <1>4, <1>5, <1>8
<1>10. \A k, m \in 1 .. c : h[k] = h[m] => k = m
    BY <1>4, <1>9
<1>11. \A r \in R : \E k \in 1 .. c : h[k] = r
  <2>. TAKE r \in R
  <2>1. PICK k \in 1 .. c : Nth(D, k) = s.work[r].id
      BY <1>4, <1>8
  <2>. QED
      BY <1>5, <1>8, <2>1
<1>12. \A k \in 1 .. c : /\ Read(q[k]).begin = s.work[h[k]].begin
                         /\ Read(q[k]).end = s.work[h[k]].end
                         /\ Read(q[k]).id = s.work[h[k]].id /\ q[k].id = s.work[h[k]].id
  <2>. TAKE k \in 1 .. c
  <2>1. s.work[h[k]].begin \in Nums /\ s.work[h[k]].end \in Nums
      BY <1>1, <1>9, SoundIs
  <2>2. q[k] = Written(s.work[h[k]])
      BY <1>6
  <2>. QED
      BY <2>1, <2>2, NumsAre DEF Read, Written
<1>13. \A k \in 1 .. c : /\ Read(q[k]).begin \in Nums /\ Read(q[k]).end \in Nums
                         /\ Value(Read(q[k]).begin) <= Value(Read(q[k]).end)
                         /\ Read(q[k]).id \in Nat \ {0}
    BY <1>1, <1>9, <1>12, SoundIs
<1>14. \A k, m \in 1 .. c : q[k].id = q[m].id => k = m
    BY <1>4, <1>9, <1>12
<1>15. Total(TextSize(q), 1 .. c) <= LeafCount
  <2>1. PICK f, g, I : f = SizeMap(s) /\ g = TextSize(q) /\ I = 1 .. c
      OBVIOUS
  <2>2. \A r \in R : f[r] = Value(s.work[r].size) /\ f[r] \in Int
    <3>1. \A r \in R : s.work[r].size \in Nums
        BY <1>1 DEF Sound, Indexed, Shape, WorkOK
    <3>. QED
        BY <1>1, <2>1, <3>1, NumsAre DEF SizeMap
  <2>3. \A k \in I : g[k] = f[h[k]]
    <3>. TAKE k \in I
    <3>1. g[k] = Value(size_of(Read(q[k])))
        BY <1>7, <2>1 DEF TextSize
    <3>2. size_of(Read(q[k])) = size_of(s.work[h[k]])
        BY <1>12, <2>1 DEF size_of
    <3>3. s.work[h[k]].size = size_of(s.work[h[k]])
        BY <1>1, <1>9, <2>1 DEF Sound, Indexed, Sized
    <3>. QED
        BY <1>9, <2>1, <2>2, <3>1, <3>2, <3>3
  <2>4. IsFiniteSet(I)
    <3>1. 1 \in Int /\ c \in Int
        BY <1>3
    <3>. QED
        BY <2>1, <3>1, FS_Interval
  <2>5. Renames(h, I, R)
      BY <1>5, <1>9, <1>10, <1>11, <2>1 DEF Renames
  <2>6. Total(g, I) = Total(f, R)
      BY <1>2, <2>2, <2>3, <2>4, <2>5, TotalRenamed
  <2>7. Value(s.size) = Total(f, R) /\ s.size \in Nums
      BY <1>1, <2>1 DEF Sound, Indexed, SizesHold
  <2>. QED
      BY <2>1, <2>6, <2>7, NumsAre
<1>16. Leaves \ X \subseteq UNION {Numbers(Read(q[k])) : k \in 1 .. c}
  <2>. SUFFICES ASSUME NEW x \in Leaves \ X PROVE \E k \in 1 .. c : x \in Numbers(Read(q[k]))
      OBVIOUS
  <2>1. PICK r \in R : x \in Numbers(s.work[r])
      BY <1>1 DEF Within
  <2>2. PICK k \in 1 .. c : h[k] = r
      BY <1>11
  <2>3. x \in Numbers(Read(q[k]))
      BY <1>12, <2>1, <2>2 DEF Numbers
  <2>. QED
      BY <2>3
<1>17. TextsOK(q, X)
    BY <1>3, <1>7, <1>13, <1>14, <1>15, <1>16 DEF TextsOK
<1>. QED
    BY <1>1, <1>17

HoldsOK(h) == DOMAIN h = Worker /\ \A p \in Worker : HeldOK(h[p])
FileOK(f, X) == f # <<>> => f = <<f[1]>> /\ TextsOK(f[1], X)
Tracked(s, h, X) ==
    /\ Sound(s) /\ Leaves \ X \subseteq Within(s)
    /\ \A p \in Worker : Ahead(s, h[p], X)
    /\ \A p \in Worker : finished(h[p]) => Refs(s) = {}
Numbered(s, h) ==
    /\ \A r \in Refs(s) : s.work[r].id <= s.id_generator
    /\ \A p \in Worker : h[p].id <= s.id_generator

(* The inductive invariant: the workers hold intervals, a checkpoint may   *)
(* be read, and while every identity is one work's, the indexes agree, no  *)
(* leaf is lost and every worker is ahead of its work; without a           *)
(* checkpoint every identity in use is at most the last one given.         *)
WorksInv ==
    /\ explored \subseteq Leaves /\ loaded \in BOOLEAN /\ reused \in BOOLEAN
    /\ reused => loaded
    /\ HoldsOK(holds)
    /\ FileOK(file, explored)
    /\ ~reused => Tracked(ws, holds, explored)
    /\ ~loaded => Numbered(ws, holds)

(* More may be explored meanwhile. *)
LEMMA AheadMore ==
    ASSUME NEW s, NEW w, NEW X, NEW Y, Ahead(s, w, X), X \subseteq Y
    PROVE  Ahead(s, w, Y)
BY DEF Ahead

LEMMA FileMore ==
    ASSUME NEW f, NEW X, NEW Y, FileOK(f, X), X \subseteq Y
    PROVE  FileOK(f, Y)
BY DEF FileOK, TextsOK

(* A new worker is ahead of everything. *)
LEMMA FreshAhead ==
    ASSUME Calculates, NEW s, Sound(s), NEW X
    PROVE  Ahead(s, Fresh, X) /\ HeldOK(Fresh) /\ ~finished(Fresh) /\ Fresh.id <= s.id_generator
<1>1. Fresh.id = -1 /\ HeldOK(Fresh) /\ ~finished(Fresh)
    BY FreshHeld
<1>2. DOMAIN s.ids \subseteq Nat /\ s.id_generator \in Nat
    BY IdentitiesFinite, SoundIs
<1>3. Fresh.id \notin DOMAIN s.ids /\ Fresh.id <= s.id_generator
    BY <1>1, <1>2
<1>. QED
    BY <1>1, <1>3 DEF Ahead

(* The coordinator begins, with workers that hold nothing. *)
LEMMA Begun ==
    ASSUME Calculates, NEW s, Sound(s), NEW X, Leaves \ X \subseteq Within(s),
           NEW h, h = [p \in Worker |-> Fresh]
    PROVE  Tracked(s, h, X) /\ HoldsOK(h)
           /\ \A p \in Worker : h[p].id <= s.id_generator
<1>1. \A p \in Worker : h[p] = Fresh
    OBVIOUS
<1>2. DOMAIN h = Worker
    OBVIOUS
<1>3. Ahead(s, Fresh, X) /\ HeldOK(Fresh) /\ ~finished(Fresh) /\ Fresh.id <= s.id_generator
    BY FreshAhead
<1>. QED
    BY <1>1, <1>2, <1>3 DEF Tracked, HoldsOK

(* The first start, and a restart without a file. *)
LEMMA BegunWithAll ==
    ASSUME Calculates, NEW X, NEW h, h = [p \in Worker |-> Fresh]
    PROVE  Tracked(AllLeaves, h, X) /\ HoldsOK(h) /\ Numbered(AllLeaves, h)
<1>1. PICK s : s = AllLeaves
    OBVIOUS
<1>2. /\ Sound(s) /\ s.id_generator = 1 /\ \A r \in Refs(s) : s.work[r].id = 1
      /\ Within(s) = Leaves
    BY <1>1, AllLeavesSound
<1>3. Leaves \ X \subseteq Within(s)
    BY <1>2
<1>4. Tracked(s, h, X) /\ HoldsOK(h) /\ \A p \in Worker : h[p].id <= s.id_generator
    BY <1>2, <1>3, Begun
<1>. QED
    BY <1>1, <1>2, <1>4 DEF Numbered

LEMMA InitWorksInv == ASSUME Calculates, Init PROVE WorksInv
<1>1. Tracked(ws, holds, explored) /\ HoldsOK(holds) /\ Numbered(ws, holds)
    BY BegunWithAll DEF Init
<1>. QED
    BY <1>1 DEF Init, WorksInv, FileOK

(* A worker explores the first number of its interval. *)
LEMMA Explored ==
    ASSUME Calculates, NEW w, HeldOK(w), ~empty(w), NEW v, v = [w EXCEPT !.begin = increment(@)]
    PROVE  /\ HeldOK(v) /\ ~finished(v) /\ v.id = w.id /\ Value(w.begin) \in Leaves
           /\ \A s, X : Ahead(s, w, X) => Ahead(s, v, X \cup {Value(w.begin)})
<1>1. /\ ~finished(w) /\ w.begin \in Nums /\ w.end \in Nums
      /\ Value(w.begin) \in Nat /\ Value(w.end) \in Nat
      /\ Value(w.begin) <= Value(w.end) /\ Value(w.end) <= LeafCount
    BY HeldIs
<1>2. Value(w.begin) < Value(w.end) /\ LeafCount \in Nat
    BY <1>1, NumsAre DEF empty
<1>3. increment(w.begin) \in Nums /\ Value(increment(w.begin)) = Value(w.begin) + 1
    BY <1>1, <1>2, Successor
<1>4. /\ DOMAIN v = {"begin", "end", "id"} /\ v.begin = increment(w.begin) /\ v.end = w.end
      /\ v.id = w.id /\ w.id \in Nat \cup {-1}
    BY DEF HeldOK
<1>5. Value(v.begin) = Value(w.begin) + 1 /\ Value(v.begin) <= Value(v.end) /\ v.begin \in Nums
    BY <1>1, <1>2, <1>3, <1>4
<1>6. HeldOK(v)
    BY <1>1, <1>4, <1>5 DEF HeldOK
<1>7. ~finished(v)
    BY <1>5, NumsAre DEF finished
<1>8. Value(w.begin) \in Leaves
    BY <1>1, <1>2 DEF Leaves, LeafCount
<1>9. ASSUME NEW s, NEW X, Ahead(s, w, X) PROVE Ahead(s, v, X \cup {Value(w.begin)})
  <2>. SUFFICES ASSUME w.id \in DOMAIN s.ids
                PROVE  LET own == s.work[s.ids[w.id]]
                       IN  /\ Value(own.end) <= Value(v.end)
                           /\ Value(own.begin) .. Value(v.begin) - 1 \subseteq X \cup {Value(w.begin)}
      BY <1>4 DEF Ahead
  <2>1. PICK own : own = s.work[s.ids[w.id]]
      OBVIOUS
  <2>2. Value(own.end) <= Value(w.end) /\ Value(own.begin) .. Value(w.begin) - 1 \subseteq X
      BY <1>1, <1>9, <2>1 DEF Ahead
  <2>3. PICK a, b, c : a = Value(own.begin) /\ b = Value(w.begin) /\ c = Value(v.begin)
      OBVIOUS
  <2>4. \A x \in a .. c - 1 : x \in a .. b - 1 \/ x = b
      BY <1>1, <1>5, <2>3
  <2>5. a .. c - 1 \subseteq X \cup {b}
      BY <2>2, <2>3, <2>4
  <2>. QED
      BY <1>4, <2>1, <2>2, <2>3, <2>5
<1>. QED
    BY <1>4, <1>6, <1>7, <1>8, <1>9

LEMMA ExploreWorksInv == ASSUME Calculates, WorksInv, NEW p \in Worker, Explore(p) PROVE WorksInv'
<1>1. PICK w, v : w = holds[p] /\ v = holds'[p]
    OBVIOUS
<1>2. HeldOK(w) /\ ~empty(w) /\ DOMAIN holds = Worker
    BY <1>1 DEF WorksInv, HoldsOK, Explore
<1>3. /\ v = [w EXCEPT !.begin = increment(@)] /\ DOMAIN holds' = Worker
      /\ \A q \in Worker : q # p => holds'[q] = holds[q]
    BY <1>1, <1>2 DEF Explore
<1>4. /\ explored' = explored \cup {Value(w.begin)}
      /\ ws' = ws /\ file' = file /\ reused' = reused /\ loaded' = loaded
    BY <1>1 DEF Explore
<1>5. /\ HeldOK(v) /\ ~finished(v) /\ v.id = w.id /\ Value(w.begin) \in Leaves
      /\ \A s, X : Ahead(s, w, X) => Ahead(s, v, X \cup {Value(w.begin)})
    BY <1>2, <1>3, Explored
<1>6. explored' \subseteq Leaves /\ explored \subseteq explored'
    BY <1>4, <1>5 DEF WorksInv
<1>7. HoldsOK(holds)'
  <2>1. \A q \in Worker : HeldOK(holds'[q])
      BY <1>1, <1>3, <1>5 DEF WorksInv, HoldsOK
  <2>. QED
      BY <1>3, <2>1 DEF HoldsOK
<1>8. FileOK(file, explored)'
  <2>1. FileOK(file, explored)
      BY DEF WorksInv
  <2>2. FileOK(file, explored')
      BY <1>6, <2>1, FileMore
  <2>. QED
      BY <1>4, <2>2
<1>9. ~reused' => Tracked(ws, holds, explored)'
  <2>. SUFFICES ASSUME ~reused' PROVE Tracked(ws, holds', explored')
      BY <1>4
  <2>1. Tracked(ws, holds, explored)
      BY <1>4 DEF WorksInv
  <2>2. Ahead(ws, v, explored')
      BY <1>1, <1>4, <1>5, <2>1 DEF Tracked
  <2>3. \A q \in Worker : Ahead(ws, holds[q], explored')
      BY <1>6, <2>1, AheadMore DEF Tracked
  <2>4. \A q \in Worker : Ahead(ws, holds'[q], explored')
      BY <1>1, <1>3, <2>2, <2>3
  <2>5. \A q \in Worker : finished(holds'[q]) => Refs(ws) = {}
      BY <1>1, <1>3, <1>5, <2>1 DEF Tracked
  <2>6. Sound(ws) /\ Leaves \ explored' \subseteq Within(ws)
      BY <1>6, <2>1 DEF Tracked
  <2>. QED
      BY <2>4, <2>5, <2>6 DEF Tracked
<1>10. ~loaded' => Numbered(ws, holds)'
  <2>. SUFFICES ASSUME ~loaded' PROVE Numbered(ws, holds')
      BY <1>4
  <2>1. Numbered(ws, holds)
      BY <1>4 DEF WorksInv
  <2>2. \A q \in Worker : holds'[q].id = holds[q].id
      BY <1>1, <1>3, <1>5
  <2>. QED
      BY <2>1, <2>2 DEF Numbered
<1>11. loaded' \in BOOLEAN /\ reused' \in BOOLEAN /\ (reused' => loaded')
    BY <1>4 DEF WorksInv
<1>. QED
    BY <1>6, <1>7, <1>8, <1>9, <1>10, <1>11 DEF WorksInv

(* What a request leaves true, when its identity is not in use. *)
LEMMA RequestTracked ==
    ASSUME Calculates, NEW s, NEW h, NEW X, Tracked(s, h, X), HoldsOK(h), NEW p \in Worker,
           ~finished(h[p]), NEW late \in BOOLEAN, NEW a, a = request(s, h[p], late),
           NEW g, DOMAIN g = Worker, \A q \in Worker : q # p => g[q] = h[q], g[p] = Answered(a, h[p]),
           a.s.id_generator # s.id_generator =>
               a.s.id_generator \notin DOMAIN s.ids \cup {h[q].id : q \in Worker}
    PROVE  Tracked(a.s, g, X) /\ (Numbered(s, h) => Numbered(a.s, g))
<1>1. PICK w, t : w = h[p] /\ t = a.s
    OBVIOUS
<1>2. Sound(s) /\ HeldOK(w) /\ ~finished(w) /\ Ahead(s, w, X) /\ w.begin \in Nums /\ w.end \in Nums
    BY <1>1, HeldIs DEF Tracked, HoldsOK
<1>3. a = request(s, w, late) /\ (t.id_generator # s.id_generator => t.id_generator \notin DOMAIN s.ids)
    BY <1>1
<1>4. /\ Sound(t) /\ Narrower(s, t) /\ Within(s) \ X \subseteq Within(t)
      /\ t.id_generator \in {s.id_generator, s.id_generator + 1}
      /\ \A id \in DOMAIN t.ids :
            id \in DOMAIN s.ids \/ (id = t.id_generator /\ t.id_generator # s.id_generator)
      /\ a.ref = NULL => Refs(t) = {}
      /\ a.ref # NULL => a.ref \in Refs(t)
  <2>1. /\ Sound(a.s) /\ Narrower(s, a.s) /\ Within(s) \ X \subseteq Within(a.s)
        /\ a.s.id_generator \in {s.id_generator, s.id_generator + 1}
        /\ \A id \in DOMAIN a.s.ids :
              \/ id \in DOMAIN s.ids
              \/ id = a.s.id_generator /\ a.s.id_generator # s.id_generator
        /\ a.ref = NULL => Refs(a.s) = {}
        /\ a.ref # NULL => a.ref \in Refs(a.s)
    <3>1. a.s.id_generator # s.id_generator => a.s.id_generator \notin DOMAIN s.ids
        OBVIOUS
    <3>. HIDE DEF Tracked
    <3>. QED
        BY <1>2, <1>3, <3>1, RequestLosesNothing
  <2>. QED
      BY <1>1, <2>1
<1>5. /\ HeldOK(Answered(a, w))
      /\ a.ref = NULL => finished(Answered(a, w)) /\ Answered(a, w).id = w.id
      /\ Refs(s) = {} => Refs(t) = {}
      /\ s.id_generator \in Nat
  <2>1. /\ HeldOK(Answered(a, w))
        /\ a.ref = NULL => finished(Answered(a, w)) /\ Answered(a, w).id = w.id
        /\ Refs(s) = {} => Refs(a.s) = {}
        /\ s.id_generator \in Nat
      BY <1>2, <1>3, AnsweredHeld
  <2>. QED
      BY <1>1, <2>1
<1>6. PICK v : v = Answered(a, w)
    OBVIOUS
<1>7. ASSUME a.ref # NULL
      PROVE  /\ v.begin = t.work[a.ref].begin /\ v.end = t.work[a.ref].end
             /\ v.id = t.work[a.ref].id
  <2>1. LET own == a.s.work[a.ref]
        IN  Answered(a, w) = [begin |-> own.begin, end |-> own.end, id |-> own.id]
      BY <1>2, <1>3, <1>7, AnsweredHeld
  <2>2. t = a.s
      BY <1>1
  <2>3. PICK own : own = t.work[a.ref]
      OBVIOUS
  <2>4. v = [begin |-> own.begin, end |-> own.end, id |-> own.id]
      BY Zenon, <1>6, <2>1, <2>2, <2>3
  <2>. QED
      BY <2>3, <2>4
<1>8. g[p] = v /\ \A q \in Worker : q # p => g[q] = h[q]
    BY <1>1, <1>6
<1>9. Leaves \ X \subseteq Within(t)
    BY <1>4 DEF Tracked
<1>10. Ahead(t, v, X)
  <2>1. CASE a.ref = NULL
      BY <1>5, <1>6, <2>1 DEF Ahead
  <2>2. CASE a.ref # NULL
    <3>1. PICK r, own : r = a.ref /\ own = t.work[r]
        OBVIOUS
    <3>2. r \in Refs(t) /\ v.begin = own.begin /\ v.end = own.end /\ v.id = own.id
        BY <1>4, <1>7, <2>2, <3>1
    <3>3. t.ids[v.id] = r
      <4>1. IdsHold(t, Refs(t))
          BY <1>4, SoundIs
      <4>2. t.ids[t.work[r].id] = r
          BY <3>2, <4>1, Identities
      <4>. QED
          BY Zenon, <3>1, <3>2, <4>2
    <3>4. Value(own.begin) \in Nat /\ Value(own.end) \in Nat
        BY <1>4, <3>1, <3>2, SoundIs
    <3>5. Value(own.begin) .. Value(own.begin) - 1 = {} /\ Value(own.end) <= Value(own.end)
        BY <3>4
    <3>. QED
        BY <3>1, <3>2, <3>3, <3>5 DEF Ahead
  <2>. QED
      BY <2>1, <2>2
<1>11. ASSUME NEW q \in Worker, q # p PROVE Ahead(t, h[q], X)
  <2>1. PICK other : other = h[q]
      OBVIOUS
  <2>2. HeldOK(other) /\ Ahead(s, other, X)
      BY <2>1 DEF Tracked, HoldsOK
  <2>3. other.id \in DOMAIN t.ids => other.id \in DOMAIN s.ids
      BY <1>1, <1>4, <2>1
  <2>4. Ahead(t, other, X)
      BY <1>2, <1>4, <2>2, <2>3, AheadKept
  <2>. QED
      BY <2>1, <2>4
<1>12. \A q \in Worker : Ahead(t, g[q], X)
    BY <1>8, <1>10, <1>11
<1>13. finished(v) => Refs(t) = {}
  <2>1. CASE a.ref = NULL
      BY <1>4, <2>1
  <2>2. CASE a.ref # NULL
    <3>1. v.begin \in Nums
        BY <1>4, <1>7, <2>2, SoundIs
    <3>. QED
        BY <3>1, NumsAre DEF finished
  <2>. QED
      BY <2>1, <2>2
<1>14. \A q \in Worker : finished(g[q]) => Refs(t) = {}
  <2>1. \A q \in Worker : finished(h[q]) => Refs(t) = {}
      BY <1>5 DEF Tracked
  <2>. QED
      BY <1>8, <1>13, <2>1
<1>15. Tracked(t, g, X)
    BY <1>4, <1>9, <1>12, <1>14 DEF Tracked
<1>16. ASSUME Numbered(s, h) PROVE Numbered(t, g)
  <2>1. PICK m, k : m = s.id_generator /\ k = t.id_generator
      OBVIOUS
  <2>2. m \in Nat /\ k \in Nat /\ m <= k
      BY <1>4, <1>5, <2>1
  <2>3. \A id \in DOMAIN s.ids : id \in Nat /\ id <= m
    <3>1. \A id \in DOMAIN s.ids : s.ids[id] \in Refs(s) /\ s.work[s.ids[id]].id = id
        BY <1>2, SoundIs, Identities
    <3>2. \A id \in DOMAIN s.ids : id <= m
        BY <1>16, <2>1, <3>1 DEF Numbered
    <3>. QED
        BY <1>2, <3>2, IdentitiesFinite
  <2>4. \A r \in Refs(t) : t.work[r].id \in DOMAIN t.ids
      BY <1>4, SoundIs, Identities
  <2>5. \A r \in Refs(t) : t.work[r].id <= k
    <3>. TAKE r \in Refs(t)
    <3>1. PICK id : id = t.work[r].id
        OBVIOUS
    <3>2. id \in DOMAIN s.ids \/ id = k
        BY <1>4, <2>1, <2>4, <3>1
    <3>3. id <= k
        BY <2>2, <2>3, <3>2
    <3>. QED
        BY <3>1, <3>3
  <2>6. \A q \in Worker : h[q].id <= k
    <3>. TAKE q \in Worker
    <3>1. h[q].id \in Int /\ h[q].id <= m
        BY <1>16, <2>1 DEF Numbered, HoldsOK, HeldOK
    <3>. QED
        BY <2>2, <3>1
  <2>7. v.id <= k
    <3>1. CASE a.ref = NULL
        BY <1>1, <1>5, <1>6, <2>6, <3>1
    <3>2. CASE a.ref # NULL
        BY <1>4, <1>7, <2>5, <3>2
    <3>. QED
        BY <3>1, <3>2
  <2>8. \A q \in Worker : g[q].id <= k
      BY <1>8, <2>6, <2>7
  <2>. QED
      BY <2>1, <2>5, <2>8 DEF Numbered
<1>. QED
    BY <1>1, <1>15, <1>16

(* An identity can be in use only after a checkpoint, which makes them     *)
(* count from 0 again.                                                     *)
LEMMA RequestWorksInv == ASSUME Calculates, WorksInv, NEW p \in Worker, Request(p) PROVE WorksInv'
<1>1. PICK late \in BOOLEAN : /\ ws' = request(ws, holds[p], late).s
                              /\ holds' = [holds EXCEPT ![p] = Answered(request(ws, holds[p], late), @)]
    BY DEF Request
<1>2. PICK a : a = request(ws, holds[p], late)
    OBVIOUS
<1>3. ws' = a.s /\ holds' = [holds EXCEPT ![p] = Answered(a, @)]
    BY <1>1, <1>2
<1>4. /\ ~reused /\ ~finished(holds[p])
      /\ reused' = (/\ a.s.id_generator # ws.id_generator
                    /\ a.s.id_generator \in DOMAIN ws.ids \cup {holds[q].id : q \in Worker})
      /\ explored' = explored /\ file' = file /\ loaded' = loaded
    BY <1>3 DEF Request
<1>5. HoldsOK(holds) /\ Tracked(ws, holds, explored) /\ Sound(ws) /\ HeldOK(holds[p])
    BY <1>4 DEF WorksInv, Tracked, HoldsOK
<1>6. /\ DOMAIN holds' = Worker /\ holds'[p] = Answered(a, holds[p])
      /\ \A q \in Worker : q # p => holds'[q] = holds[q]
    BY <1>3, <1>5 DEF HoldsOK
<1>7. /\ HeldOK(Answered(a, holds[p]))
      /\ a.s.id_generator \in {ws.id_generator, ws.id_generator + 1} /\ ws.id_generator \in Nat
  <2>1. PICK w, s : w = holds[p] /\ s = ws
      OBVIOUS
  <2>2. /\ HeldOK(Answered(a, w))
        /\ a.s.id_generator \in {s.id_generator, s.id_generator + 1} /\ s.id_generator \in Nat
      BY <1>2, <1>4, <1>5, <2>1, AnsweredHeld
  <2>. QED
      BY <2>1, <2>2
<1>8. HoldsOK(holds')
    BY <1>5, <1>6, <1>7 DEF HoldsOK
<1>9. reused' \in BOOLEAN
    BY <1>4
<1>10. ASSUME ~reused'
       PROVE  Tracked(ws', holds', explored) /\ (Numbered(ws, holds) => Numbered(ws', holds'))
  <2>1. a.s.id_generator # ws.id_generator =>
            a.s.id_generator \notin DOMAIN ws.ids \cup {holds[q].id : q \in Worker}
      BY <1>4, <1>10
  <2>2. PICK s, h, X, g : s = ws /\ h = holds /\ X = explored /\ g = holds'
      OBVIOUS
  <2>3. Tracked(a.s, g, X) /\ (Numbered(s, h) => Numbered(a.s, g))
      BY <1>2, <1>4, <1>5, <1>6, <2>1, <2>2, RequestTracked
  <2>. QED
      BY <1>3, <2>2, <2>3
<1>11. ASSUME ~loaded PROVE ~reused'
  <2>1. Numbered(ws, holds)
      BY <1>11 DEF WorksInv
  <2>2. PICK m : m = ws.id_generator
      OBVIOUS
  <2>3. m \in Nat /\ a.s.id_generator \in {m, m + 1}
      BY <1>7, <2>2
  <2>4. \A id \in DOMAIN ws.ids : id <= m
      BY <1>5, <2>1, <2>2, SoundIs, Identities DEF Numbered
  <2>5. \A q \in Worker : holds[q].id <= m
      BY <2>1, <2>2 DEF Numbered
  <2>6. m + 1 \notin DOMAIN ws.ids \cup {holds[q].id : q \in Worker}
    <3>1. ~(m + 1 <= m)
        BY <2>3
    <3>. QED
        BY <2>4, <2>5, <3>1
  <2>. QED
      BY <1>4, <2>2, <2>3, <2>6
<1>12. reused' => loaded'
    BY <1>4, <1>11 DEF WorksInv
<1>13. ~reused' => Tracked(ws, holds, explored)'
    BY <1>4, <1>10
<1>14. ~loaded' => Numbered(ws, holds)'
  <2>. SUFFICES ASSUME ~loaded PROVE Numbered(ws', holds')
      BY <1>4
  <2>. QED
      BY <1>10, <1>11 DEF WorksInv
<1>15. explored' \subseteq Leaves /\ loaded' \in BOOLEAN /\ FileOK(file, explored)'
    BY <1>4 DEF WorksInv
<1>. QED
    BY <1>8, <1>9, <1>12, <1>13, <1>14, <1>15 DEF WorksInv

(* A death takes a copy only. *)
LEMMA DieWorksInv == ASSUME Calculates, WorksInv, NEW p \in Worker, Die(p) PROVE WorksInv'
<1>1. /\ holds' = [holds EXCEPT ![p] = Fresh]
      /\ ws' = ws /\ explored' = explored /\ file' = file /\ reused' = reused /\ loaded' = loaded
    BY DEF Die
<1>2. /\ DOMAIN holds' = Worker /\ holds'[p] = Fresh
      /\ \A q \in Worker : q # p => holds'[q] = holds[q]
    BY <1>1 DEF WorksInv, HoldsOK
<1>3. HoldsOK(holds)'
    BY <1>2, FreshHeld DEF WorksInv, HoldsOK
<1>4. ASSUME ~reused PROVE Tracked(ws, holds', explored)
  <2>1. Tracked(ws, holds, explored) /\ Sound(ws)
      BY <1>4 DEF WorksInv, Tracked
  <2>2. Ahead(ws, Fresh, explored) /\ ~finished(Fresh)
      BY <2>1, FreshAhead
  <2>3. \A q \in Worker : Ahead(ws, holds'[q], explored)
      BY <1>2, <2>1, <2>2 DEF Tracked
  <2>4. \A q \in Worker : finished(holds'[q]) => Refs(ws) = {}
      BY <1>2, <2>1, <2>2 DEF Tracked
  <2>. QED
      BY <2>1, <2>3, <2>4 DEF Tracked
<1>5. ASSUME ~loaded PROVE Numbered(ws, holds')
  <2>1. Numbered(ws, holds) /\ Sound(ws)
      BY <1>5 DEF WorksInv, Tracked
  <2>2. Fresh.id <= ws.id_generator
      BY <2>1, FreshAhead
  <2>. QED
      BY <1>2, <2>1, <2>2 DEF Numbered
<1>. QED
    BY <1>1, <1>3, <1>4, <1>5 DEF WorksInv

(* A checkpoint takes nothing, and a restart from it loses nothing. *)
LEMMA SaveWorksInv == ASSUME Calculates, WorksInv, Save PROVE WorksInv'
<1>1. /\ ~reused /\ file' = <<Texts(ws)>>
      /\ ws' = ws /\ holds' = holds /\ explored' = explored /\ reused' = reused /\ loaded' = loaded
    BY DEF Save, Texts
<1>2. Sound(ws) /\ Leaves \ explored \subseteq Within(ws)
    BY <1>1 DEF WorksInv, Tracked
<1>3. TextsOK(Texts(ws), explored)
    BY <1>2, Saved
<1>4. FileOK(file', explored)
    BY <1>1, <1>3 DEF FileOK
<1>. QED
    BY <1>1, <1>4 DEF WorksInv

LEMMA RestartWorksInv == ASSUME Calculates, WorksInv, Restart PROVE WorksInv'
<1>1. /\ holds' = [p \in Worker |-> Fresh] /\ file' = <<>> /\ reused' = FALSE
      /\ explored' = explored
    BY DEF Restart
<1>2. FileOK(file', explored) /\ explored' \subseteq Leaves
    BY <1>1 DEF FileOK, WorksInv
<1>3. CASE ws' = AllLeaves /\ loaded' = FALSE
  <2>1. Tracked(ws', holds', explored) /\ HoldsOK(holds') /\ Numbered(ws', holds')
      BY <1>1, <1>3, BegunWithAll
  <2>. QED
      BY <1>1, <1>2, <1>3, <2>1 DEF WorksInv
<1>4. CASE file # <<>> /\ ws' = Loaded(file[1]) /\ loaded' = TRUE
  <2>1. PICK texts, X, s : texts = file[1] /\ X = explored /\ s = ws'
      OBVIOUS
  <2>2. TextsOK(texts, X)
      BY <1>4, <2>1 DEF WorksInv, FileOK
  <2>3. Sound(Loaded(texts)) /\ Leaves \ X \subseteq Within(Loaded(texts))
      BY <2>2, LoadedSound
  <2>4. Sound(s) /\ Leaves \ X \subseteq Within(s)
      BY <1>4, <2>1, <2>3
  <2>5. Tracked(s, holds', X) /\ HoldsOK(holds')
      BY <1>1, <2>4, Begun
  <2>. QED
      BY <1>1, <1>2, <1>4, <2>1, <2>5 DEF WorksInv
<1>. QED
    BY <1>3, <1>4 DEF Restart

LEMMA StepWorksInv == ASSUME Calculates, WorksInv, [Next]_vars PROVE WorksInv'
<1>1. ASSUME NEW p \in Worker, Explore(p) PROVE WorksInv'
    BY <1>1, ExploreWorksInv
<1>2. ASSUME NEW p \in Worker, Request(p) PROVE WorksInv'
    BY <1>2, RequestWorksInv
<1>3. ASSUME NEW p \in Worker, Die(p) PROVE WorksInv'
    BY <1>3, DieWorksInv
<1>4. CASE Save
    BY <1>4, SaveWorksInv
<1>5. CASE Restart
    BY <1>5, RestartWorksInv
<1>6. CASE UNCHANGED vars
    BY <1>6 DEF WorksInv, vars
<1>. QED
    BY <1>1, <1>2, <1>3, <1>4, <1>5, <1>6 DEF Next

-----------------------------------------------------------------------------
(* What the invariant gives. *)
LEMMA TrackedLosesNothing ==
    ASSUME Calculates, WorksInv
    PROVE  NoIntervalLost
<1>. SUFFICES ASSUME ~reused
              PROVE  /\ Leaves \ explored
                            \subseteq UNION {Numbers(ws.work[ws.ids[id]]) : id \in DOMAIN ws.ids}
                     /\ (\E p \in Worker : finished(holds[p])) => explored = Leaves
    BY DEF NoIntervalLost
<1>1. Tracked(ws, holds, explored) /\ Sound(ws) /\ explored \subseteq Leaves
    BY DEF WorksInv, Tracked
<1>2. \A r \in Refs(ws) : ws.work[r].id \in DOMAIN ws.ids /\ ws.ids[ws.work[r].id] = r
    BY <1>1, SoundIs, Identities
<1>3. ASSUME NEW x \in Leaves \ explored
      PROVE  \E id \in DOMAIN ws.ids : x \in Numbers(ws.work[ws.ids[id]])
  <2>1. PICK r \in Refs(ws) : x \in Numbers(ws.work[r])
      BY <1>1 DEF Tracked, Within
  <2>. QED
      BY <1>2, <2>1
<1>4. ASSUME NEW p \in Worker, finished(holds[p]) PROVE explored = Leaves
  <2>1. Refs(ws) = {}
      BY <1>1, <1>4 DEF Tracked
  <2>2. Within(ws) = {}
      BY <2>1 DEF Within
  <2>. QED
      BY <1>1, <2>2 DEF Tracked
<1>. QED
    BY <1>3, <1>4

(* The indexes agree, for any sound works. *)
LEMMA TrackedIndexes ==
    ASSUME Calculates, NEW s, Sound(s)
    PROVE  /\ \A id \in DOMAIN s.ids : s.work[s.ids[id]].id = id
           /\ Range(s.ids) = Refs(s)
           /\ Len(s.sizes) = Cardinality(Refs(s))
           /\ \A r \in Refs(s) : [size |-> size_of(s.work[r]), ref |-> r] \in ToSet(s.sizes)
           /\ Len(s.times) = Cardinality(Refs(s)) /\ ToSet(s.times) = Refs(s)
           /\ Value(s.size) = SumFunction([r \in Refs(s) |-> Value(size_of(s.work[r]))])
<1>1. PICK R : R = Refs(s)
    OBVIOUS
<1>2. /\ IdsHold(s, R) /\ TimesHold(s, R) /\ SizesHold(s, R) /\ Sized(s, R) /\ IsFiniteSet(R)
      /\ \A r \in R : s.work[r].size \in Nums
    BY <1>1 DEF Sound, Indexed, Shape, WorkOK
<1>3. /\ \A id \in DOMAIN s.ids : s.ids[id] \in R /\ s.work[s.ids[id]].id = id
      /\ \A r \in R : s.work[r].id \in DOMAIN s.ids /\ s.ids[s.work[r].id] = r
    BY <1>2, Identities
<1>4. Range(s.ids) = R
    BY <1>3 DEF Range
<1>5. Len(s.sizes) = Cardinality(R)
  <2>1. PICK K, g : K = Keyed(s, R) /\ g = [e \in K |-> e.ref]
      OBVIOUS
  <2>2. \A e \in K : e.ref \in R /\ e = [size |-> s.work[e.ref].size, ref |-> e.ref]
      BY <2>1 DEF Keyed
  <2>3. g \in [K -> R] /\ \A x, y \in K : g[x] = g[y] => x = y
      BY <2>1, <2>2
  <2>4. \A r \in R : [size |-> s.work[r].size, ref |-> r] \in K
      BY <2>1 DEF Keyed
  <2>5. \A r \in R : \E x \in K : g[x] = r
      BY <2>1, <2>4
  <2>6. Lists(s.sizes, K)
      BY <1>2, <2>1 DEF SizesHold
  <2>. QED
      BY <2>3, <2>5, <2>6, ListsCount
<1>6. \A r \in R : [size |-> size_of(s.work[r]), ref |-> r] \in ToSet(s.sizes)
  <2>1. ToSet(s.sizes) = Keyed(s, R)
      BY <1>2 DEF SizesHold, Lists
  <2>. QED
      BY <1>2, <2>1 DEF Keyed, Sized
<1>7. Len(s.times) = Cardinality(R) /\ ToSet(s.times) = R
  <2>1. Lists(s.times, R)
      BY <1>2 DEF TimesHold
  <2>2. PICK g : g = [r \in R |-> r]
      OBVIOUS
  <2>3. g \in [R -> R] /\ (\A x, y \in R : g[x] = g[y] => x = y) /\ \A z \in R : \E x \in R : g[x] = z
      BY <2>2
  <2>. QED
      BY <2>1, <2>3, ListsCount DEF Lists
<1>8. Value(s.size) = SumFunction([r \in R |-> Value(size_of(s.work[r]))])
  <2>1. PICK f, g : f = [r \in R |-> Value(size_of(s.work[r]))] /\ g = SizeMap(s)
      OBVIOUS
  <2>2. SumFunction(f) = Total(f, R)
      BY <2>1 DEF SumFunction, Total, SumFunctionOnSet, FoldFunction
  <2>3. \A r \in R : g[r] = f[r] /\ g[r] \in Int
      BY <1>1, <1>2, <2>1, NumsAre DEF SizeMap, Sized
  <2>4. Total(f, R) = Total(g, R)
      BY <1>2, <2>3, TotalSame
  <2>. QED
      BY <1>2, <2>1, <2>2, <2>4 DEF SizesHold
<1>. QED
    BY <1>1, <1>3, <1>4, <1>5, <1>6, <1>7, <1>8

LEMMA TrackedAgrees ==
    ASSUME Calculates, WorksInv
    PROVE  IndexesAgree
<1>1. reused => loaded
    BY DEF WorksInv
<1>2. ~reused => Sound(ws)
    BY DEF WorksInv, Tracked
<1>. QED
    BY <1>1, <1>2, TrackedIndexes DEF IndexesAgree

(* For any number of jobs and workers, and any number of deaths and        *)
(* restarts, every number that nobody has explored is in a work that can   *)
(* be given, and a worker is told that all is finished only if it is,      *)
(* until a new process gives an identity that is in use (works::request,   *)
(* save and init).                                                         *)
THEOREM NothingLostInWorks == ASSUME Calculates PROVE Spec => []NoIntervalLost
<1>1. Init => WorksInv
    BY InitWorksInv
<1>2. WorksInv /\ [Next]_vars => WorksInv'
    BY StepWorksInv
<1>3. WorksInv => NoIntervalLost
    BY TrackedLosesNothing
<1>. QED
    BY <1>1, <1>2, <1>3, PTL DEF Spec

(* For any number of jobs and workers, the indexes by identity, by size    *)
(* and by time hold the same works under true keys after every request,    *)
(* checkpoint and restart, the total is the sum of the sizes, and a        *)
(* process that began without a checkpoint gives no identity twice         *)
(* (works.cpp: sizes_, id_ and times_ functions, _update, _big).           *)
THEOREM WorksAgree == ASSUME Calculates PROVE Spec => []IndexesAgree
<1>1. Init => WorksInv
    BY InitWorksInv
<1>2. WorksInv /\ [Next]_vars => WorksInv'
    BY StepWorksInv
<1>3. WorksInv => IndexesAgree
    BY TrackedAgrees
<1>. QED
    BY <1>1, <1>2, <1>3, PTL DEF Spec
=============================================================================
