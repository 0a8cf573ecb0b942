-------------------------- MODULE GpuExplorerProofs --------------------------
(***************************************************************************)
(* For a ring of any size, any pool size and any instance: prune pairs     *)
(* every pool with the bounds of its own children; and what is collected,  *)
(* sent and pruned is open or counted throughout, so that no better        *)
(* schedule is lost and every leaf counts once.                            *)
(***************************************************************************)
EXTENDS GpuExplorer, ExplorerProofs, SequenceTheorems

-----------------------------------------------------------------------------
M == MAX_SIZE_INPUTQUEUE_TO_GPU
Waits == Len(readyPoolToGPU)

(* The slot that is k after slot i. *)
After(i, k) == IF i + k < M THEN i + k ELSE i + k - M

(* The pools that were sent fill consecutive slots, from the one that is   *)
(* read next to the one before the next to be written.                     *)
Consecutive ==
    /\ \E S : readyPoolToGPU \in Seq(S)
    /\ starting_index_gpu \in Slot
    /\ Waits <= M
    /\ pc \in {"collect", "send"} => Waits < M
    /\ current_index_gpu = After(starting_index_gpu, Waits)
    /\ \A k \in 1 .. Waits :
          readyPoolToGPU[k].children_d = After(starting_index_gpu, k - 1)

(* The arrays of slots, and what is in the slot of a pool. *)
Filled ==
    /\ DOMAIN pool_to_evaluate_h = Slot
    /\ DOMAIN bounds_h = Slot
    /\ \A k \in 1 .. Waits :
          LET slot == readyPoolToGPU[k].children_d
          IN  /\ readyPoolToGPU[k].children_size = Len(pool_to_evaluate_h[slot])
              /\ slot \notin stream => bounds_h[slot] = Bounds(pool_to_evaluate_h[slot])

RingInv == Consecutive /\ Filled

LEMMA RingFacts ==
    /\ M \in Nat /\ M > 0 /\ Slot = 0 .. M - 1
BY PoolAssumption DEF M, Slot

(* The remainder of a sum that passes the size of the ring once at most. *)
LEMMA NextIsAfter ==
    ASSUME NEW i \in Slot
    PROVE  NextSlot(i) = After(i, 1)
<1>1. M \in Nat /\ M > 0 /\ i \in 0 .. M - 1
    BY RingFacts
<1>2. CASE i + 1 < M
    BY <1>1, <1>2 DEF NextSlot, After, M
<1>3. CASE i + 1 = M
    BY <1>1, <1>3 DEF NextSlot, After, M
<1>. QED
    BY <1>1, <1>2, <1>3

LEMMA AfterFacts ==
    ASSUME NEW i \in Slot
    PROVE  /\ After(i, 0) = i
           /\ \A k \in 0 .. M : After(i, k) \in Slot
           /\ \A k \in 0 .. M - 1 : After(After(i, k), 1) = After(i, k + 1)
           /\ \A k \in 0 .. M - 1 : After(After(i, 1), k) = After(i, k + 1)
           /\ \A k, l \in 0 .. M - 1 : After(i, k) = After(i, l) => k = l
<1>. M \in Nat /\ M > 0 /\ i \in 0 .. M - 1 /\ Slot = 0 .. M - 1
    BY RingFacts
<1>. QED
    BY DEF After

LEMMA WaitsType == Consecutive => Waits \in Nat /\ (readyPoolToGPU = << >> <=> Waits = 0)
BY LenProperties, EmptySeq DEF Consecutive, Waits

-----------------------------------------------------------------------------
LEMMA InitRing == GpuInit => RingInv
<1>. SUFFICES ASSUME GpuInit PROVE RingInv
    OBVIOUS
<1>1. readyPoolToGPU = << >> /\ Waits = 0 /\ << >> \in Seq({})
    BY EmptySeq DEF GpuInit, Waits
<1>2. 0 \in Slot /\ After(0, 0) = 0 /\ M \in Nat
    BY RingFacts, AfterFacts
<1>. QED
    BY <1>1, <1>2 DEF GpuInit, RingInv, Consecutive, Filled

(* A slot is written only when no pool is waiting in it. *)
LEMMA SendStep ==
    ASSUME RingInv, Send
    PROVE  RingInv'
<1>. DEFINE pool == AllChildren
            entry == [children_d |-> current_index_gpu, children_size |-> Len(pool)]
            n == Waits
<1>1. n \in Nat /\ n < M /\ M \in Nat /\ Slot = 0 .. M - 1 /\ starting_index_gpu \in Slot
      /\ current_index_gpu = After(starting_index_gpu, n)
    BY RingFacts, WaitsType DEF RingInv, Consecutive, Send
<1>2. pc' = "turn" /\ tables_g' = tables_g
    BY DEF Send
<1>3. CASE UNCHANGED ring
    BY <1>2, <1>3 DEF ring, RingInv, Consecutive, Filled, Waits, Bounds
<1>4. CASE pool # <<>>
  <2>1. /\ pool_to_evaluate_h' = [pool_to_evaluate_h EXCEPT ![current_index_gpu] = pool]
        /\ stream' = stream \cup {current_index_gpu}
        /\ readyPoolToGPU' = Append(readyPoolToGPU, entry)
        /\ current_index_gpu' = NextSlot(current_index_gpu)
        /\ UNCHANGED <<bounds_h, starting_index_gpu>>
      BY <1>4 DEF Send
  <2>2. PICK S : readyPoolToGPU \in Seq(S)
      BY DEF RingInv, Consecutive
  <2>3. readyPoolToGPU \in Seq(S \cup {entry})
      BY <2>2, SeqMonotonic
  <2>4. /\ readyPoolToGPU' \in Seq(S \cup {entry}) /\ Waits' = n + 1
        /\ \A k \in 1 .. n : readyPoolToGPU'[k] = readyPoolToGPU[k]
        /\ readyPoolToGPU'[n + 1] = entry
      BY <2>1, <2>3, AppendProperties DEF Waits
  <2>5. /\ current_index_gpu \in Slot
        /\ current_index_gpu' = After(starting_index_gpu, n + 1)
      BY <1>1, <2>1, AfterFacts, NextIsAfter
  <2>6. \A k \in 1 .. n : /\ readyPoolToGPU[k].children_d = After(starting_index_gpu, k - 1)
                          /\ readyPoolToGPU[k].children_d # current_index_gpu
    <3>. SUFFICES ASSUME NEW k \in 1 .. n
                  PROVE  /\ readyPoolToGPU[k].children_d = After(starting_index_gpu, k - 1)
                         /\ readyPoolToGPU[k].children_d # current_index_gpu
        OBVIOUS
    <3>1. k - 1 \in 0 .. M - 1 /\ k - 1 # n /\ n \in 0 .. M - 1
        BY <1>1
    <3>2. readyPoolToGPU[k].children_d = After(starting_index_gpu, k - 1)
        BY DEF RingInv, Consecutive
    <3>3. After(starting_index_gpu, k - 1) # After(starting_index_gpu, n)
        BY <1>1, <3>1, AfterFacts
    <3>. QED
        BY <1>1, <3>2, <3>3
  <2>7. \A k \in 1 .. n + 1 : k \in 1 .. n \/ k = n + 1
      BY <1>1
  <2>8. \A k \in 1 .. n + 1 : readyPoolToGPU'[k].children_d = After(starting_index_gpu, k - 1)
    <3>. SUFFICES ASSUME NEW k \in 1 .. n + 1
                  PROVE  readyPoolToGPU'[k].children_d = After(starting_index_gpu, k - 1)
        OBVIOUS
    <3>1. CASE k = n + 1
      <4>1. k - 1 = n
          BY <1>1, <3>1
      <4>. QED
          BY <1>1, <2>4, <3>1, <4>1
    <3>2. CASE k \in 1 .. n
        BY <2>4, <2>6, <3>2
    <3>. QED
        BY <2>7, <3>1, <3>2
  <2>9. Consecutive'
    <3>1. \E T : readyPoolToGPU' \in Seq(T)
        BY <2>4
    <3>2. M' = M /\ Slot' = Slot /\ n + 1 <= M
        BY <1>1 DEF M, Slot
    <3>3. UNCHANGED starting_index_gpu
        BY <2>1
    <3>. QED
        BY <1>1, <1>2, <2>4, <2>5, <2>8, <3>1, <3>2, <3>3 DEF Consecutive
  <2>10. ASSUME NEW k \in 1 .. n + 1
         PROVE  LET slot == readyPoolToGPU'[k].children_d
                IN  /\ readyPoolToGPU'[k].children_size = Len(pool_to_evaluate_h'[slot])
                    /\ slot \notin stream' => bounds_h'[slot] = Bounds(pool_to_evaluate_h'[slot])
    <3>1. DOMAIN pool_to_evaluate_h = Slot
        BY DEF RingInv, Filled
    <3>2. CASE k = n + 1
      <4>1. readyPoolToGPU'[k] = entry
          BY <2>4, <3>2
      <4>2. pool_to_evaluate_h'[current_index_gpu] = pool /\ current_index_gpu \in stream'
          BY <2>1, <2>5, <3>1
      <4>. QED
          BY <4>1, <4>2
    <3>3. CASE k \in 1 .. n
      <4>1. /\ readyPoolToGPU'[k] = readyPoolToGPU[k]
            /\ readyPoolToGPU[k].children_d # current_index_gpu
            /\ readyPoolToGPU[k].children_d \in Slot
        <5>1. k - 1 \in 0 .. M
            BY <1>1, <3>3
        <5>2. After(starting_index_gpu, k - 1) \in Slot
            BY <1>1, <5>1, AfterFacts
        <5>. QED
            BY <2>4, <2>6, <3>3, <5>2
      <4>2. pool_to_evaluate_h'[readyPoolToGPU[k].children_d]
                = pool_to_evaluate_h[readyPoolToGPU[k].children_d]
          BY <2>1, <3>1, <4>1
      <4>. QED
          BY <2>1, <3>3, <4>1, <4>2 DEF RingInv, Filled
    <3>. QED
        BY <2>7, <3>2, <3>3
  <2>11. Filled'
    <3>1. Slot' = Slot /\ DOMAIN pool_to_evaluate_h' = Slot /\ DOMAIN bounds_h' = Slot
        BY <2>1 DEF RingInv, Filled, Slot
    <3>2. Waits' = n + 1
        BY <2>4
    <3>3. ASSUME NEW k \in 1 .. Waits'
          PROVE  LET slot == readyPoolToGPU'[k].children_d
                 IN  /\ readyPoolToGPU'[k].children_size = Len(pool_to_evaluate_h'[slot])
                     /\ slot \notin stream' => bounds_h'[slot] = Bounds(pool_to_evaluate_h'[slot])
        BY <2>10, <3>2
    <3>. HIDE DEF pool, entry, n
    <3>. QED
        BY <1>2, <3>1, <3>3 DEF Filled, Bounds
  <2>. QED
      BY <2>9, <2>11 DEF RingInv
<1>. QED
    BY <1>3, <1>4 DEF Send

(* The device finishes a slot: its bounds are those of its children. *)
LEMMA DeviceStep ==
    ASSUME RingInv, NEW i \in Slot, Device(i)
    PROVE  RingInv'
<1>1. /\ bounds_h' = [bounds_h EXCEPT ![i] = Bounds(pool_to_evaluate_h[i])]
      /\ stream' = stream \ {i}
      /\ UNCHANGED <<pc, tables_g, pool_to_evaluate_h, readyPoolToGPU,
                     current_index_gpu, starting_index_gpu>>
    BY DEF Device
<1>2. Consecutive'
    BY <1>1 DEF RingInv, Consecutive, Waits
<1>3. \A slot \in Slot :
         slot \notin stream' => \/ bounds_h'[slot] = Bounds(pool_to_evaluate_h[slot])
                                \/ slot \notin stream /\ bounds_h'[slot] = bounds_h[slot]
    BY <1>1 DEF RingInv, Filled
<1>4. \A k \in 1 .. Waits : readyPoolToGPU[k].children_d \in Slot
  <2>1. \A k \in 1 .. Waits : k - 1 \in 0 .. M
      BY WaitsType, RingFacts DEF RingInv, Consecutive
  <2>. QED
      BY <2>1, AfterFacts DEF RingInv, Consecutive
<1>5. Filled'
  <2>1. DOMAIN bounds_h' = Slot /\ DOMAIN pool_to_evaluate_h' = Slot
      BY <1>1 DEF RingInv, Filled
  <2>. SUFFICES ASSUME NEW k \in 1 .. Waits
                PROVE  LET slot == readyPoolToGPU[k].children_d
                       IN  /\ readyPoolToGPU[k].children_size = Len(pool_to_evaluate_h[slot])
                           /\ slot \notin stream' =>
                                 bounds_h'[slot] = Bounds(pool_to_evaluate_h[slot])
      BY <1>1, <2>1 DEF Filled, Waits, Bounds, Slot
  <2>. QED
      BY <1>3, <1>4 DEF RingInv, Filled
<1>. QED
    BY <1>2, <1>5 DEF RingInv

(* The oldest pool is read, and the next one is the oldest. *)
LEMMA PruneStep ==
    ASSUME RingInv, PrunePool
    PROVE  RingInv'
<1>. DEFINE n == Waits
<1>1. /\ readyPoolToGPU # << >> /\ readyPoolToGPU' = Tail(readyPoolToGPU)
      /\ starting_index_gpu' = NextSlot(starting_index_gpu) /\ pc' = "process"
      /\ UNCHANGED <<tables_g, pool_to_evaluate_h, bounds_h, stream, current_index_gpu>>
    BY DEF PrunePool
<1>2. n \in Nat /\ n > 0 /\ n <= M /\ M \in Nat /\ starting_index_gpu \in Slot
      /\ current_index_gpu = After(starting_index_gpu, n)
    BY <1>1, RingFacts, WaitsType DEF RingInv, Consecutive
<1>3. PICK S : readyPoolToGPU \in Seq(S)
    BY DEF RingInv, Consecutive
<1>4. /\ readyPoolToGPU' \in Seq(S) /\ Waits' = n - 1
      /\ \A k \in 1 .. n - 1 : readyPoolToGPU'[k] = readyPoolToGPU[k + 1]
    BY <1>1, <1>3, HeadTailProperties DEF Waits
<1>5. starting_index_gpu' = After(starting_index_gpu, 1) /\ starting_index_gpu' \in Slot
  <2>1. 1 \in 0 .. M
      BY <1>2
  <2>. QED
      BY <1>1, <1>2, <2>1, NextIsAfter, AfterFacts
<1>6. \A k \in 1 .. n - 1 : k + 1 \in 1 .. n /\ (k + 1) - 1 = k /\ k - 1 \in 0 .. M - 1
                            /\ (k - 1) + 1 = k
    BY <1>2
<1>7. \A k \in 1 .. n - 1 : readyPoolToGPU'[k].children_d = After(starting_index_gpu', k - 1)
  <2>. SUFFICES ASSUME NEW k \in 1 .. n - 1
                PROVE  readyPoolToGPU[k + 1].children_d
                          = After(After(starting_index_gpu, 1), k - 1)
      BY <1>4, <1>5
  <2>1. readyPoolToGPU[k + 1].children_d = After(starting_index_gpu, k)
      BY <1>6 DEF RingInv, Consecutive
  <2>2. After(After(starting_index_gpu, 1), k - 1) = After(starting_index_gpu, k)
      BY <1>2, <1>6, AfterFacts
  <2>. QED
      BY <2>1, <2>2
<1>8. current_index_gpu' = After(starting_index_gpu', n - 1)
  <2>1. n - 1 \in 0 .. M - 1 /\ (n - 1) + 1 = n
      BY <1>2
  <2>. QED
      BY <1>1, <1>2, <1>5, <2>1, AfterFacts
<1>9. Consecutive'
  <2>1. n - 1 <= M' /\ M' = M
      BY <1>2 DEF M
  <2>. QED
      BY <1>1, <1>4, <1>5, <1>7, <1>8, <2>1 DEF Consecutive, Slot
<1>10. Filled'
  <2>1. DOMAIN pool_to_evaluate_h' = Slot /\ DOMAIN bounds_h' = Slot
      BY <1>1 DEF RingInv, Filled
  <2>2. ASSUME NEW k \in 1 .. n - 1
        PROVE  LET slot == readyPoolToGPU'[k].children_d
               IN  /\ readyPoolToGPU'[k].children_size = Len(pool_to_evaluate_h[slot])
                   /\ slot \notin stream => bounds_h[slot] = Bounds(pool_to_evaluate_h[slot])
    <3>1. readyPoolToGPU'[k] = readyPoolToGPU[k + 1] /\ k + 1 \in 1 .. Waits
        BY <1>4, <1>6
    <3>. QED
        BY <3>1 DEF RingInv, Filled
  <2>3. UNCHANGED <<pool_to_evaluate_h, bounds_h, stream, tables_g>> /\ Waits' = n - 1
      BY <1>1, <1>4
  <2>. HIDE DEF n
  <2>. QED
      BY <2>1, <2>2, <2>3 DEF Filled, Bounds, Slot
<1>. QED
    BY <1>9, <1>10 DEF RingInv

(* A pool is collected only while a slot is left for it. *)
LEMMA TurnStep ==
    ASSUME RingInv, StartTurn \/ Turn \/ Collect \/ EndTurn \/ ReceiveSchedule \/ Give
                    \/ RecvWork \/ UNCHANGED gpuVars
    PROVE  RingInv'
<1>1. UNCHANGED <<tables_g, ring>>
    BY DEF StartTurn, Turn, Collect, EndTurn, ReceiveSchedule, Give, RecvWork, gpuVars
<1>2. pc' \in {"collect", "send"} => pc \in {"collect", "send"} \/ Waits < M
    BY DEF StartTurn, Turn, Collect, EndTurn, ReceiveSchedule, Give, RecvWork, gpuVars,
           CollectNone, CollectDrop, CollectKeep, CollectFull, Waits, M
<1>. QED
    BY <1>1, <1>2 DEF ring, RingInv, Consecutive, Filled, Waits, Bounds, M

THEOREM RingInvariant == GpuSpec => []RingInv
<1>1. RingInv /\ [GpuNext]_gpuVars => RingInv'
    BY SendStep, DeviceStep, PruneStep, TurnStep DEF GpuNext
<1>. QED
    BY <1>1, InitRing, PTL DEF GpuSpec

(* What prune reads are the bounds of the oldest pool. *)
LEMMA OldestBounds ==
    ASSUME RingInv, readyPoolToGPU # <<>>, starting_index_gpu \notin stream
    PROVE  /\ bounds_h[starting_index_gpu] = Bounds(Pool(1))
           /\ readyPoolToGPU[1].children_size = Len(Pool(1))
<1>1. 1 \in 1 .. Waits /\ starting_index_gpu \in Slot
    BY WaitsType DEF RingInv, Consecutive
<1>2. readyPoolToGPU[1].children_d = starting_index_gpu
    BY <1>1, AfterFacts DEF RingInv, Consecutive
<1>. QED
    BY <1>1, <1>2 DEF RingInv, Filled, Pool

(* Whenever prune may read the next bounds, they are those of the oldest   *)
(* pool's children, and as many.                                           *)
THEOREM BoundsAreTheirs == GpuSpec => []BoundsBelong
<1>1. RingInv => BoundsBelong
    BY OldestBounds DEF BoundsBelong
<1>. QED
    BY <1>1, RingInvariant, PTL

-----------------------------------------------------------------------------
(* What is open, wherever it is: tr in the tree, R collected or under way  *)
(* on the device, aw at the other peer.                                    *)
Proper(t, p) ==
    /\ WellFormed(p) /\ ~leaf(p)
    /\ p.couts_somme \in Nat
    /\ p.ranks \in [0 .. Size -> Nat]
    /\ \A s \in Schedule : Completes(s, p) => p.couts_somme <= criteres_calculer(t, s)

AllApart(T) == \A p, q \in T : p # q => \E d \in 0 .. Size : FirstApart(p, q, d)

(* Depth first: what comes first is not the shallower, where a subproblem  *)
(* under way counts for its children.                                      *)
Reach(p, R) == IF p \in R THEN p.depth + 1 ELSE p.depth
InDepth(tr, R) == \A p, q \in tr \cup R : Deeper(p, q) => Reach(p, R) >= Reach(q, R)

(* One schedule is kept, and its cost is tree::cout. *)
Costs(ws, co) ==
    /\ ws \subseteq Nat /\ co \in Nat /\ co <= costv
    /\ \A c \in ws : c = co
    /\ ws = {} => co = costv

Held(acc, R, aw) == acc.tree \cup R \cup aw

(* Everything is open once, or counted. *)
Whole(t, cpu, acc, R, aw) ==
    /\ acc.tree \cap R = {} /\ acc.tree \cap aw = {} /\ R \cap aw = {}
    /\ IsFiniteSet(Held(acc, R, aw))
    /\ \A p \in Held(acc, R, aw) : Proper(t, p)
    /\ AllApart(Held(acc, R, aw))
    /\ InDepth(acc.tree, R) /\ InDepth(aw, {})
    /\ Costs(acc.wsltns, acc.cout)
    /\ \A s \in Schedule :
          \/ \E p \in Held(acc, R, aw) : Completes(s, p)
          \/ acc.cout <= criteres_calculer(t, s)
    /\ acc.explored \in Nat /\ cpu \in Nat
    /\ acc.explored + cpu + Weight(Held(acc, R, aw)) = weights[0]

(* Two that part at d are in the order of their ranks there. *)
LEMMA DeeperAt ==
    ASSUME NEW p, p.ranks \in [0 .. Size -> Nat], NEW q, q.ranks \in [0 .. Size -> Nat],
           NEW d \in 0 .. Size, FirstApart(p, q, d)
    PROVE  /\ Deeper(p, q) <=> p.ranks[d] < q.ranks[d]
           /\ Deeper(q, p) <=> q.ranks[d] < p.ranks[d]
<1>. DEFINE Apart(x, y) == \A e \in 0 .. d - 1 : x.ranks[e] = y.ranks[e]
<1>1. p.ranks[d] # q.ranks[d] /\ Apart(p, q) /\ Apart(q, p)
    BY DEF FirstApart
<1>2. \A a \in 0 .. Size : p.ranks[a] \in Nat /\ q.ranks[a] \in Nat
    OBVIOUS
<1>3. ASSUME NEW x, NEW y, \A a \in 0 .. Size : x.ranks[a] \in Nat /\ y.ranks[a] \in Nat,
             x.ranks[d] # y.ranks[d], Apart(x, y)
      PROVE  Deeper(x, y) <=> x.ranks[d] < y.ranks[d]
  <2>1. ASSUME Deeper(x, y) PROVE x.ranks[d] < y.ranks[d]
    <3>1. PICK a \in 0 .. Size : /\ x.ranks[a] < y.ranks[a]
                                 /\ \A e \in 0 .. a - 1 : x.ranks[e] = y.ranks[e]
        BY <2>1 DEF Deeper
    <3>2. x.ranks[a] # y.ranks[a]
        BY <1>3, <3>1
    <3>3. a = d
        BY <1>3, <3>1, <3>2, FirstIsOne
    <3>. QED
        BY <3>1, <3>3
  <2>2. ASSUME x.ranks[d] < y.ranks[d] PROVE Deeper(x, y)
      BY <1>3, <2>2 DEF Deeper
  <2>. QED
      BY <2>1, <2>2
<1>. QED
    BY <1>1, <1>2, <1>3

(* A child is where its father was. *)
LEMMA ChildInPlace ==
    ASSUME Numbers(tables), NEW f, WellFormed(f), ~leaf(f), f.ranks \in [0 .. Size -> Nat],
           NEW c \in decompose(f), NEW q, q.ranks \in [0 .. Size -> Nat],
           \E d \in 0 .. Size : FirstApart(f, q, d)
    PROVE  /\ \E d \in 0 .. Size : FirstApart(c, q, d) /\ FirstApart(q, c, d)
           /\ c # q
           /\ Deeper(c, q) <=> Deeper(f, q)
           /\ Deeper(q, c) <=> Deeper(q, f)
<1>. DEFINE k == f.depth
<1>1. /\ k \in 0 .. Size - 2 /\ Level(f) = k
      /\ c.ranks \in [0 .. Size -> Nat] /\ Level(c) = k + 1
      /\ \A d \in 0 .. k : c.ranks[d] = f.ranks[d]
    BY DecomposedRanks, LevelRange
<1>2. PICK d \in 0 .. Size : FirstApart(f, q, d)
    OBVIOUS
<1>. HIDE DEF k
<1>3. d \in 0 .. k /\ d <= Level(q) /\ \A e \in 0 .. d - 1 : e \in 0 .. k
    BY <1>1, <1>2 DEF FirstApart
<1>4. c.ranks[d] = f.ranks[d] /\ \A e \in 0 .. d - 1 : c.ranks[e] = f.ranks[e]
    BY <1>1, <1>3
<1>5. d <= Level(c)
    BY <1>1, <1>3
<1>6. FirstApart(c, q, d) /\ FirstApart(q, c, d)
    BY <1>2, <1>3, <1>4, <1>5 DEF FirstApart
<1>7. c # q
    BY <1>6 DEF FirstApart
<1>8. /\ Deeper(c, q) <=> c.ranks[d] < q.ranks[d]
      /\ Deeper(q, c) <=> q.ranks[d] < c.ranks[d]
    BY <1>1, <1>6, DeeperAt
<1>9. /\ Deeper(f, q) <=> f.ranks[d] < q.ranks[d]
      /\ Deeper(q, f) <=> q.ranks[d] < f.ranks[d]
    BY <1>2, DeeperAt
<1>. QED
    BY <1>4, <1>6, <1>7, <1>8, <1>9

(* A subproblem that is open has a depth, and open positions. *)
LEMMA ProperFacts ==
    ASSUME NEW t, NEW p, Proper(t, p)
    PROVE  /\ WellFormed(p) /\ ~leaf(p) /\ p.depth \in 0 .. Size - 2 /\ p.depth \in 0 .. Size
           /\ p.ranks \in [0 .. Size -> Nat] /\ Level(p) = p.depth
           /\ weights[p.depth] \in Nat
<1>1. p.depth \in 0 .. Size /\ p.depth # Size - 1 /\ p.depth # Size
    BY DEF Proper, WellFormed, leaf
<1>2. weights[p.depth] \in Nat
    BY <1>1, WeightFacts
<1>. QED
    BY <1>1, <1>2, SizeFacts DEF Proper, Level

(* Something open is counted: nothing better than the new cost is below. *)
LEMMA LessOne ==
    ASSUME NEW t, NEW cpu, NEW acc, NEW R, NEW aw, Whole(t, cpu, acc, R, aw),
           \A s \in Schedule : criteres_calculer(t, s) \in Nat,
           NEW p \in acc.tree \cup R,
           NEW a, a.tree = acc.tree \ {p}, a.explored = acc.explored + weights[p.depth],
           Costs(a.wsltns, a.cout), a.cout <= acc.cout,
           \A s \in Schedule : Completes(s, p) => a.cout <= criteres_calculer(t, s)
    PROVE  Whole(t, cpu, a, R \ {p}, aw)
<1>. DEFINE H == Held(acc, R, aw)
            K == Held(a, R \ {p}, aw)
<1>1. K = H \ {p} /\ p \in H /\ K \subseteq H
    BY DEF Held, Whole
<1>2. /\ IsFiniteSet(H) /\ (\A q \in H : Proper(t, q)) /\ AllApart(H)
      /\ \A s \in Schedule :
            (\E q \in H : Completes(s, q)) \/ acc.cout <= criteres_calculer(t, s)
      /\ acc.explored \in Nat /\ cpu \in Nat
      /\ acc.explored + cpu + Weight(H) = weights[0]
      /\ acc.cout \in Nat /\ a.cout \in Nat
    BY DEF Whole, Costs
<1>3. /\ a.tree \cap (R \ {p}) = {} /\ a.tree \cap aw = {} /\ (R \ {p}) \cap aw = {}
      /\ InDepth(aw, {})
    BY DEF Whole
<1>4. InDepth(a.tree, R \ {p})
  <2>1. \A q \in a.tree \cup (R \ {p}) : q \in acc.tree \cup R /\ Reach(q, R \ {p}) = Reach(q, R)
      BY DEF Whole, Reach
  <2>. QED
      BY <2>1 DEF InDepth, Whole
<1>. HIDE DEF H, K
<1>5. IsFiniteSet(K) /\ (\A q \in K : Proper(t, q)) /\ AllApart(K)
    BY <1>1, <1>2, FS_Subset DEF AllApart
<1>6. \A s \in Schedule : (\E q \in K : Completes(s, q)) \/ a.cout <= criteres_calculer(t, s)
  <2>. SUFFICES ASSUME NEW s \in Schedule, ~(\E q \in K : Completes(s, q))
                PROVE  a.cout <= criteres_calculer(t, s)
      OBVIOUS
  <2>1. CASE Completes(s, p)
      BY <2>1
  <2>2. CASE ~Completes(s, p)
    <3>1. acc.cout <= criteres_calculer(t, s)
        BY <1>1, <1>2, <2>2
    <3>. QED
        BY <1>2, <3>1
  <2>. QED
      BY <2>1, <2>2
<1>7. /\ Weight(H) = Weight(K) + weights[p.depth] /\ Weight(K) \in Int
      /\ weights[p.depth] \in Nat
  <2>1. \A q \in H : q.depth \in 0 .. Size
      BY <1>2, ProperFacts
  <2>2. weights[p.depth] \in Nat
      BY <1>1, <1>2, ProperFacts
  <2>. QED
      BY <1>1, <1>2, <2>1, <2>2, WeightAway
<1>8. a.explored \in Nat /\ a.explored + cpu + Weight(K) = weights[0]
  <2>1. \A e, x, y \in Nat, w \in Int : (e + x) + y + w = e + y + (w + x)
      OBVIOUS
  <2>. QED
      BY <1>2, <1>7, <2>1
<1>. QED
    BY <1>2, <1>3, <1>4, <1>5, <1>6, <1>8 DEF Whole, K

(* A better schedule, or none. *)
LEMMA Cheaper ==
    ASSUME NEW t, NEW cpu, NEW acc, NEW R, NEW aw, Whole(t, cpu, acc, R, aw),
           \A s \in Schedule : criteres_calculer(t, s) \in Nat,
           NEW a, a.tree = acc.tree, a.explored = acc.explored,
           Costs(a.wsltns, a.cout), a.cout <= acc.cout
    PROVE  Whole(t, cpu, a, R, aw)
<1>1. Held(a, R, aw) = Held(acc, R, aw)
    BY DEF Held
<1>. DEFINE H == Held(acc, R, aw)
<1>2. \A s \in Schedule : (\E q \in H : Completes(s, q)) \/ a.cout <= criteres_calculer(t, s)
  <2>. SUFFICES ASSUME NEW s \in Schedule, ~(\E q \in H : Completes(s, q))
                PROVE  a.cout <= criteres_calculer(t, s)
      OBVIOUS
  <2>1. acc.cout <= criteres_calculer(t, s) /\ acc.cout \in Nat /\ a.cout \in Nat
      BY DEF Whole, Costs
  <2>. QED
      BY <2>1
<1>. HIDE DEF H
<1>3. Held(a, R, aw) = H
    BY <1>1 DEF H
<1>. QED
    BY <1>2, <1>3 DEF Whole, H

(* What solutions::insert makes of the one cost that is kept. *)
LEMMA OneCost ==
    ASSUME NEW ws, NEW co, Costs(ws, co), NEW cost \in Nat, cost <= costv
    PROVE  /\ (\A i \in ws : ~(i <= cost)) =>
                 /\ Costs({cost}, IF co > cost THEN cost ELSE co)
                 /\ {i \in ws : ~(cost <= i)} \cup {cost} = {cost}
           /\ ~(\A i \in ws : ~(i <= cost)) => co <= cost
           /\ costv \in Nat
<1>1. costv \in Nat
    BY InstanceAssumption
<1>2. \A i \in ws : i \in Nat /\ i = co
    BY DEF Costs
<1>3. co \in Nat /\ co <= costv /\ (ws = {} => co = costv)
    BY DEF Costs
<1>4. ASSUME \A i \in ws : ~(i <= cost)
      PROVE  /\ Costs({cost}, IF co > cost THEN cost ELSE co)
             /\ {i \in ws : ~(cost <= i)} \cup {cost} = {cost}
  <2>1. {i \in ws : ~(cost <= i)} = {}
      BY <1>2, <1>4
  <2>2. (IF co > cost THEN cost ELSE co) = cost
    <3>1. CASE ws = {}
        BY <1>1, <1>3, <3>1
    <3>2. CASE ws # {}
        BY <1>2, <1>3, <1>4, <3>2
    <3>. QED
        BY <3>1, <3>2
  <2>3. Costs({cost}, cost)
      BY DEF Costs
  <2>. QED
      BY <2>1, <2>2, <2>3
<1>5. ASSUME ~(\A i \in ws : ~(i <= cost)) PROVE co <= cost
    BY <1>2, <1>5
<1>. QED
    BY <1>1, <1>4, <1>5

(* The children of a subproblem take its place. *)
LEMMA Branched ==
    ASSUME Admits(tables), NEW cpu, NEW acc, NEW R, NEW aw, Whole(tables, cpu, acc, R, aw),
           NEW f \in R, ~simple(f),
           NEW a, a.tree = acc.tree \cup decompose(f), a.wsltns = acc.wsltns,
           a.cout = acc.cout, a.explored = acc.explored
    PROVE  /\ Whole(tables, cpu, a, R \ {f}, aw)
           /\ acc.tree \cap decompose(f) = {}
           /\ IsFiniteSet(decompose(f))
           /\ \A c \in decompose(f) : Proper(tables, c)
<1>. DEFINE D == decompose(f)
            H == Held(acc, R, aw)
            S == R \ {f}
            K == Held(a, S, aw)
<1>1. /\ a.tree = acc.tree \cup D /\ a.wsltns = acc.wsltns /\ a.cout = acc.cout
      /\ a.explored = acc.explored
    OBVIOUS
<1>2. K = (H \ {f}) \cup D /\ f \in H
    BY <1>1 DEF Held, Whole
<1>3. /\ IsFiniteSet(H) /\ (\A q \in H : Proper(tables, q)) /\ AllApart(H)
      /\ \A s \in Schedule :
            (\E q \in H : Completes(s, q)) \/ acc.cout <= criteres_calculer(tables, s)
      /\ acc.explored + cpu + Weight(H) = weights[0]
    BY DEF Whole
<1>4. /\ acc.tree \subseteq H /\ S \subseteq H /\ aw \subseteq H
      /\ f \notin acc.tree /\ f \notin S /\ f \notin aw
    BY DEF Held, Whole
<1>5. Numbers(tables)
    BY DEF Admits, Numbers
<1>6. WellFormed(f) /\ ~leaf(f) /\ f.ranks \in [0 .. Size -> Nat] /\ f.depth \in 0 .. Size - 2
    BY <1>2, <1>3, ProperFacts
<1>7. /\ \A c \in D : /\ c.ranks \in [0 .. Size -> Nat] /\ Level(c) = f.depth + 1
                      /\ c.couts_somme \in Nat
      /\ \A c, d \in D : c # d => c.ranks[f.depth + 1] # d.ranks[f.depth + 1]
      /\ \A c, d \in D : \A e \in 0 .. f.depth : c.ranks[e] = d.ranks[e]
      /\ IsFiniteSet(D)
  <2>1. \A c \in D : \A e \in 0 .. f.depth : c.ranks[e] = f.ranks[e]
      BY <1>5, <1>6, DecomposedRanks
  <2>2. \A c, d \in D : \A e \in 0 .. f.depth : c.ranks[e] = d.ranks[e]
      BY <2>1
  <2>. QED
      BY <1>5, <1>6, <2>2, DecomposedRanks
<1>8. /\ \A c \in D : WellFormed(c)
      /\ \A s \in Schedule : Completes(s, f) => \E c \in D : Completes(s, c)
    BY <1>6, Decomposed
<1>9. \A c \in D : \A s \in Schedule :
          Completes(s, c) => c.couts_somme <= criteres_calculer(tables, s)
    BY <1>6, ChildCosts
<1>10. \A c \in D : ~leaf(c) /\ c.depth = f.depth + 1
  <2>. SUFFICES ASSUME NEW c \in D PROVE ~leaf(c) /\ c.depth = f.depth + 1
      OBVIOUS
  <2>1. Level(c) = f.depth + 1 /\ f.depth \in Int /\ f.depth # Size - 2
      BY <1>6, <1>7, SizeFacts DEF simple
  <2>2. CASE leaf(c)
      BY <2>1, <2>2, SizeFacts DEF Level
  <2>. QED
      BY <2>1, <2>2 DEF Level
<1>11. \A c \in D : Proper(tables, c)
    BY <1>7, <1>8, <1>9, <1>10 DEF Proper
<1>12. ASSUME NEW c \in D, NEW q \in H \ {f}
       PROVE  /\ \E d \in 0 .. Size : FirstApart(c, q, d) /\ FirstApart(q, c, d)
              /\ c # q
              /\ Deeper(c, q) <=> Deeper(f, q)
              /\ Deeper(q, c) <=> Deeper(q, f)
  <2>1. \E d \in 0 .. Size : FirstApart(f, q, d)
      BY <1>2, <1>3 DEF AllApart
  <2>2. q.ranks \in [0 .. Size -> Nat]
      BY <1>3, ProperFacts
  <2>. QED
      BY <1>5, <1>6, <2>1, <2>2, ChildInPlace
<1>13. D \cap (H \ {f}) = {}
    BY <1>12
<1>. HIDE DEF D, H, K, S
<1>14. a.tree \cap S = {} /\ a.tree \cap aw = {} /\ S \cap aw = {} /\ acc.tree \cap D = {}
  <2>1. acc.tree \cap S = {} /\ acc.tree \cap aw = {} /\ S \cap aw = {}
      BY DEF Whole, S
  <2>2. acc.tree \subseteq H \ {f} /\ S \subseteq H \ {f} /\ aw \subseteq H \ {f}
      BY <1>4
  <2>. QED
      BY <1>1, <1>13, <2>1, <2>2
<1>15. IsFiniteSet(H \ {f}) /\ IsFiniteSet(K)
  <2>1. IsFiniteSet(H \ {f})
      BY <1>3, FS_RemoveElement
  <2>2. IsFiniteSet((H \ {f}) \cup D)
      BY <1>7, <2>1, FS_Union
  <2>. QED
      BY <1>2, <2>1, <2>2
<1>16. \A q \in K : Proper(tables, q)
    BY <1>2, <1>3, <1>11
<1>17. AllApart(K)
  <2>1. ASSUME NEW c \in D, NEW b \in D, c # b
        PROVE  \E d \in 0 .. Size : FirstApart(c, b, d)
    <3>. DEFINE d == f.depth + 1
    <3>1. d \in 0 .. Size /\ d <= Level(c) /\ d <= Level(b)
          /\ \A e \in 0 .. d - 1 : e \in 0 .. f.depth
        BY SMTT(30), <1>6, <1>7, SizeFacts
    <3>2. \A e \in 0 .. d - 1 : c.ranks[e] = b.ranks[e]
        BY <1>7, <3>1
    <3>3. c.ranks[d] # b.ranks[d]
        BY <1>7, <2>1
    <3>. HIDE DEF d
    <3>. QED
        BY <3>1, <3>2, <3>3 DEF FirstApart
  <2>2. ASSUME NEW p \in K, NEW q \in K, p # q
        PROVE  \E d \in 0 .. Size : FirstApart(p, q, d)
    <3>1. CASE p \in D /\ q \in D
        BY <2>1, <2>2, <3>1
    <3>2. CASE p \in D /\ q \in H \ {f}
        BY <1>12, <3>2
    <3>3. CASE p \in H \ {f} /\ q \in D
        BY <1>12, <3>3
    <3>4. CASE p \in H \ {f} /\ q \in H \ {f}
        BY <1>3, <2>2, <3>4 DEF AllApart
    <3>. QED
        BY <1>2, <3>1, <3>2, <3>3, <3>4
  <2>. QED
      BY <2>2 DEF AllApart
<1>18. InDepth(a.tree, S)
  <2>1. /\ \A q \in S : Reach(q, S) = Reach(q, R)
        /\ \A q \in acc.tree : Reach(q, S) = Reach(q, R)
        /\ \A c \in D : Reach(c, S) = Reach(f, R)
        /\ Reach(f, R) \in Int
    <3>1. \A c \in D : c \notin S
        BY <1>4, <1>13
    <3>2. f \in R /\ (\A q \in acc.tree : q \notin S /\ q \notin R)
        BY DEF Whole, S
    <3>. QED
        BY <1>6, <1>10, <3>1, <3>2 DEF Reach, S
  <2>2. \A p, q \in acc.tree \cup R : Deeper(p, q) => Reach(p, R) >= Reach(q, R)
      BY DEF Whole, InDepth
  <2>3. acc.tree \subseteq H \ {f} /\ S \subseteq H \ {f} /\ S \subseteq R
      BY <1>4 DEF S
  <2>. SUFFICES ASSUME NEW p \in a.tree \cup S, NEW q \in a.tree \cup S, Deeper(p, q)
                PROVE  Reach(p, S) >= Reach(q, S)
      BY DEF InDepth
  <2>4. CASE p \in D /\ q \in D
      BY <2>1, <2>4
  <2>5. CASE p \in D /\ q \in acc.tree \cup S
    <3>1. Deeper(f, q)
        BY <1>12, <2>3, <2>5
    <3>2. Reach(f, R) >= Reach(q, R)
        BY <2>2, <2>3, <2>5, <3>1
    <3>. QED
        BY <2>1, <2>5, <3>2
  <2>6. CASE p \in acc.tree \cup S /\ q \in D
    <3>1. Deeper(p, f)
        BY <1>12, <2>3, <2>6
    <3>2. Reach(p, R) >= Reach(f, R)
        BY <2>2, <2>3, <2>6, <3>1
    <3>. QED
        BY <2>1, <2>6, <3>2
  <2>7. CASE p \in acc.tree \cup S /\ q \in acc.tree \cup S
    <3>1. Reach(p, R) >= Reach(q, R)
        BY <2>2, <2>3, <2>7
    <3>. QED
        BY <2>1, <2>7, <3>1
  <2>. QED
      BY <1>1, <2>4, <2>5, <2>6, <2>7
<1>19. \A s \in Schedule :
          (\E q \in K : Completes(s, q)) \/ a.cout <= criteres_calculer(tables, s)
    BY <1>1, <1>2, <1>3, <1>8
<1>20. Weight(K) = Weight(H)
  <2>1. (\A q \in H : q.depth \in 0 .. Size) /\ (\A q \in K : q.depth \in 0 .. Size)
      BY <1>3, <1>16, ProperFacts
  <2>2. Weight(H) = Weight(H \ {f}) + weights[f.depth] /\ Weight(H \ {f}) \in Int
      BY <1>2, <1>3, <2>1, WeightAway
  <2>3. Weight(D) = weights[f.depth]
      BY <1>5, <1>6, WeightOfChildren DEF D
  <2>4. Weight((H \ {f}) \cup D) = Weight(H \ {f}) + Weight(D)
      BY <1>2, <1>7, <1>13, <1>15, <2>1, WeightBoth
  <2>. QED
      BY <1>2, <2>2, <2>3, <2>4
<1>21. Whole(tables, cpu, a, S, aw)
    BY <1>1, <1>3, <1>14, <1>15, <1>16, <1>17, <1>18, <1>19, <1>20 DEF Whole, K
<1>. QED
    BY <1>7, <1>11, <1>14, <1>21 DEF D, S

-----------------------------------------------------------------------------
(* The fold over the children of the end that is kept.                     *)

(* Induction along a fold over a set. *)
LEMMA EveryPicked ==
    ASSUME NEW S, IsFiniteSet(S), NEW pick, Picks(pick, S), NEW U, {} \in U,
           \A s \in SUBSET S : s # {} /\ s \ {pick[s]} \in U => s \in U
    PROVE  S \in U
<1>. DEFINE n == Cardinality(S)
            N == {m \in 0 .. n : \A s \in SUBSET S : Cardinality(s) = m => s \in U}
<1>1. \A s \in SUBSET S : IsFiniteSet(s) /\ Cardinality(s) \in 0 .. n
                          /\ (Cardinality(s) = 0 <=> s = {})
    BY FS_Subset, FS_CardinalityType, FS_EmptySet
<1>2. n \in Nat
    BY FS_CardinalityType
<1>3. 0 \in N
    BY <1>1, <1>2
<1>4. ASSUME NEW m \in 1 .. n, m - 1 \in N PROVE m \in N
  <2>. SUFFICES ASSUME NEW s \in SUBSET S, Cardinality(s) = m PROVE s \in U
      OBVIOUS
  <2>1. s # {} /\ pick[s] \in s
      BY <1>1 DEF Picks
  <2>2. Cardinality(s \ {pick[s]}) = m - 1 /\ s \ {pick[s]} \in SUBSET S
      BY <1>1, <2>1, FS_RemoveElement
  <2>3. s \ {pick[s]} \in U
      BY <1>4, <2>2
  <2>. QED
      BY <2>1, <2>3
<1>. HIDE DEF N, n
<1>5. n \in N
    BY <1>2, <1>3, <1>4, UpTo
<1>. QED
    BY <1>5 DEF N, n

Accounts(X) == [wsltns : SUBSET Nat, cout : Nat, tree : SUBSET X, explored : Nat]

LEMMA HandledType ==
    ASSUME NEW X, NEW acc \in Accounts(X), NEW e,
           NEW p \in X, p.couts_somme \in Nat, p.depth \in 0 .. Size
    PROVE  /\ Handled(acc, p, e) \in Accounts(X)
           /\ leaf(p) =>
                /\ Handled(acc, p, e).tree = acc.tree
                /\ Handled(acc, p, e).explored = acc.explored + 1
                /\ IF \A i \in acc.wsltns : ~(i <= p.couts_somme)
                   THEN /\ Handled(acc, p, e).wsltns = {p.couts_somme}
                        /\ Handled(acc, p, e).cout =
                              IF acc.cout > p.couts_somme THEN p.couts_somme ELSE acc.cout
                   ELSE /\ Handled(acc, p, e).wsltns = acc.wsltns
                        /\ Handled(acc, p, e).cout = acc.cout
           /\ ~leaf(p) =>
                /\ Handled(acc, p, e).wsltns = acc.wsltns
                /\ Handled(acc, p, e).cout = acc.cout
                /\ \/ /\ Handled(acc, p, e).tree = acc.tree \cup {p}
                      /\ Handled(acc, p, e).explored = acc.explored
                   \/ /\ Handled(acc, p, e).tree = acc.tree
                      /\ Handled(acc, p, e).explored = acc.explored + weights[p.depth]
                      /\ \/ ~(p.couts_somme < acc.cout)
                         \/ ~(\A i \in acc.wsltns : ~(i <= p.couts_somme))
<1>. DEFINE better == \A i \in acc.wsltns : ~(i <= p.couts_somme)
            keep == IF e = BEGIN_ORDER THEN p.couts_somme < acc.cout ELSE better
            b == Handled(acc, p, e)
            w == weights[p.depth]
            cost == p.couts_somme
<1>1. /\ acc = [wsltns |-> acc.wsltns, cout |-> acc.cout, tree |-> acc.tree,
                explored |-> acc.explored]
      /\ acc.wsltns \in SUBSET Nat /\ acc.cout \in Nat /\ acc.tree \in SUBSET X
      /\ acc.explored \in Nat
    BY DEF Accounts
<1>2. w \in Nat /\ (leaf(p) => w = 1)
    BY WeightFacts DEF leaf
<1>3. b = IF leaf(p)
          THEN [acc EXCEPT !.wsltns = IF better THEN {cost} ELSE @,
                           !.cout = IF better /\ @ > cost THEN cost ELSE @,
                           !.explored = @ + w]
          ELSE IF keep THEN [acc EXCEPT !.tree = @ \cup {p}]
          ELSE [acc EXCEPT !.explored = @ + w]
    BY DEF Handled
<1>4. ~keep => ~(cost < acc.cout) \/ ~better
    OBVIOUS
<1>5. cost \in Nat
    OBVIOUS
<1>. HIDE DEF b, w, better, keep, cost
<1>6. CASE leaf(p) /\ better
  <2>1. b = [wsltns |-> {cost}, cout |-> IF acc.cout > cost THEN cost ELSE acc.cout,
             tree |-> acc.tree, explored |-> acc.explored + w]
      BY <1>1, <1>3, <1>6
  <2>. QED
      BY <1>1, <1>2, <1>5, <1>6, <2>1 DEF Accounts, b, better, cost
<1>7. CASE leaf(p) /\ ~better
  <2>1. b = [wsltns |-> acc.wsltns, cout |-> acc.cout,
             tree |-> acc.tree, explored |-> acc.explored + w]
      BY <1>1, <1>3, <1>7
  <2>. QED
      BY <1>1, <1>2, <1>5, <1>7, <2>1 DEF Accounts, b, better, cost
<1>8. CASE ~leaf(p) /\ keep
  <2>1. b = [wsltns |-> acc.wsltns, cout |-> acc.cout,
             tree |-> acc.tree \cup {p}, explored |-> acc.explored]
      BY <1>1, <1>3, <1>8
  <2>. QED
      BY <1>1, <1>8, <2>1 DEF Accounts, b
<1>9. CASE ~leaf(p) /\ ~keep
  <2>1. b = [wsltns |-> acc.wsltns, cout |-> acc.cout,
             tree |-> acc.tree, explored |-> acc.explored + w]
      BY <1>1, <1>3, <1>9
  <2>2. ~(p.couts_somme < acc.cout) \/ ~(\A i \in acc.wsltns : ~(i <= p.couts_somme))
      BY <1>4, <1>9 DEF better, cost
  <2>. QED
      BY <1>1, <1>2, <1>9, <2>1, <2>2 DEF Accounts, b, w
<1>. QED
    BY <1>6, <1>7, <1>8, <1>9

AllHandled(s, base, e) == FoldSet(LAMBDA p, a : Handled(a, p, e), base, s)
HandlesAll(g, s, base, e) ==
    g = [r \in SUBSET s |-> IF r = {} THEN base
                            ELSE Handled(g[r \ {Chosen(r)}], Chosen(r), e)]

LEMMA HandlesIs ==
    ASSUME NEW s, NEW base, NEW e
    PROVE  AllHandled(s, base, e)
              = (CHOOSE g : HandlesAll(g, s, base, e))[s]
BY DEF AllHandled, FoldSet, MapThenFoldSet, HandlesAll, Chosen

HandledBy(g, X, s, base, e) ==
    /\ HandlesAll(g, s, base, e) /\ g \in [SUBSET s -> Accounts(X)]
    /\ g[s] = AllHandled(s, base, e)

Costed(s, X) ==
    /\ IsFiniteSet(s) /\ s \subseteq X
    /\ \A p \in s : p.couts_somme \in Nat /\ p.depth \in 0 .. Size

LEMMA HandlesExist ==
    ASSUME NEW X, NEW base \in Accounts(X), NEW e, NEW s, Costed(s, X)
    PROVE  \E g : HandledBy(g, X, s, base, e)
<1>. DEFINE T == Accounts(X)
            pick == [r \in SUBSET s |-> Chosen(r)]
            turn == [p \in s |-> [a \in T |-> Handled(a, p, e)]]
<1>0. /\ IsFiniteSet(s) /\ s \subseteq X
      /\ \A p \in s : p.couts_somme \in Nat /\ p.depth \in 0 .. Size
    BY DEF Costed
<1>1. Picks(pick, s)
    BY ChosenIn DEF Picks
<1>2. Turns(turn, s, T)
  <2>1. ASSUME NEW p \in s, NEW a \in T PROVE Handled(a, p, e) \in T
      BY <1>0, <2>1, HandledType
  <2>. HIDE DEF T
  <2>. QED
      BY <2>1 DEF Turns
<1>3. PICK f : FoldOf(f, s, T, base, pick, turn)
  <2>. HIDE DEF T, pick, turn
  <2>. QED
      BY <1>0, <1>1, <1>2, FoldOverSets DEF T
<1>4. f \in [SUBSET s -> T] /\ f[{}] = base
    BY <1>3 DEF FoldOf
<1>5. ASSUME NEW r \in SUBSET s, r # {}
      PROVE  f[r] = Handled(f[r \ {Chosen(r)}], Chosen(r), e)
  <2>1. pick[r] = Chosen(r) /\ Chosen(r) \in s /\ f[r \ {Chosen(r)}] \in T
      BY <1>4, <1>5, ChosenIn
  <2>2. turn[Chosen(r)][f[r \ {Chosen(r)}]] = Handled(f[r \ {Chosen(r)}], Chosen(r), e)
      BY <2>1
  <2>. HIDE DEF pick, turn, T
  <2>3. f[r] = turn[Chosen(r)][f[r \ {Chosen(r)}]]
      BY <1>3, <1>5, <2>1 DEF FoldOf
  <2>. QED
      BY <2>2, <2>3
<1>6. HandlesAll(f, s, base, e)
    BY <1>4, <1>5 DEF HandlesAll
<1>. DEFINE h == CHOOSE g : HandlesAll(g, s, base, e)
<1>7. HandlesAll(h, s, base, e)
    BY <1>6
<1>8. h[s] = AllHandled(s, base, e)
    BY HandlesIs
<1>. HIDE DEF h, T
<1>9. /\ h = [r \in SUBSET s |-> h[r]]
      /\ \A r \in SUBSET s : h[r] = IF r = {} THEN base
                                    ELSE Handled(h[r \ {Chosen(r)}], Chosen(r), e)
    BY <1>7 DEF HandlesAll
<1>10. \A r \in SUBSET s : h[r] \in T
  <2>. SUFFICES ASSUME NEW q \in SUBSET s PROVE h[q] \in T
      OBVIOUS
  <2>. DEFINE U == {r \in SUBSET q : h[r] \in T}
              pk == [r \in SUBSET q |-> Chosen(r)]
  <2>1. {} \in U
      BY <1>9 DEF T
  <2>2. Picks(pk, q)
      BY ChosenIn DEF Picks
  <2>3. ASSUME NEW r \in SUBSET q, r # {}, r \ {pk[r]} \in U PROVE r \in U
    <3>1. pk[r] = Chosen(r) /\ Chosen(r) \in s
        BY <2>3, ChosenIn
    <3>2. h[r] = Handled(h[r \ {Chosen(r)}], Chosen(r), e)
        BY <1>9, <2>3
    <3>3. h[r \ {Chosen(r)}] \in T
        BY <2>3, <3>1
    <3>4. h[r] \in T
        BY <1>0, <3>1, <3>2, <3>3, HandledType DEF T
    <3>. QED
        BY <3>4
  <2>4. IsFiniteSet(q)
      BY <1>0, FS_Subset
  <2>. HIDE DEF U, pk
  <2>5. q \in U
      BY <2>1, <2>2, <2>3, <2>4, EveryPicked
  <2>. QED
      BY <2>5 DEF U
<1>11. h \in [SUBSET s -> T]
    BY <1>9, <1>10
<1>. QED
    BY <1>7, <1>8, <1>11 DEF T, HandledBy

(* Open children are pushed, or counted as nothing better is below them. *)
LEMMA OpenHandled ==
    ASSUME NEW t, \A s \in Schedule : criteres_calculer(t, s) \in Nat,
           NEW cpu, NEW X, NEW base \in Accounts(X), NEW R, NEW aw, NEW e,
           NEW s, s \subseteq X, IsFiniteSet(s), base.tree \cap s = {},
           \A p \in s : Proper(t, p),
           NEW full, full.tree = base.tree \cup s, full.explored = base.explored,
           full.wsltns = base.wsltns, full.cout = base.cout,
           Whole(t, cpu, full, R, aw)
    PROVE  /\ AllHandled(s, base, e) \in Accounts(X)
           /\ Whole(t, cpu, AllHandled(s, base, e), R, aw)
<1>1. \A p \in s : p.couts_somme \in Nat /\ p.depth \in 0 .. Size /\ ~leaf(p)
    BY ProperFacts DEF Proper
<1>2. PICK g : /\ HandlesAll(g, s, base, e) /\ g \in [SUBSET s -> Accounts(X)]
               /\ g[s] = AllHandled(s, base, e)
  <2>1. Costed(s, X)
      BY <1>1 DEF Costed
  <2>2. \E g : HandledBy(g, X, s, base, e)
      BY <2>1, HandlesExist
  <2>. QED
      BY <2>2 DEF HandledBy
<1>. DEFINE V(r) == [wsltns |-> g[r].wsltns, cout |-> g[r].cout,
                     tree |-> g[r].tree \cup (s \ r), explored |-> g[r].explored]
            pick == [r \in SUBSET s |-> Chosen(r)]
            U == {r \in SUBSET s : /\ g[r].tree \subseteq base.tree \cup r
                                   /\ Whole(t, cpu, V(r), R, aw)}
<1>3. /\ g[{}] = base
      /\ \A r \in SUBSET s : r # {} => g[r] = Handled(g[r \ {Chosen(r)}], Chosen(r), e)
    BY <1>2 DEF HandlesAll
<1>4. base = [wsltns |-> base.wsltns, cout |-> base.cout, tree |-> base.tree,
              explored |-> base.explored]
    BY DEF Accounts
<1>5. {} \in U
  <2>1. /\ V({}).tree = full.tree /\ V({}).wsltns = full.wsltns /\ V({}).cout = full.cout
        /\ V({}).explored = full.explored
      BY <1>3
  <2>2. Costs(full.wsltns, full.cout) /\ full.cout <= full.cout
      BY DEF Whole, Costs
  <2>3. Whole(t, cpu, V({}), R, aw)
    <3>. HIDE DEF V
    <3>. QED
        BY <2>1, <2>2, Cheaper
  <2>. QED
      BY <1>3, <2>3
<1>6. ASSUME NEW r \in SUBSET s, r # {}, r \ {pick[r]} \in U PROVE r \in U
  <2>. DEFINE p == Chosen(r)
              q == r \ {p}
              a == g[q]
              b == g[r]
  <2>1. pick[r] = p /\ p \in r /\ p \in s /\ p \in X
      BY <1>6, ChosenIn
  <2>2. a.tree \subseteq base.tree \cup q /\ Whole(t, cpu, V(q), R, aw) /\ q \in SUBSET s
      BY <1>6, <2>1
  <2>3. a \in Accounts(X) /\ b = Handled(a, p, e)
      BY <1>2, <1>3, <1>6, <2>2
  <2>4. /\ b.wsltns = a.wsltns /\ b.cout = a.cout
        /\ \/ b.tree = a.tree \cup {p} /\ b.explored = a.explored
           \/ /\ b.tree = a.tree /\ b.explored = a.explored + weights[p.depth]
              /\ \/ ~(p.couts_somme < a.cout)
                 \/ ~(\A i \in a.wsltns : ~(i <= p.couts_somme))
    <3>1. p.couts_somme \in Nat /\ p.depth \in 0 .. Size /\ ~leaf(p) /\ p \in X
        BY <1>1, <2>1
    <3>. HIDE DEF p, q, a, b
    <3>. QED
        BY <2>3, <3>1, HandledType
  <2>5. p \notin a.tree /\ p \notin q
      BY <2>1, <2>2
  <2>6. s \ q = (s \ r) \cup {p} /\ p \notin s \ r
      BY <2>1
  <2>7. V(q).tree = a.tree \cup (s \ q) /\ V(q).wsltns = a.wsltns /\ V(q).cout = a.cout
        /\ V(q).explored = a.explored
      OBVIOUS
  <2>8. V(r).tree = b.tree \cup (s \ r) /\ V(r).wsltns = b.wsltns /\ V(r).cout = b.cout
        /\ V(r).explored = b.explored
      OBVIOUS
  <2>9. Costs(a.wsltns, a.cout) /\ V(q).tree \cap R = {}
      BY <2>2, <2>7 DEF Whole
  <2>. HIDE DEF p, q, a, b
  <2>10. CASE b.tree = a.tree \cup {p} /\ b.explored = a.explored
    <3>1. b.tree \cup (s \ r) = a.tree \cup (s \ q)
        BY <2>6, <2>10
    <3>2. V(r) = V(q)
        BY <2>4, <2>10, <3>1 DEF a, b
    <3>3. b.tree \subseteq base.tree \cup r
        BY <2>1, <2>2, <2>10 DEF q
    <3>. QED
        BY <2>2, <3>2, <3>3 DEF b
  <2>11. CASE /\ b.tree = a.tree /\ b.explored = a.explored + weights[p.depth]
              /\ \/ ~(p.couts_somme < a.cout)
                 \/ ~(\A i \in a.wsltns : ~(i <= p.couts_somme))
    <3>1. a.cout <= p.couts_somme
      <4>1. a.cout \in Nat /\ p.couts_somme \in Nat /\ (\A i \in a.wsltns : i = a.cout)
          BY <1>1, <2>1, <2>9 DEF Costs
      <4>. QED
          BY <2>11, <4>1
    <3>2. \A x \in Schedule : Completes(x, p) => a.cout <= criteres_calculer(t, x)
      <4>. SUFFICES ASSUME NEW x \in Schedule, Completes(x, p)
                    PROVE  a.cout <= criteres_calculer(t, x)
          OBVIOUS
      <4>1. p.couts_somme <= criteres_calculer(t, x) /\ p.couts_somme \in Nat
            /\ criteres_calculer(t, x) \in Nat /\ a.cout \in Nat
          BY <2>1, <2>9 DEF Proper, Costs
      <4>. QED
          BY <3>1, <4>1
    <3>3. p \in V(q).tree /\ b.tree \cup (s \ r) = V(q).tree \ {p} /\ p \notin R
        BY <2>5, <2>6, <2>7, <2>9, <2>11
    <3>4. R \ {p} = R /\ V(r).tree = V(q).tree \ {p}
          /\ V(r).explored = V(q).explored + weights[p.depth]
          /\ Costs(V(r).wsltns, V(r).cout) /\ V(r).cout <= V(q).cout
          /\ \A x \in Schedule : Completes(x, p) => V(r).cout <= criteres_calculer(t, x)
      <4>1. a.cout \in Nat
          BY <2>9 DEF Costs
      <4>. HIDE DEF V
      <4>. QED
          BY <2>4, <2>7, <2>8, <2>9, <2>11, <3>2, <3>3, <4>1
    <3>5. Whole(t, cpu, V(r), R, aw)
      <4>. HIDE DEF V
      <4>1. p \in V(q).tree \cup R
          BY <3>3
      <4>2. Whole(t, cpu, V(r), R \ {p}, aw)
          BY <2>2, <3>4, <4>1, LessOne
      <4>. QED
          BY <3>4, <4>2
    <3>6. b.tree \subseteq base.tree \cup r
        BY <2>2, <2>11 DEF q
    <3>. QED
        BY <3>5, <3>6 DEF b
  <2>. QED
      BY <2>4, <2>10, <2>11
<1>7. s \in U
  <2>1. Picks(pick, s)
      BY ChosenIn DEF Picks
  <2>. HIDE DEF U, pick
  <2>. QED
      BY <1>5, <1>6, <2>1, EveryPicked
<1>8. V(s) = g[s]
  <2>1. g[s] \in Accounts(X)
      BY <1>2
  <2>2. g[s] = [wsltns |-> g[s].wsltns, cout |-> g[s].cout, tree |-> g[s].tree,
                explored |-> g[s].explored]
      BY <2>1 DEF Accounts
  <2>. QED
      BY <2>2
<1>9. AllHandled(s, base, e) \in Accounts(X)
    BY <1>2
<1>10. Whole(t, cpu, AllHandled(s, base, e), R, aw)
    BY <1>2, <1>7, <1>8
<1>. QED
    BY <1>9, <1>10

(* Schedules are inserted, and counted one each. *)
LEMMA LeavesHandled ==
    ASSUME NEW X, NEW base \in Accounts(X), NEW e, Costs(base.wsltns, base.cout),
           NEW s, IsFiniteSet(s), s \subseteq X,
           \A p \in s : leaf(p) /\ p.couts_somme \in Nat /\ p.couts_somme <= costv
    PROVE  LET last == AllHandled(s, base, e)
           IN  /\ last \in Accounts(X)
               /\ last.tree = base.tree
               /\ last.explored = base.explored + Cardinality(s)
               /\ Costs(last.wsltns, last.cout)
               /\ last.cout <= base.cout
               /\ \A p \in s : last.cout <= p.couts_somme
<1>1. Costed(s, X)
    BY SizeFacts DEF Costed, leaf
<1>2. PICK g : HandledBy(g, X, s, base, e)
    BY <1>1, HandlesExist
<1>3. /\ g \in [SUBSET s -> Accounts(X)] /\ g[s] = AllHandled(s, base, e)
      /\ g[{}] = base
      /\ \A r \in SUBSET s : r # {} => g[r] = Handled(g[r \ {Chosen(r)}], Chosen(r), e)
    BY <1>2 DEF HandledBy, HandlesAll
<1>. DEFINE Done3(r) ==
               /\ g[r].tree = base.tree
               /\ g[r].explored = base.explored + Cardinality(r)
               /\ Costs(g[r].wsltns, g[r].cout)
               /\ g[r].cout <= base.cout
               /\ \A p \in r : g[r].cout <= p.couts_somme
            pick == [r \in SUBSET s |-> Chosen(r)]
            U == {r \in SUBSET s : Done3(r)}
<1>4. base.explored \in Nat /\ base.cout \in Nat
    BY DEF Accounts
<1>5. {} \in U
    BY <1>3, <1>4, FS_EmptySet
<1>6. ASSUME NEW r \in SUBSET s, r # {}, r \ {pick[r]} \in U PROVE r \in U
  <2>. DEFINE p == Chosen(r)
              q == r \ {p}
              a == g[q]
              b == g[r]
              c == p.couts_somme
  <2>1. pick[r] = p /\ p \in r /\ p \in s /\ p \in X /\ q \in SUBSET s
      BY <1>6, ChosenIn
  <2>2. Done3(q)
      BY <1>6, <2>1
  <2>3. a \in Accounts(X) /\ b = Handled(a, p, e)
      BY <1>3, <1>6, <2>1
  <2>4. /\ leaf(p) /\ c \in Nat /\ c <= costv /\ p.depth \in 0 .. Size
      BY <2>1, SizeFacts DEF leaf
  <2>5. /\ b.tree = a.tree /\ b.explored = a.explored + 1
        /\ IF \A i \in a.wsltns : ~(i <= c)
           THEN b.wsltns = {c} /\ b.cout = IF a.cout > c THEN c ELSE a.cout
           ELSE b.wsltns = a.wsltns /\ b.cout = a.cout
    <3>. HIDE DEF p, q, a, b
    <3>. QED
        BY <2>1, <2>3, <2>4, HandledType DEF c
  <2>6. Cardinality(r) = Cardinality(q) + 1 /\ Cardinality(q) \in Nat
    <3>1. IsFiniteSet(r)
        BY FS_Subset
    <3>2. Cardinality(q) = Cardinality(r) - 1 /\ IsFiniteSet(q)
        BY <2>1, <3>1, FS_RemoveElement
    <3>3. Cardinality(r) \in Nat /\ Cardinality(q) \in Nat
        BY <3>1, <3>2, FS_CardinalityType
    <3>. HIDE DEF p, q
    <3>. QED
        BY <3>2, <3>3
  <2>7. /\ a.tree = base.tree /\ a.explored = base.explored + Cardinality(q)
        /\ Costs(a.wsltns, a.cout) /\ a.cout <= base.cout
        /\ \A x \in q : a.cout <= x.couts_somme
      BY <2>2
  <2>8. a.cout \in Nat /\ \A x \in q : x.couts_somme \in Nat
      BY <2>3 DEF Accounts
  <2>9. r = q \cup {p}
      BY <2>1
  <2>. HIDE DEF p, q, a, b, c, Done3
  <2>10. b.tree = base.tree /\ b.explored = base.explored + Cardinality(r)
      BY <1>4, <2>5, <2>6, <2>7
  <2>11. Costs(b.wsltns, b.cout) /\ b.cout <= a.cout /\ b.cout <= c /\ b.cout \in Nat
    <3>1. CASE \A i \in a.wsltns : ~(i <= c)
      <4>1. Costs({c}, IF a.cout > c THEN c ELSE a.cout)
          BY <2>4, <2>7, <3>1, OneCost
      <4>2. b.wsltns = {c} /\ b.cout = IF a.cout > c THEN c ELSE a.cout
          BY <2>5, <3>1
      <4>. QED
          BY <2>4, <2>8, <4>1, <4>2
    <3>2. CASE ~(\A i \in a.wsltns : ~(i <= c))
      <4>1. b.wsltns = a.wsltns /\ b.cout = a.cout
          BY <2>5, <3>2
      <4>2. a.cout <= c
          BY <2>4, <2>7, <3>2, OneCost
      <4>. QED
          BY <2>7, <2>8, <4>1, <4>2
    <3>. QED
        BY <3>1, <3>2
  <2>12. b.cout <= base.cout /\ \A x \in r : b.cout <= x.couts_somme
    <3>1. b.cout <= base.cout
        BY <1>4, <2>7, <2>8, <2>11
    <3>2. \A x \in q : b.cout <= x.couts_somme
        BY <2>7, <2>8, <2>11
    <3>. QED
        BY <2>9, <2>11, <3>1, <3>2 DEF c
  <2>. QED
      BY <2>10, <2>11, <2>12 DEF Done3, b
<1>7. s \in U
  <2>1. Picks(pick, s)
      BY ChosenIn DEF Picks
  <2>. HIDE DEF U, pick
  <2>. QED
      BY <1>5, <1>6, <2>1, EveryPicked
<1>. QED
    BY <1>3, <1>7

-----------------------------------------------------------------------------
(* A family of children, as decompose_on_cpu writes it.                    *)
Count(f) == Size - f.depth
Wide(f) == IF simple(f) THEN 2 ELSE 2 * Count(f)
Entry(f, i) ==
    IF i <= Count(f) THEN Child(f, f.limite1 + i, BEGIN_ORDER)
                     ELSE Child(f, f.limite1 + (i - Count(f)), END_ORDER)

(* With its bounds. *)
PricedEntry(f, i) == [Entry(f, i) EXCEPT !.problem.couts_somme = bornes_calculer(tables, Entry(f, i).problem)]
Family(f) == [i \in 1 .. Wide(f) |-> PricedEntry(f, i)]
Kids(f) == Ranked(Problems(Family(f), Kept(Family(f))), 0)

(* Which child every place of a family holds. *)
LEMMA EntryFacts ==
    ASSUME NEW t, NEW f, Proper(t, f), NEW i \in 1 .. Wide(f)
    PROVE  \E e \in Ends(f), j \in Free(f) :
              /\ Entry(f, i) = Child(f, j, e)
              /\ Entry(f, i).problem = create_raw_problem3(f, j, e)
              /\ Entry(f, i).begin_end = e
              /\ PricedEntry(f, i).problem = Evaluated(create_raw_problem3(f, j, e))
              /\ PricedEntry(f, i).begin_end = e
              /\ i <= Count(f) => e = BEGIN_ORDER /\ j = f.limite1 + i
              /\ ~(i <= Count(f)) => e = END_ORDER /\ j = f.limite1 + (i - Count(f))
<1>. DEFINE e == IF i <= Count(f) THEN BEGIN_ORDER ELSE END_ORDER
            j == IF i <= Count(f) THEN f.limite1 + i ELSE f.limite1 + (i - Count(f))
<1>1. /\ f.limite1 \in Int /\ f.limite2 \in Int /\ f.depth \in 0 .. Size - 2
      /\ f.limite2 - f.limite1 - 1 = Count(f) /\ Count(f) \in Nat
  <2>1. f.limite1 \in -1 .. Size - 1 /\ f.limite2 \in 0 .. Size
        /\ f.limite2 - f.limite1 - 1 = Size - f.depth /\ f.depth \in 0 .. Size - 2
      BY ProperFacts DEF WellFormed
  <2>. QED
      BY <2>1, SizeFacts DEF Count
<1>2. i \in Int /\ 1 <= i /\ i <= 2 * Count(f)
      /\ (simple(f) => i <= Count(f))
  <2>1. CASE simple(f)
      BY <1>1, <2>1, SizeFacts DEF Wide, simple, Count
  <2>2. CASE ~simple(f)
      BY <1>1, <2>2 DEF Wide
  <2>. QED
      BY <2>1, <2>2
<1>3. j \in Free(f)
    BY <1>1, <1>2 DEF Free
<1>4. e \in Ends(f)
    BY <1>2 DEF Ends
<1>5. Entry(f, i) = Child(f, j, e)
    BY DEF Entry
<1>. HIDE DEF e, j
<1>6. Entry(f, i) = [problem |-> create_raw_problem3(f, j, e), begin_end |-> e]
    BY <1>5 DEF Child
<1>7. /\ PricedEntry(f, i).problem = Evaluated(create_raw_problem3(f, j, e))
      /\ PricedEntry(f, i).begin_end = e
    BY <1>6 DEF PricedEntry, Evaluated
<1>. QED
    BY <1>3, <1>4, <1>5, <1>6, <1>7 DEF e, j

(* Each end of a family is the siblings at that end. *)
LEMMA FamilyEnds ==
    ASSUME NEW t, NEW f, Proper(t, f)
    PROVE  /\ Problems(Family(f), BEGIN_ORDER) = Siblings(f, BEGIN_ORDER)
           /\ Problems(Family(f), END_ORDER) = IF simple(f) THEN {} ELSE Siblings(f, END_ORDER)
<1>1. /\ f.limite1 \in Int /\ f.limite2 \in Int /\ f.depth \in 0 .. Size - 2
      /\ f.limite2 - f.limite1 - 1 = Count(f) /\ Count(f) \in Nat
  <2>1. f.limite1 \in -1 .. Size - 1 /\ f.limite2 \in 0 .. Size
        /\ f.limite2 - f.limite1 - 1 = Size - f.depth /\ f.depth \in 0 .. Size - 2
      BY ProperFacts DEF WellFormed
  <2>. QED
      BY <2>1, SizeFacts DEF Count
<1>2. Wide(f) = IF simple(f) THEN Count(f) ELSE 2 * Count(f)
    BY <1>1, SizeFacts DEF Wide, simple, Count
<1>3. BEGIN_ORDER # END_ORDER
    BY DEF BEGIN_ORDER, END_ORDER
<1>. DEFINE V(e, j) == Evaluated(create_raw_problem3(f, j, e))
            fam == Family(f)
            n == Count(f)
<1>4. /\ DOMAIN fam = 1 .. Wide(f)
      /\ \A i \in 1 .. Wide(f) :
            /\ i <= n => fam[i].begin_end = BEGIN_ORDER /\ fam[i].problem = V(BEGIN_ORDER, f.limite1 + i)
            /\ ~(i <= n) => fam[i].begin_end = END_ORDER /\ fam[i].problem = V(END_ORDER, f.limite1 + (i - n))
  <2>1. \A i \in 1 .. Wide(f) : fam[i] = PricedEntry(f, i)
      BY DEF Family
  <2>2. \A i \in 1 .. Wide(f) :
            /\ i <= n => PricedEntry(f, i).begin_end = BEGIN_ORDER
                         /\ PricedEntry(f, i).problem = V(BEGIN_ORDER, f.limite1 + i)
            /\ ~(i <= n) => PricedEntry(f, i).begin_end = END_ORDER
                            /\ PricedEntry(f, i).problem = V(END_ORDER, f.limite1 + (i - n))
      BY EntryFacts
  <2>. QED
      BY <2>1, <2>2 DEF Family
<1>. HIDE DEF fam, n, V
<1>5. n \in Nat /\ Wide(f) \in Nat /\ n <= Wide(f) /\ (simple(f) => Wide(f) = n)
      /\ (~simple(f) => Wide(f) = 2 * n)
    BY <1>1, <1>2 DEF n
<1>6. Problems(fam, BEGIN_ORDER) = {V(BEGIN_ORDER, j) : j \in Free(f)}
  <2>1. ASSUME NEW i \in DOMAIN fam, fam[i].begin_end = BEGIN_ORDER
        PROVE  \E j \in Free(f) : fam[i].problem = V(BEGIN_ORDER, j)
    <3>1. i \in 1 .. n
        BY <1>3, <1>4, <1>5, <2>1
    <3>2. f.limite1 + i \in Free(f)
        BY <1>1, <3>1 DEF Free, n
    <3>. QED
        BY <1>4, <2>1, <3>1, <3>2
  <2>2. ASSUME NEW j \in Free(f)
        PROVE  \E i \in DOMAIN fam : fam[i].begin_end = BEGIN_ORDER /\ V(BEGIN_ORDER, j) = fam[i].problem
    <3>1. j - f.limite1 \in 1 .. n /\ f.limite1 + (j - f.limite1) = j
        BY <1>1, <2>2 DEF Free, n
    <3>2. j - f.limite1 \in 1 .. Wide(f)
        BY <1>5, <3>1
    <3>. QED
        BY <1>4, <3>1, <3>2
  <2>. QED
      BY <2>1, <2>2 DEF Problems
<1>7. Problems(fam, END_ORDER) = IF simple(f) THEN {} ELSE {V(END_ORDER, j) : j \in Free(f)}
  <2>1. CASE simple(f)
    <3>1. \A i \in DOMAIN fam : fam[i].begin_end # END_ORDER
        BY <1>3, <1>4, <1>5, <2>1
    <3>. QED
        BY <2>1, <3>1 DEF Problems
  <2>2. CASE ~simple(f)
    <3>1. ASSUME NEW i \in DOMAIN fam, fam[i].begin_end = END_ORDER
          PROVE  \E j \in Free(f) : fam[i].problem = V(END_ORDER, j)
      <4>1. i \in 1 .. 2 * n /\ ~(i <= n)
          BY <1>3, <1>4, <1>5, <2>2, <3>1
      <4>2. f.limite1 + (i - n) \in Free(f)
          BY <1>1, <4>1 DEF Free, n
      <4>. QED
          BY <1>4, <3>1, <4>1, <4>2
    <3>2. ASSUME NEW j \in Free(f)
          PROVE  \E i \in DOMAIN fam : fam[i].begin_end = END_ORDER /\ V(END_ORDER, j) = fam[i].problem
      <4>. DEFINE i == j - f.limite1 + n
      <4>1. i \in 1 .. 2 * n /\ ~(i <= n) /\ f.limite1 + (i - n) = j
          BY <1>1, <3>2 DEF Free, n
      <4>2. i \in 1 .. Wide(f)
          BY <1>5, <2>2, <4>1
      <4>. HIDE DEF i
      <4>. QED
          BY <1>4, <4>1, <4>2
    <3>. QED
        BY <2>2, <3>1, <3>2 DEF Problems
  <2>. QED
      BY <2>1, <2>2
<1>. QED
    BY <1>6, <1>7 DEF Siblings, V, fam

(* The kept end of a family is what the CPU's decompose gives. *)
LEMMA KidsDecompose ==
    ASSUME NEW f, Proper(tables, f), ~simple(f)
    PROVE  Kids(f) = decompose(f)
<1>1. /\ Problems(Family(f), BEGIN_ORDER) = Siblings(f, BEGIN_ORDER)
      /\ Problems(Family(f), END_ORDER) = Siblings(f, END_ORDER)
    BY FamilyEnds
<1>2. \A e : {Evaluated(p) : p \in problems_generate(f, e)} = Siblings(f, e)
    BY DEF problems_generate, Siblings
<1>3. BEGIN_ORDER # END_ORDER
    BY DEF BEGIN_ORDER, END_ORDER
<1>4. Kids(f) = Ranked(IF choise(Siblings(f, BEGIN_ORDER), Siblings(f, END_ORDER))
                       THEN Siblings(f, BEGIN_ORDER) ELSE Siblings(f, END_ORDER), 0)
    BY <1>1, <1>3 DEF Kids, Kept
<1>5. decompose(f) = Ranked(IF choise(Siblings(f, BEGIN_ORDER), Siblings(f, END_ORDER))
                            THEN Siblings(f, BEGIN_ORDER) ELSE Siblings(f, END_ORDER), 0)
    BY <1>2 DEF decompose
<1>. QED
    BY <1>4, <1>5

(* An end without children is never the one that is kept. *)
LEMMA SomeBeatNone ==
    ASSUME NEW ns, IsFiniteSet(ns), ns # {},
           \A p \in ns : p.couts_somme \in Nat /\ p.couts_somme >= 1
    PROVE  choise(ns, {})
<1>. DEFINE cut == {p \in ns : p.couts_somme >= best}
            kept == {p \in ns : p.couts_somme < best}
            g == [p \in kept |-> p.couts_somme]
<1>1. best \in Nat
    BY InstanceAssumption
<1>2. coupe({}) = 0
  <2>1. {p \in {} : p.couts_somme >= best} = {}
      OBVIOUS
  <2>. QED
      BY <2>1, FS_EmptySet DEF coupe
<1>3. sum({}) = 0
  <2>. DEFINE none == {p \in {} : p.couts_somme < best}
              h == [p \in none |-> p.couts_somme]
  <2>1. none = {} /\ DOMAIN h = none
      OBVIOUS
  <2>2. sum({}) = SumFunctionOnSet(h, DOMAIN h)
      BY DEF sum, SumFunction
  <2>. HIDE DEF h, none
  <2>3. SumFunctionOnSet(h, {}) = 0
      BY TotalNone DEF Total
  <2>. QED
      BY <2>1, <2>2, <2>3
<1>4. IsFiniteSet(cut) /\ IsFiniteSet(kept)
    BY FS_Subset
<1>5. coupe(ns) = Cardinality(cut) /\ coupe(ns) \in Nat
    BY <1>4, FS_CardinalityType DEF coupe
<1>6. CASE cut # {}
  <2>1. coupe(ns) # 0
      BY <1>4, <1>5, <1>6, FS_EmptySet
  <2>. QED
      BY <1>2, <1>5, <2>1 DEF choise
<1>7. CASE cut = {}
  <2>1. coupe(ns) = 0
      BY <1>5, <1>7, FS_EmptySet
  <2>2. kept = ns
      BY <1>1, <1>7
  <2>3. sum(ns) = Total(g, kept)
      BY DEF sum, SumFunction, Total
  <2>4. PICK p \in kept : TRUE
      BY <2>2
  <2>5. \A x \in kept : g[x] \in Int /\ g[x] >= 1 /\ g[x] >= 0
      OBVIOUS
  <2>6. kept \in SUBSET kept /\ kept \ {p} \in SUBSET kept /\ IsFiniteSet(kept \ {p})
      BY <1>4, FS_Subset
  <2>7. \A x \in kept \ {p} : g[x] \in Int /\ g[x] >= 0
      BY <2>5
  <2>. HIDE DEF g, kept
  <2>8. Total(g, kept) = g[p] + Total(g, kept \ {p}) /\ Total(g, kept \ {p}) \in Int
      BY SMTT(30), <1>4, <2>4, <2>5, <2>6, TotalWithout
  <2>9. Total(g, kept \ {p}) >= 0
      BY <2>6, <2>7, TotalSign
  <2>10. sum(ns) > 0
      BY <2>3, <2>4, <2>5, <2>8, <2>9
  <2>. QED
      BY <1>2, <1>3, <2>1, <2>10 DEF choise
<1>. QED
    BY <1>6, <1>7

(* The two schedules below a subproblem with two open positions. *)
LEMMA KidsLeaves ==
    ASSUME NEW f, Proper(tables, f), simple(f), Suits(tables), Admits(tables)
    PROVE  /\ IsFiniteSet(Kids(f)) /\ Cardinality(Kids(f)) = weights[f.depth]
           /\ \A p \in Kids(f) : /\ leaf(p) /\ p.couts_somme \in Nat
                                 /\ p.couts_somme <= costv
           /\ \A s \in Schedule : Completes(s, f) =>
                 \E p \in Kids(f) : p.couts_somme = criteres_calculer(tables, s)
<1>. DEFINE B == BEGIN_ORDER
            ns == Siblings(f, B)
            raw(j) == create_raw_problem3(f, j, B)
            kid(j) == ChildAt(f, B, ns, 0, j)
            F == Free(f)
<1>1. WellFormed(f) /\ ~leaf(f) /\ f.depth \in 0 .. Size - 2 /\ f.depth = Size - 2
    BY ProperFacts DEF simple
<1>2. B \in Ends(f)
    BY DEF Ends
<1>3. /\ f.limite1 \in Int /\ f.limite2 = f.limite1 + 3
      /\ f.permutation \in Schedule /\ F \subseteq Position
    BY <1>1, FreeFacts DEF WellFormed
<1>4. F = {f.limite1 + 1, f.limite1 + 2} /\ f.limite1 + 1 # f.limite1 + 2
    BY <1>3 DEF Free
<1>5. \A j \in F : WellFormed(raw(j)) /\ leaf(raw(j)) /\ raw(j).job = f.permutation[j]
  <2>. SUFFICES ASSUME NEW j \in F
                PROVE  WellFormed(raw(j)) /\ leaf(raw(j)) /\ raw(j).job = f.permutation[j]
      OBVIOUS
  <2>1. WellFormed(raw(j))
      BY <1>1, <1>2, ChildWellFormed
  <2>2. raw(j).depth = Size /\ raw(j).job = f.permutation[j]
      BY DEF create_raw_problem3, depth_set
  <2>. QED
      BY <2>1, <2>2 DEF leaf
<1>6. \A j \in F : /\ kid(j).couts_somme = bornes_calculer(tables, raw(j))
                   /\ kid(j).depth = raw(j).depth
    BY ChildOf
<1>7. \A j \in F : kid(j).job = raw(j).job
    BY DEF ChildAt, Numbered, Evaluated
<1>8. \A j \in F : Evaluated(raw(j)).couts_somme = bornes_calculer(tables, raw(j))
    BY DEF Evaluated, create_raw_problem3
<1>9. ASSUME NEW j \in F
      PROVE  bornes_calculer(tables, raw(j)) \in 1 .. costv
  <2>1. /\ raw(j).permutation \in Schedule /\ Completes(raw(j).permutation, raw(j))
      BY <1>5, <1>9, LeafComplete
  <2>2. bornes_calculer(tables, raw(j)) = criteres_calculer(tables, raw(j).permutation)
      BY <1>5, <1>9, <2>1, LeafCost
  <2>. QED
      BY <2>1, <2>2 DEF Suits
<1>10. costv \in Nat
    BY InstanceAssumption
<1>. HIDE DEF raw, kid, F
<1>11. \A a, b : IsFiniteSet({a, b})
  <2>. TAKE a, b
  <2>1. IsFiniteSet({a}) /\ {a, b} = {a} \cup {b}
      BY FS_Singleton
  <2>. QED
      BY <2>1, FS_AddElement
<1>12. ns = {Evaluated(raw(j)) : j \in F}
    BY DEF Siblings, raw, F
<1>13. IsFiniteSet(ns) /\ ns # {}
  <2>1. ns = {Evaluated(raw(f.limite1 + 1)), Evaluated(raw(f.limite1 + 2))}
      BY <1>4, <1>12
  <2>2. f.limite1 + 1 \in F
      BY <1>4
  <2>3. Evaluated(raw(f.limite1 + 1)) \in ns
      BY <1>12, <2>2
  <2>4. IsFiniteSet(ns)
      BY <1>11, <2>1
  <2>. QED
      BY <2>3, <2>4
<1>14. \A p \in ns : p.couts_somme \in Nat /\ p.couts_somme >= 1
  <2>1. \A j \in F : bornes_calculer(tables, raw(j)) \in Nat /\ bornes_calculer(tables, raw(j)) >= 1
      BY <1>9, <1>10
  <2>. QED
      BY <1>8, <1>12, <2>1
<1>15. choise(ns, {})
    BY <1>13, <1>14, SomeBeatNone
<1>16. /\ Problems(Family(f), BEGIN_ORDER) = ns
       /\ Problems(Family(f), END_ORDER) = {}
    BY FamilyEnds
<1>17. Kids(f) = Ranked(ns, 0)
    BY <1>15, <1>16 DEF Kids, Kept
<1>18. Kids(f) = {kid(j) : j \in F}
    BY <1>12, <1>17 DEF Ranked, kid, ChildAt, raw
<1>19. Kids(f) = {kid(f.limite1 + 1), kid(f.limite1 + 2)}
    BY <1>4, <1>18
<1>20. kid(f.limite1 + 1) # kid(f.limite1 + 2)
  <2>1. f.permutation[f.limite1 + 1] # f.permutation[f.limite1 + 2]
      BY <1>3, <1>4, ScheduleFacts
  <2>. QED
      BY <1>4, <1>5, <1>7, <2>1
<1>21. IsFiniteSet(Kids(f)) /\ Cardinality(Kids(f)) = 2
  <2>1. IsFiniteSet({kid(f.limite1 + 2)}) /\ Cardinality({kid(f.limite1 + 2)}) = 1
      BY FS_Singleton
  <2>2. Kids(f) = {kid(f.limite1 + 2)} \cup {kid(f.limite1 + 1)}
      BY <1>19
  <2>3. kid(f.limite1 + 1) \notin {kid(f.limite1 + 2)}
      BY <1>20
  <2>. QED
      BY <2>1, <2>2, <2>3, FS_AddElement
<1>22. weights[f.depth] = 2
  <2>1. /\ weights[Size - 1] = 1
        /\ weights[f.depth] = weights[f.depth + 1] * (Size - f.depth)
      BY <1>1, WeightFacts
  <2>2. f.depth + 1 = Size - 1 /\ Size - f.depth = 2
      BY <1>1, SizeFacts
  <2>. QED
      BY <2>1, <2>2
<1>23. \A p \in Kids(f) : leaf(p) /\ p.couts_somme \in Nat /\ p.couts_somme <= costv
  <2>. SUFFICES ASSUME NEW j \in F
                PROVE  /\ leaf(kid(j)) /\ kid(j).couts_somme \in Nat
                       /\ kid(j).couts_somme <= costv
      BY <1>18
  <2>1. leaf(kid(j))
      BY <1>5, <1>6 DEF leaf
  <2>2. kid(j).couts_somme \in 1 .. costv
      BY <1>6, <1>9
  <2>. QED
      BY <1>10, <2>1, <2>2
<1>24. ASSUME NEW s \in Schedule, Completes(s, f)
       PROVE  \E p \in Kids(f) : p.couts_somme = criteres_calculer(tables, s)
  <2>1. PICK j \in F : s[End(f, B)] = f.permutation[j]
      BY <1>1, <1>2, <1>24, SomeChild DEF F
  <2>2. Completes(s, raw(j))
      BY <1>1, <1>2, <1>24, <2>1, ChildCompletions DEF raw, F
  <2>3. bornes_calculer(tables, raw(j)) = criteres_calculer(tables, s)
      BY <1>5, <2>2, LeafCost
  <2>. QED
      BY <1>6, <1>18, <2>1, <2>3
<1>. QED
    BY <1>21, <1>22, <1>23, <1>24

-----------------------------------------------------------------------------
(* The hypotheses on the instance and its tables. *)
Instance(t) == Admits(t) /\ Suits(t) /\ Tables(t) /\ Bytes(t)

(* A family is pruned by the fold over its kept children. *)
LEMMA FamilyIsFold ==
    ASSUME NEW f, NEW acc
    PROVE  FamilyPruned(acc, Family(f)) = AllHandled(Kids(f), acc, Kept(Family(f)))
BY DEF FamilyPruned, AllHandled, Kids

LEMMA KidsCosted ==
    ASSUME NEW f, Proper(tables, f), Suits(tables), Admits(tables)
    PROVE  Costed(Kids(f), Kids(f))
<1>1. WellFormed(f) /\ ~leaf(f) /\ f.ranks \in [0 .. Size -> Nat] /\ f.depth \in 0 .. Size - 2
    BY ProperFacts
<1>2. CASE simple(f)
  <2>1. IsFiniteSet(Kids(f)) /\ \A p \in Kids(f) : leaf(p) /\ p.couts_somme \in Nat
      BY <1>2, KidsLeaves
  <2>. QED
      BY <2>1, SizeFacts DEF Costed, leaf
<1>3. CASE ~simple(f)
  <2>1. Kids(f) = decompose(f)
      BY <1>3, KidsDecompose
  <2>2. Numbers(tables)
      BY DEF Admits, Numbers
  <2>3. IsFiniteSet(decompose(f)) /\ \A c \in decompose(f) : c.couts_somme \in Nat
      BY <1>1, <2>2, DecomposedRanks
  <2>4. \A c \in decompose(f) : c.depth \in 0 .. Size
      BY <1>1, Decomposed DEF WellFormed
  <2>. QED
      BY <2>1, <2>3, <2>4 DEF Costed
<1>. QED
    BY <1>2, <1>3

LEMMA FamilyTyped ==
    ASSUME NEW f, Proper(tables, f), Suits(tables), Admits(tables),
           NEW X, Kids(f) \subseteq X, NEW acc \in Accounts(X)
    PROVE  FamilyPruned(acc, Family(f)) \in Accounts(X)
<1>1. Costed(Kids(f), X)
    BY KidsCosted DEF Costed
<1>2. PICK g : HandledBy(g, X, Kids(f), acc, Kept(Family(f)))
    BY <1>1, HandlesExist
<1>3. AllHandled(Kids(f), acc, Kept(Family(f))) \in Accounts(X)
    BY <1>2 DEF HandledBy
<1>. QED
    BY <1>3, FamilyIsFold

(* A family that is pruned takes its father's place. *)
LEMMA FamilyDone ==
    ASSUME Admits(tables), Suits(tables), NEW cpu, NEW X, NEW acc \in Accounts(X), NEW R, NEW aw,
           Whole(tables, cpu, acc, R, aw), NEW f \in R, Kids(f) \subseteq X
    PROVE  Whole(tables, cpu, FamilyPruned(acc, Family(f)), R \ {f}, aw)
<1>. DEFINE e == Kept(Family(f))
            last == AllHandled(Kids(f), acc, e)
<1>1. FamilyPruned(acc, Family(f)) = last
    BY FamilyIsFold
<1>2. Proper(tables, f) /\ \A s \in Schedule : criteres_calculer(tables, s) \in Nat
    BY DEF Whole, Held, Admits
<1>3. Costed(Kids(f), X)
    BY <1>2, KidsCosted DEF Costed
<1>4. CASE ~simple(f)
  <2>. DEFINE full == [wsltns |-> acc.wsltns, cout |-> acc.cout,
                       tree |-> acc.tree \cup decompose(f), explored |-> acc.explored]
  <2>1. /\ full.tree = acc.tree \cup decompose(f) /\ full.wsltns = acc.wsltns
        /\ full.cout = acc.cout /\ full.explored = acc.explored
      OBVIOUS
  <2>. HIDE DEF full, last, e
  <2>2. /\ Whole(tables, cpu, full, R \ {f}, aw)
        /\ acc.tree \cap decompose(f) = {}
        /\ IsFiniteSet(decompose(f))
        /\ \A c \in decompose(f) : Proper(tables, c)
      BY <1>4, <2>1, Branched
  <2>3. Kids(f) = decompose(f)
      BY <1>2, <1>4, KidsDecompose
  <2>4. Whole(tables, cpu, AllHandled(decompose(f), acc, e), R \ {f}, aw)
      BY <1>2, <2>1, <2>2, <2>3, OpenHandled
  <2>. QED
      BY <1>1, <2>3, <2>4 DEF last
<1>5. CASE simple(f)
  <2>1. /\ IsFiniteSet(Kids(f)) /\ Cardinality(Kids(f)) = weights[f.depth]
        /\ \A p \in Kids(f) : leaf(p) /\ p.couts_somme \in Nat /\ p.couts_somme <= costv
        /\ \A s \in Schedule : Completes(s, f) =>
              \E p \in Kids(f) : p.couts_somme = criteres_calculer(tables, s)
      BY <1>2, <1>5, KidsLeaves
  <2>2. Costs(acc.wsltns, acc.cout)
      BY DEF Whole
  <2>3. /\ last.tree = acc.tree
        /\ last.explored = acc.explored + Cardinality(Kids(f))
        /\ Costs(last.wsltns, last.cout)
        /\ last.cout <= acc.cout
        /\ \A p \in Kids(f) : last.cout <= p.couts_somme
    <3>. HIDE DEF e
    <3>. QED
        BY <2>1, <2>2, LeavesHandled
  <2>. HIDE DEF last
  <2>4. acc.tree \ {f} = acc.tree
      BY DEF Whole
  <2>5. \A s \in Schedule : Completes(s, f) => last.cout <= criteres_calculer(tables, s)
      BY <2>1, <2>3
  <2>6. Whole(tables, cpu, last, R \ {f}, aw)
      BY <1>2, <2>1, <2>3, <2>4, <2>5, LessOne
  <2>. QED
      BY <1>1, <2>6
<1>. QED
    BY <1>4, <1>5

-----------------------------------------------------------------------------
(* What decompose_on_cpu writes.                                           *)
Record == [permutation : Schedule, limite1 : Int, limite2 : Int, depth : Int, job : Int,
           ranks : [0 .. Size -> Nat], couts_somme : Nat]
Entries == [problem : Record, begin_end : Int]

LEMMA ChildEntry ==
    ASSUME NEW t, NEW f, Proper(t, f), NEW e \in Ends(f), NEW j \in Free(f)
    PROVE  /\ Child(f, j, e) \in Entries
           /\ Child(f, j, e).begin_end = e
           /\ Child(f, j, e).problem.depth = IF simple(f) THEN Size ELSE f.depth + 1
<1>. DEFINE c == create_raw_problem3(f, j, e)
<1>1. WellFormed(f) /\ ~leaf(f) /\ f.ranks \in [0 .. Size -> Nat] /\ f.depth \in 0 .. Size - 2
    BY ProperFacts
<1>2. WellFormed(c)
    BY <1>1, ChildWellFormed
<1>3. /\ f.permutation \in [Position -> Position] /\ j \in Position
    BY <1>1, FreeFacts, ScheduleFacts DEF WellFormed
<1>4. f.permutation[j] \in Position /\ Position \subseteq Int
    BY <1>3, SizeFacts
<1>5. c = [permutation |-> c.permutation, limite1 |-> c.limite1, limite2 |-> c.limite2,
           depth |-> c.depth, job |-> c.job, ranks |-> c.ranks, couts_somme |-> c.couts_somme]
      /\ c.job = f.permutation[j] /\ c.ranks = f.ranks /\ c.couts_somme = 0
      /\ c.depth = depth_set(f)
    BY DEF create_raw_problem3
<1>6. /\ c.permutation \in Schedule /\ c.limite1 \in Int /\ c.limite2 \in Int
      /\ c.depth \in Int /\ c.job \in Int /\ c.ranks \in [0 .. Size -> Nat] /\ c.couts_somme \in Nat
    BY <1>1, <1>2, <1>4, <1>5, SizeFacts DEF WellFormed
<1>7. c \in Record
  <2>. HIDE DEF c
  <2>. QED
      BY <1>5, <1>6 DEF Record
<1>8. e \in Int
    BY DEF Ends, BEGIN_ORDER, END_ORDER
<1>9. c.depth = IF simple(f) THEN Size ELSE f.depth + 1
    BY <1>5 DEF depth_set
<1>10. Child(f, j, e) = [problem |-> c, begin_end |-> e]
    BY DEF Child
<1>. HIDE DEF c
<1>. QED
    BY <1>7, <1>8, <1>9, <1>10 DEF Entries

LEMMA CountFree ==
    ASSUME NEW t, NEW f, Proper(t, f)
    PROVE  /\ f.limite1 \in Int /\ f.limite2 = f.limite1 + Count(f) + 1 /\ Count(f) \in Nat
           /\ Count(f) >= 2 /\ (simple(f) <=> Count(f) = 2)
           /\ Cardinality(Free(f)) = Count(f)
           /\ \A k \in 1 .. Count(f) : f.limite1 + k \in Free(f)
           /\ Wide(f) \in Nat /\ Wide(f) >= 2
<1>1. WellFormed(f) /\ ~leaf(f) /\ f.depth \in 0 .. Size - 2
    BY ProperFacts
<1>2. /\ f.limite1 \in Int /\ f.limite2 \in Int /\ f.limite2 - f.limite1 >= 3
      /\ f.limite2 - f.limite1 = Size - f.depth + 1 /\ f.depth \in Int /\ Size \in Int
      /\ (simple(f) <=> f.limite2 - f.limite1 = 3)
    BY <1>1, FreeFacts, SizeFacts
<1>3. Cardinality(Free(f)) = Size - f.depth
    BY <1>2, OpenPositions DEF Free
<1>4. /\ f.limite2 = f.limite1 + Count(f) + 1 /\ Count(f) \in Nat /\ Count(f) >= 2
      /\ (simple(f) <=> Count(f) = 2) /\ Cardinality(Free(f)) = Count(f)
    BY <1>2, <1>3 DEF Count
<1>5. \A k \in 1 .. Count(f) : f.limite1 + k \in Free(f)
  <2>. SUFFICES ASSUME NEW k \in 1 .. Count(f) PROVE f.limite1 + k \in Free(f)
      OBVIOUS
  <2>1. k \in Int /\ 1 <= k /\ k <= Count(f)
      BY <1>4
  <2>2. f.limite1 + k \in f.limite1 + 1 .. f.limite2 - 1
      BY <1>2, <1>4, <2>1
  <2>. QED
      BY <2>2 DEF Free
<1>. QED
    BY <1>2, <1>4, <1>5 DEF Wide

(* problems_generate3 appends a run of children. *)
LEMMA RunAppended ==
    ASSUME NEW t, NEW f, Proper(t, f), NEW e \in Ends(f), NEW pool \in Seq(Entries)
    PROVE  LET new == problems_generate3(pool, f, e)
           IN  /\ new \in Seq(Entries) /\ Len(new) = Len(pool) + Count(f)
               /\ \A i \in 1 .. Len(pool) : new[i] = pool[i]
               /\ \A i \in 1 .. Count(f) : new[Len(pool) + i] = Child(f, f.limite1 + i, e)
<1>. DEFINE n == Count(f)
            run == [k \in 1 .. n |-> Child(f, f.limite1 + k, e)]
<1>1. n \in Nat /\ Cardinality(Free(f)) = n /\ \A k \in 1 .. n : f.limite1 + k \in Free(f)
    BY CountFree
<1>2. \A k \in 1 .. n : Child(f, f.limite1 + k, e) \in Entries
    BY <1>1, ChildEntry
<1>3. problems_generate3(pool, f, e) = pool \o run
    BY <1>1 DEF problems_generate3
<1>. HIDE DEF n
<1>4. run \in Seq(Entries) /\ Len(run) = n /\ \A k \in 1 .. n : run[k] = Child(f, f.limite1 + k, e)
  <2>1. run \in [1 .. n -> Entries]
      BY <1>2
  <2>2. run \in Seq(Entries) /\ DOMAIN run = 1 .. n
      BY <1>1, <2>1, SeqDef
  <2>. QED
      BY <1>1, <2>2, LenProperties
<1>. HIDE DEF run
<1>5. /\ pool \o run \in Seq(Entries) /\ Len(pool \o run) = Len(pool) + Len(run)
      /\ \A i \in 1 .. Len(pool) + Len(run) :
            (pool \o run)[i] = IF i <= Len(pool) THEN pool[i] ELSE run[i - Len(pool)]
    BY <1>4, ConcatProperties
<1>6. Len(pool) \in Nat
    BY LenProperties
<1>7. \A i \in 1 .. Len(pool) : (pool \o run)[i] = pool[i]
    BY <1>1, <1>4, <1>5, <1>6
<1>8. \A i \in 1 .. n : (pool \o run)[Len(pool) + i] = run[i]
    BY <1>1, <1>4, <1>5, <1>6
<1>. QED
    BY <1>3, <1>4, <1>5, <1>7, <1>8 DEF n

(* The first child of the pool is a schedule already, or there is none. *)
Led(pool) ==
    pool # <<>> => pool[1].problem.depth = Size /\ pool[1].begin_end = BEGIN_ORDER

LEMMA ChildrenAppended ==
    ASSUME NEW t, NEW f, Proper(t, f), NEW pool \in Seq(Entries)
    PROVE  LET new == Children(pool, f)
           IN  /\ new \in Seq(Entries)
               /\ (simple(f) => Led(pool)) =>
                    /\ Len(new) = Len(pool) + Wide(f)
                    /\ \A i \in 1 .. Len(pool) : new[i] = pool[i]
                    /\ \A i \in 1 .. Wide(f) : new[Len(pool) + i] = Entry(f, i)
<1>1. Len(pool) \in Nat /\ (pool = <<>> <=> Len(pool) = 0)
    BY LenProperties, EmptySeq
<1>2. BEGIN_ORDER \in Ends(f) /\ (~simple(f) => END_ORDER \in Ends(f))
    BY DEF Ends
<1>3. /\ Count(f) \in Nat /\ Count(f) >= 2 /\ (simple(f) <=> Count(f) = 2)
      /\ \A k \in 1 .. Count(f) : f.limite1 + k \in Free(f)
    BY CountFree
<1>4. CASE ~simple(f)
  <2>. DEFINE n == Count(f)
              a == problems_generate3(pool, f, BEGIN_ORDER)
              b == problems_generate3(a, f, END_ORDER)
  <2>1. /\ a \in Seq(Entries) /\ Len(a) = Len(pool) + n
        /\ \A i \in 1 .. Len(pool) : a[i] = pool[i]
        /\ \A i \in 1 .. n : a[Len(pool) + i] = Child(f, f.limite1 + i, BEGIN_ORDER)
      BY <1>2, RunAppended
  <2>. HIDE DEF a
  <2>2. /\ b \in Seq(Entries) /\ Len(b) = Len(a) + n
        /\ \A i \in 1 .. Len(a) : b[i] = a[i]
        /\ \A i \in 1 .. n : b[Len(a) + i] = Child(f, f.limite1 + i, END_ORDER)
      BY <1>2, <1>4, <2>1, RunAppended
  <2>3. Children(pool, f) = b /\ Wide(f) = 2 * n
      BY <1>4 DEF Children, Wide, a
  <2>4. \A i \in 1 .. 2 * n :
            Entry(f, i) = IF i <= n THEN Child(f, f.limite1 + i, BEGIN_ORDER)
                          ELSE Child(f, f.limite1 + (i - n), END_ORDER)
      BY DEF Entry
  <2>. HIDE DEF b
  <2>5. n \in Nat
      BY <1>3
  <2>. HIDE DEF n
  <2>6. \A i \in 1 .. Len(pool) : b[i] = pool[i]
      BY <1>1, <2>1, <2>2, <2>5
  <2>7. ASSUME NEW i \in 1 .. 2 * n PROVE b[Len(pool) + i] = Entry(f, i)
    <3>1. CASE i <= n
      <4>1. i \in 1 .. n /\ Len(pool) + i \in 1 .. Len(a)
          BY <1>1, <2>1, <2>5, <3>1
      <4>2. b[Len(pool) + i] = a[Len(pool) + i]
          BY <2>2, <4>1
      <4>3. a[Len(pool) + i] = Child(f, f.limite1 + i, BEGIN_ORDER)
          BY <2>1, <4>1
      <4>. QED
          BY <2>4, <3>1, <4>2, <4>3
    <3>2. CASE ~(i <= n)
      <4>1. i - n \in 1 .. n /\ Len(a) + (i - n) = Len(pool) + i
          BY <1>1, <2>1, <2>5, <3>2
      <4>2. b[Len(a) + (i - n)] = Child(f, f.limite1 + (i - n), END_ORDER)
          BY <2>2, <4>1
      <4>. QED
          BY <2>4, <3>2, <4>1, <4>2
    <3>. QED
        BY <3>1, <3>2
  <2>8. Len(b) = Len(pool) + 2 * n
      BY <1>1, <2>1, <2>2, <2>5
  <2>. QED
      BY <2>2, <2>3, <2>6, <2>7, <2>8
<1>5. CASE simple(f)
  <2>. DEFINE x == Child(f, f.limite1 + 1, BEGIN_ORDER)
              y == Child(f, f.limite1 + 2, BEGIN_ORDER)
              two == pool \o <<x, y>>
              z == [two[1] EXCEPT !.problem.depth = Size, !.begin_end = BEGIN_ORDER]
              new == Children(pool, f)
  <2>1. new = [two EXCEPT ![1].problem.depth = Size, ![1].begin_end = BEGIN_ORDER]
      BY <1>5 DEF Children, leaves_generate3
  <2>2. /\ x \in Entries /\ x.problem.depth = Size /\ x.begin_end = BEGIN_ORDER
        /\ y \in Entries
      BY <1>2, <1>3, <1>5, ChildEntry
  <2>3. /\ Wide(f) = 2 /\ Entry(f, 1) = x /\ Entry(f, 2) = y
      BY <1>3, <1>5 DEF Wide, Entry
  <2>. HIDE DEF x, y
  <2>4. <<x, y>> \in Seq(Entries) /\ Len(<<x, y>>) = 2 /\ <<x, y>>[1] = x /\ <<x, y>>[2] = y
      BY <2>2
  <2>5. /\ two \in Seq(Entries) /\ Len(two) = Len(pool) + 2
        /\ \A i \in 1 .. Len(pool) + 2 :
              two[i] = IF i <= Len(pool) THEN pool[i] ELSE <<x, y>>[i - Len(pool)]
      BY <2>4, ConcatProperties
  <2>6. /\ two[Len(pool) + 1] = x /\ two[Len(pool) + 2] = y
        /\ \A i \in 1 .. Len(pool) : two[i] = pool[i]
    <3>1. Len(pool) + 1 \in 1 .. Len(pool) + 2 /\ Len(pool) + 2 \in 1 .. Len(pool) + 2
          /\ (Len(pool) + 1) - Len(pool) = 1 /\ (Len(pool) + 2) - Len(pool) = 2
          /\ ~(Len(pool) + 1 <= Len(pool)) /\ ~(Len(pool) + 2 <= Len(pool))
          /\ \A i \in 1 .. Len(pool) : i \in 1 .. Len(pool) + 2 /\ i <= Len(pool)
        BY <1>1
    <3>. QED
        BY <2>4, <2>5, <3>1
  <2>. HIDE DEF two
  <2>7. 1 \in 1 .. Len(two) /\ two[1] \in Entries
      BY <1>1, <2>5, ElementOfSeq
  <2>8. DOMAIN two = 1 .. Len(two)
      BY <2>5, LenProperties
  <2>9. new = [two EXCEPT ![1] = z]
      BY <2>1, <2>7, <2>8
  <2>10. /\ two[1] = [problem |-> two[1].problem, begin_end |-> two[1].begin_end]
         /\ two[1].problem \in Record
      BY <2>7 DEF Entries
  <2>11. z = [problem |-> [two[1].problem EXCEPT !.depth = Size], begin_end |-> BEGIN_ORDER]
    <3>. DEFINE w == two[1]
                v == [w EXCEPT !.problem.depth = Size]
    <3>1. v = [w EXCEPT !.problem = [w.problem EXCEPT !.depth = Size]]
        OBVIOUS
    <3>2. v = [problem |-> [w.problem EXCEPT !.depth = Size], begin_end |-> w.begin_end]
      <4>. HIDE DEF w, v
      <4>. QED
          BY <2>10, <3>1 DEF w
    <3>3. z = [v EXCEPT !.begin_end = BEGIN_ORDER]
        OBVIOUS
    <3>. HIDE DEF w, v, z
    <3>. QED
        BY <3>2, <3>3 DEF w
  <2>12. [two[1].problem EXCEPT !.depth = Size] \in Record
    <3>1. Size \in Int
        BY SizeFacts
    <3>2. ASSUME NEW r \in Record PROVE [r EXCEPT !.depth = Size] \in Record
        BY <3>1 DEF Record
    <3>. QED
        BY <2>10, <3>2
  <2>13. z \in Entries
    <3>1. BEGIN_ORDER \in Int
        BY DEF BEGIN_ORDER
    <3>. HIDE DEF z
    <3>. QED
        BY <2>11, <2>12, <3>1 DEF Entries
  <2>14. new \in Seq(Entries)
    <3>. HIDE DEF z, new
    <3>. QED
        BY <2>5, <2>7, <2>9, <2>13, ExceptSeq
  <2>15. ASSUME Led(pool) PROVE new = two
    <3>1. two[1].problem.depth = Size /\ two[1].begin_end = BEGIN_ORDER
      <4>1. CASE pool = <<>>
          BY <1>1, <2>2, <2>6, <4>1
      <4>2. CASE pool # <<>>
        <5>1. 1 \in 1 .. Len(pool)
            BY <1>1, <4>2
        <5>. QED
            BY <2>6, <2>15, <4>2, <5>1 DEF Led
      <4>. QED
          BY <4>1, <4>2
    <3>2. [two[1].problem EXCEPT !.depth = Size] = two[1].problem
        BY <2>10, <3>1 DEF Record
    <3>3. z = two[1]
        BY <2>10, <2>11, <3>1, <3>2
    <3>. HIDE DEF z, new
    <3>. QED
        BY <2>5, <2>7, <2>8, <2>9, <3>3, LenProperties
  <2>16. ASSUME Led(pool)
         PROVE  /\ Len(new) = Len(pool) + Wide(f)
                /\ \A i \in 1 .. Len(pool) : new[i] = pool[i]
                /\ \A i \in 1 .. Wide(f) : new[Len(pool) + i] = Entry(f, i)
    <3>1. \A i \in 1 .. 2 : i = 1 \/ i = 2
        OBVIOUS
    <3>. HIDE DEF new
    <3>. QED
        BY <2>3, <2>5, <2>6, <2>15, <2>16, <3>1
  <2>. HIDE DEF new
  <2>. QED
      BY <1>5, <2>14, <2>16 DEF new
<1>. QED
    BY <1>4, <1>5

Appends(g, n) ==
    /\ g \in [0 .. n -> Seq(Entries)] /\ g[0] = <<>>
    /\ \A k \in 1 .. n : g[k] = Children(g[k - 1], fathers[k])

(* The fold over the fathers, father by father. *)
LEMMA ChildrenSteps ==
    ASSUME NEW t, NEW E, \A f \in E : Proper(t, f), NEW n \in Nat, fathers \in [1 .. n -> E]
    PROVE  \E g : Appends(g, n) /\ AllChildren = g[n]
<1>. DEFINE q == fathers
            T == Seq(Entries)
            base == <<>>
            turn(f, x) == Children(x, f)
            step == [f \in E |-> [x \in T |-> turn(f, x)]]
            Def(a) == [s \in SUBSET (1 .. n) |->
                          IF s = {} THEN base ELSE turn(q[Max(s)], a[s \ {Max(s)}])]
<1>1. base \in T
    BY EmptySeq
<1>2. Listed(q, n, E)
    BY DEF Listed
<1>3. Turns(step, E, T)
  <2>1. \A f \in E, x \in T : turn(f, x) \in T
      BY ChildrenAppended
  <2>. HIDE DEF T, turn
  <2>. QED
      BY <2>1 DEF Turns
<1>4. AllChildren = (CHOOSE a : a = Def(a))[1 .. n]
  <2>1. DOMAIN fathers = 1 .. n
      OBVIOUS
  <2>. QED
      BY <2>1 DEF AllChildren, FoldLeft, MapThenFoldSet
<1>. HIDE DEF T, base, turn, q
<1>5. PICK f : FoldOfPlaces(f, n, q, T, base, step)
  <2>. HIDE DEF step
  <2>. QED
      BY <1>1, <1>2, <1>3, FoldOverPlaces
<1>6. f = Def(f)
  <2>0. /\ f \in [SUBSET (1 .. n) -> T] /\ f[{}] = base
        /\ \A s \in SUBSET (1 .. n) : s # {} => f[s] = step[q[Max(s)]][f[s \ {Max(s)}]]
      BY <1>5 DEF FoldOfPlaces
  <2>1. \A s \in SUBSET (1 .. n) : s # {} => Max(s) \in 1 .. n
      BY Greatest
  <2>2. \A s \in SUBSET (1 .. n) : s # {} => q[Max(s)] \in E /\ f[s \ {Max(s)}] \in T
      BY <1>2, <2>0, <2>1 DEF Listed
  <2>. QED
      BY <2>0, <2>2
<1>. DEFINE a == CHOOSE a : a = Def(a)
<1>7. a = Def(a)
    BY <1>6
<1>. HIDE DEF a
<1>8. a[{}] = base
    BY <1>7
<1>9. ASSUME NEW k \in 1 .. n, a[1 .. k - 1] \in T
      PROVE  a[1 .. k] = step[q[k]][a[1 .. k - 1]]
  <2>1. /\ 1 .. k \in SUBSET (1 .. n) /\ 1 .. k # {}
        /\ Max(1 .. k) = k /\ (1 .. k) \ {k} = 1 .. k - 1
      BY Initial
  <2>2. a[1 .. k] = turn(q[k], a[1 .. k - 1])
      BY <1>7, <2>1
  <2>3. q[k] \in E
      BY <1>2 DEF Listed
  <2>. QED
      BY <1>9, <2>2, <2>3
<1>10. Unfolds(a, n, q, T, base, step)
    BY <1>8, <1>9 DEF Unfolds
<1>11. PICK g : LeftFold(g, n, q, T, base, step) /\ g[n] = a[1 .. n]
  <2>. HIDE DEF step
  <2>. QED
      BY <1>1, <1>2, <1>3, <1>10, FoldOverPrefixes
<1>12. Appends(g, n)
  <2>1. /\ g \in [0 .. n -> T] /\ g[0] = base
        /\ \A k \in 1 .. n : g[k] = step[q[k]][g[k - 1]]
      BY <1>11 DEF LeftFold
  <2>2. \A k \in 1 .. n : q[k] \in E /\ g[k - 1] \in T
      BY <1>2, <2>1 DEF Listed
  <2>3. \A k \in 1 .. n : g[k] = turn(q[k], g[k - 1])
      BY <2>1, <2>2
  <2>. QED
      BY <2>1, <2>3 DEF Appends, T, base, turn, q
<1>. QED
    BY <1>4, <1>11, <1>12 DEF a

(* The children of the fathers fs[1 .. n], family after family. *)
Laid(pool, fs, n, pos) ==
    /\ pos \in [0 .. n -> Nat] /\ pos[0] = 0
    /\ \A k \in 1 .. n : pos[k] = pos[k - 1] + Wide(fs[k])
    /\ pool \in Seq(Entries) /\ Len(pool) = pos[n]
    /\ \A k \in 1 .. n : \A i \in 1 .. Wide(fs[k]) : pool[pos[k - 1] + i] = Entry(fs[k], i)

(* The deepest fathers come first. *)
Deepening(fs, n) == \A k, m \in 1 .. n : k <= m => fs[k].depth >= fs[m].depth

LEMMA ChildrenLaid ==
    ASSUME NEW t, NEW E, \A f \in E : Proper(t, f), NEW n \in Nat, fathers \in [1 .. n -> E],
           Deepening(fathers, n)
    PROVE  \E pos : Laid(AllChildren, fathers, n, pos)
<1>1. PICK g : Appends(g, n) /\ AllChildren = g[n]
    BY ChildrenSteps
<1>. DEFINE pos == [k \in 0 .. n |-> Len(g[k])]
            wide == [k \in 1 .. n |-> Wide(fathers[k])]
            Good(m) == /\ m > 0 => Len(g[m]) > 0 /\ g[m][1] = Entry(fathers[1], 1)
                       /\ \A k \in 1 .. m : /\ pos[k] = pos[k - 1] + wide[k]
                                            /\ pos[k] <= pos[m]
                                            /\ \A i \in 1 .. wide[k] :
                                                  g[m][pos[k - 1] + i] = Entry(fathers[k], i)
            S == {m \in 0 .. n : Good(m)}
<1>2. \A k \in 0 .. n : g[k] \in Seq(Entries) /\ pos[k] = Len(g[k]) /\ pos[k] \in Nat
    BY <1>1, LenProperties DEF Appends
<1>3. \A k \in 1 .. n : /\ k - 1 \in 0 .. n /\ k \in 0 .. n
                        /\ g[k] = Children(g[k - 1], fathers[k]) /\ Proper(t, fathers[k])
                        /\ wide[k] \in Nat /\ wide[k] >= 2 /\ wide[k] = Wide(fathers[k])
  <2>. SUFFICES ASSUME NEW k \in 1 .. n
                PROVE  /\ k - 1 \in 0 .. n /\ k \in 0 .. n
                       /\ g[k] = Children(g[k - 1], fathers[k]) /\ Proper(t, fathers[k])
                       /\ wide[k] \in Nat /\ wide[k] >= 2 /\ wide[k] = Wide(fathers[k])
      OBVIOUS
  <2>1. Proper(t, fathers[k]) /\ wide[k] = Wide(fathers[k])
      OBVIOUS
  <2>2. Wide(fathers[k]) \in Nat /\ Wide(fathers[k]) >= 2
      BY <2>1, CountFree
  <2>3. g[k] = Children(g[k - 1], fathers[k])
      BY <1>1 DEF Appends
  <2>. QED
      BY <2>1, <2>2, <2>3
<1>4. ASSUME NEW k \in 1 .. n, simple(fathers[k]) => Led(g[k - 1])
      PROVE  /\ pos[k] = pos[k - 1] + wide[k]
             /\ \A i \in 1 .. pos[k - 1] : g[k][i] = g[k - 1][i]
             /\ \A i \in 1 .. wide[k] : g[k][pos[k - 1] + i] = Entry(fathers[k], i)
  <2>1. /\ Len(g[k]) = Len(g[k - 1]) + Wide(fathers[k])
        /\ \A i \in 1 .. Len(g[k - 1]) : g[k][i] = g[k - 1][i]
        /\ \A i \in 1 .. Wide(fathers[k]) : g[k][Len(g[k - 1]) + i] = Entry(fathers[k], i)
    <3>1. g[k - 1] \in Seq(Entries) /\ g[k] = Children(g[k - 1], fathers[k])
          /\ Proper(t, fathers[k])
        BY <1>2, <1>3
    <3>2. LET new == Children(g[k - 1], fathers[k])
          IN  /\ Len(new) = Len(g[k - 1]) + Wide(fathers[k])
              /\ \A i \in 1 .. Len(g[k - 1]) : new[i] = g[k - 1][i]
              /\ \A i \in 1 .. Wide(fathers[k]) : new[Len(g[k - 1]) + i] = Entry(fathers[k], i)
        BY <1>4, <3>1, ChildrenAppended
    <3>. QED
        BY <3>1, <3>2
  <2>. QED
      BY <1>2, <1>3, <2>1
<1>5. ASSUME NEW k \in 1 .. n, k - 1 \in S PROVE simple(fathers[k]) => Led(g[k - 1])
  <2>1. CASE k = 1
    <3>1. g[k - 1] = <<>>
        BY <1>1, <2>1 DEF Appends
    <3>. QED
        BY <3>1 DEF Led
  <2>2. CASE k # 1
    <3>. SUFFICES ASSUME simple(fathers[k]) PROVE Led(g[k - 1])
        OBVIOUS
    <3>1. k - 1 > 0 /\ 1 \in 1 .. n /\ 1 <= k
        BY <2>2
    <3>2. g[k - 1][1] = Entry(fathers[1], 1)
        BY <1>5, <3>1
    <3>3. Proper(t, fathers[1]) /\ Proper(t, fathers[k])
        BY <1>3, <3>1
    <3>4. /\ fathers[1].depth \in 0 .. Size - 2 /\ fathers[k].depth = Size - 2
          /\ fathers[1].depth >= fathers[k].depth
        BY <3>1, <3>3, ProperFacts DEF Deepening, simple
    <3>5. simple(fathers[1])
        BY <3>4, SizeFacts DEF simple
    <3>6. 1 \in 1 .. Count(fathers[1]) /\ 1 \in 1 .. Wide(fathers[1])
        BY <3>3, CountFree
    <3>7. Entry(fathers[1], 1) = Child(fathers[1], fathers[1].limite1 + 1, BEGIN_ORDER)
        BY <3>6 DEF Entry
    <3>8. BEGIN_ORDER \in Ends(fathers[1]) /\ fathers[1].limite1 + 1 \in Free(fathers[1])
        BY <3>3, <3>6, CountFree DEF Ends
    <3>. QED
        BY <3>2, <3>3, <3>5, <3>7, <3>8, ChildEntry DEF Led
  <2>. QED
      BY <2>1, <2>2
<1>6. 0 \in S
    OBVIOUS
<1>7. ASSUME NEW m \in 1 .. n, m - 1 \in S PROVE m \in S
  <2>1. /\ pos[m] = pos[m - 1] + wide[m]
        /\ \A i \in 1 .. pos[m - 1] : g[m][i] = g[m - 1][i]
        /\ \A i \in 1 .. wide[m] : g[m][pos[m - 1] + i] = Entry(fathers[m], i)
      BY <1>4, <1>5, <1>7
  <2>2. Good(m - 1)
      BY <1>7
  <2>3. /\ pos[m - 1] \in Nat /\ pos[m] \in Nat /\ wide[m] \in Nat /\ wide[m] >= 2
        /\ pos[m] = Len(g[m]) /\ pos[m - 1] = Len(g[m - 1]) /\ m \in Nat
        /\ \A k \in 1 .. m : pos[k] \in Nat /\ pos[k - 1] \in Nat /\ wide[k] \in Nat
      BY <1>2, <1>3
  <2>4. /\ m - 1 > 0 => Len(g[m - 1]) > 0 /\ g[m - 1][1] = Entry(fathers[1], 1)
        /\ \A k \in 1 .. m - 1 : /\ pos[k] = pos[k - 1] + wide[k]
                                 /\ pos[k] <= pos[m - 1]
                                 /\ \A i \in 1 .. wide[k] :
                                       g[m - 1][pos[k - 1] + i] = Entry(fathers[k], i)
      BY <2>2
  <2>. HIDE DEF pos, wide
  <2>5. ASSUME NEW k \in 1 .. m
        PROVE  /\ pos[k] = pos[k - 1] + wide[k]
               /\ pos[k] <= pos[m]
               /\ \A i \in 1 .. wide[k] : g[m][pos[k - 1] + i] = Entry(fathers[k], i)
    <3>1. CASE k = m
      <4>1. pos[m] <= pos[m]
          BY <2>3
      <4>. QED
          BY <2>1, <3>1, <4>1
    <3>2. CASE k # m
      <4>1. k \in 1 .. m - 1
          BY <2>3, <3>2
      <4>2. \A i \in 1 .. wide[k] : pos[k - 1] + i \in 1 .. pos[m - 1]
        <5>1. /\ pos[k] = pos[k - 1] + wide[k] /\ pos[k] <= pos[m - 1]
              /\ pos[k] \in Nat /\ pos[k - 1] \in Nat /\ wide[k] \in Nat
            BY <2>3, <2>4, <4>1
        <5>2. \A a, b, w, c \in Nat : b = a + w /\ b <= c => \A i \in 1 .. w : a + i \in 1 .. c
            OBVIOUS
        <5>. QED
            BY <2>3, <5>1, <5>2
      <4>3. \A i \in 1 .. wide[k] : g[m][pos[k - 1] + i] = Entry(fathers[k], i)
          BY <2>1, <2>4, <4>1, <4>2
      <4>4. pos[k] <= pos[m]
        <5>1. /\ pos[m] = pos[m - 1] + wide[m] /\ pos[k] <= pos[m - 1]
              /\ pos[k] \in Nat /\ pos[m - 1] \in Nat /\ wide[m] \in Nat
            BY <2>1, <2>3, <2>4, <4>1
        <5>2. \A a, b, w \in Nat : a <= b => a <= b + w
            OBVIOUS
        <5>. QED
            BY <5>1, <5>2
      <4>. QED
          BY <2>4, <4>1, <4>3, <4>4
    <3>. QED
        BY <3>1, <3>2
  <2>6. Len(g[m]) > 0 /\ g[m][1] = Entry(fathers[1], 1)
    <3>1. Len(g[m]) > 0
        BY <2>1, <2>3
    <3>2. 1 \in 1 .. m /\ 1 \in 1 .. wide[1] /\ pos[1 - 1] = 0
      <4>1. 1 \in 1 .. n /\ 1 - 1 = 0 /\ pos[0] = 0
        <5>1. g[0] = <<>> /\ 0 \in 0 .. n
            BY <1>1 DEF Appends
        <5>. QED
            BY <1>2, <5>1
      <4>. QED
          BY <1>3, <2>3, <4>1
    <3>3. g[m][pos[1 - 1] + 1] = Entry(fathers[1], 1)
        BY <2>5, <3>2
    <3>. QED
        BY <3>1, <3>2, <3>3
  <2>7. Good(m)
      BY <2>5, <2>6
  <2>. QED
      BY <2>7
<1>8. n \in S
  <2>. HIDE DEF S
  <2>. QED
      BY <1>6, <1>7, UpTo
<1>9. Good(n)
    BY <1>8
<1>10. pos \in [0 .. n -> Nat] /\ pos[0] = 0 /\ Len(g[n]) = pos[n] /\ g[n] \in Seq(Entries)
  <2>1. g[0] = <<>> /\ Len(<<>>) = 0
      BY <1>1 DEF Appends
  <2>. QED
      BY <1>2, <2>1
<1>. HIDE DEF pos
<1>11. \A k \in 1 .. n : /\ pos[k] = pos[k - 1] + Wide(fathers[k])
                         /\ \A i \in 1 .. Wide(fathers[k]) :
                               g[n][pos[k - 1] + i] = Entry(fathers[k], i)
    BY <1>3, <1>9
<1>12. Laid(g[n], fathers, n, pos)
    BY <1>10, <1>11 DEF Laid
<1>. QED
    BY <1>1, <1>12

(* Where each family of a pool begins. *)
LEMMA LaidGrows ==
    ASSUME NEW n \in Nat, NEW fs, \A k \in 1 .. n : Wide(fs[k]) \in Nat /\ Wide(fs[k]) >= 2,
           NEW pool, NEW pos, Laid(pool, fs, n, pos)
    PROVE  /\ \A k \in 0 .. n : pos[k] \in Nat
           /\ \A k \in 1 .. n : /\ pos[k] = pos[k - 1] + Wide(fs[k])
                                /\ Wide(fs[k]) \in Nat /\ Wide(fs[k]) >= 2
                                /\ pos[k - 1] \in Nat /\ pos[k] \in Nat
                                /\ pos[k - 1] < pos[k] /\ pos[k] <= pos[n]
           /\ \A k \in 0 .. n : pos[k] <= pos[n] /\ (k # n => pos[k] < pos[n])
<1>1. /\ pos \in [0 .. n -> Nat]
      /\ \A k \in 1 .. n : pos[k] = pos[k - 1] + Wide(fs[k])
    BY DEF Laid
<1>2. \A k \in 1 .. n : Wide(fs[k]) \in Nat /\ Wide(fs[k]) >= 2
    OBVIOUS
<1>3. \A k \in 0 .. n : pos[k] \in Nat
    BY <1>1
<1>4. \A k \in 1 .. n : k - 1 \in 0 .. n /\ k \in 0 .. n
    OBVIOUS
<1>5. \A k \in 1 .. n : pos[k - 1] < pos[k]
  <2>. SUFFICES ASSUME NEW k \in 1 .. n PROVE pos[k - 1] < pos[k]
      OBVIOUS
  <2>1. /\ pos[k] = pos[k - 1] + Wide(fs[k]) /\ pos[k - 1] \in Nat
        /\ Wide(fs[k]) \in Nat /\ Wide(fs[k]) >= 2
      BY <1>1, <1>2, <1>3, <1>4
  <2>. QED
      BY <2>1
<1>. DEFINE S == {m \in 0 .. n : \A k \in 0 .. m : pos[k] <= pos[m] /\ (k # m => pos[k] < pos[m])}
<1>6. 0 \in S
  <2>1. \A k \in 0 .. 0 : k = 0
      OBVIOUS
  <2>2. pos[0] <= pos[0]
      BY <1>3
  <2>. QED
      BY <2>1, <2>2
<1>7. ASSUME NEW m \in 1 .. n, m - 1 \in S PROVE m \in S
  <2>1. ASSUME NEW k \in 0 .. m PROVE pos[k] <= pos[m] /\ (k # m => pos[k] < pos[m])
    <3>1. pos[m - 1] < pos[m] /\ pos[k] \in Nat /\ pos[m] \in Nat /\ pos[m - 1] \in Nat
        BY <1>3, <1>4, <1>5
    <3>2. CASE k = m
        BY <3>1, <3>2
    <3>3. CASE k # m
      <4>1. k \in 0 .. m - 1
          BY <3>3
      <4>2. pos[k] <= pos[m - 1]
          BY <1>7, <4>1
      <4>. QED
          BY <3>1, <4>2
    <3>. QED
        BY <3>2, <3>3
  <2>. QED
      BY <2>1
<1>8. n \in S
  <2>. HIDE DEF S
  <2>. QED
      BY <1>6, <1>7, UpTo
<1>9. \A k \in 0 .. n : pos[k] <= pos[n] /\ (k # n => pos[k] < pos[n])
    BY <1>8
<1>. QED
    BY <1>1, <1>2, <1>3, <1>4, <1>5, <1>9

(* The bounds copied back are those of bound_flowshop. *)
Priced(pool) == [k \in 1 .. Len(pool) |-> [pool[k] EXCEPT !.problem.couts_somme = Bounds(pool)[k]]]

LEMMA EntryProblem ==
    ASSUME NEW t, NEW f, Proper(t, f), NEW i \in 1 .. Wide(f)
    PROVE  /\ WellFormed(Entry(f, i).problem)
           /\ FamilySize(PricedEntry(f, i)) = Wide(f)
           /\ Entry(f, i) \in Entries
           /\ PricedEntry(f, i).problem.depth \in Int
<1>1. PICK e \in Ends(f), j \in Free(f) :
          /\ Entry(f, i) = Child(f, j, e)
          /\ Entry(f, i).problem = create_raw_problem3(f, j, e)
          /\ PricedEntry(f, i).problem = Evaluated(create_raw_problem3(f, j, e))
    BY EntryFacts
<1>2. WellFormed(f) /\ ~leaf(f) /\ f.depth \in 0 .. Size - 2
    BY ProperFacts
<1>3. WellFormed(create_raw_problem3(f, j, e))
    BY <1>2, ChildWellFormed
<1>4. /\ Child(f, j, e) \in Entries
      /\ create_raw_problem3(f, j, e).depth = IF simple(f) THEN Size ELSE f.depth + 1
  <2>1. Child(f, j, e).problem = create_raw_problem3(f, j, e)
      BY DEF Child
  <2>. QED
      BY <2>1, ChildEntry
<1>5. PricedEntry(f, i).problem.depth = create_raw_problem3(f, j, e).depth
    BY <1>1 DEF Evaluated
<1>6. FamilySize(PricedEntry(f, i)) = Wide(f)
  <2>1. CASE simple(f)
      BY <1>4, <1>5, <2>1, SizeFacts DEF FamilySize, Wide
  <2>2. CASE ~simple(f)
    <3>1. FamilySize(PricedEntry(f, i)) = (Size + 1 - (f.depth + 1)) * 2
        BY <1>4, <1>5, <2>2 DEF FamilySize
    <3>2. Wide(f) = 2 * (Size - f.depth)
        BY <2>2 DEF Wide, Count
    <3>. QED
        BY <1>2, <3>1, <3>2, SizeFacts
  <2>. QED
      BY <2>1, <2>2
<1>7. PricedEntry(f, i).problem.depth \in Int
    BY <1>2, <1>4, <1>5, SizeFacts
<1>. QED
    BY <1>1, <1>3, <1>4, <1>6, <1>7

LEMMA PricedLaid ==
    ASSUME Instance(tables), SameInstance(tables, tables_g),
           NEW n \in Nat, NEW fs, \A k \in 1 .. n : Proper(tables, fs[k]),
           NEW pool, NEW pos, Laid(pool, fs, n, pos)
    PROVE  /\ DOMAIN Priced(pool) = 1 .. pos[n]
           /\ \A k \in 1 .. n : \A i \in 1 .. Wide(fs[k]) :
                 Priced(pool)[pos[k - 1] + i] = PricedEntry(fs[k], i)
<1>0. /\ \A k \in 0 .. n : pos[k] \in Nat
      /\ \A k \in 1 .. n : /\ pos[k] = pos[k - 1] + Wide(fs[k])
                           /\ Wide(fs[k]) \in Nat /\ Wide(fs[k]) >= 2
                           /\ pos[k - 1] \in Nat /\ pos[k] \in Nat
                           /\ pos[k - 1] < pos[k] /\ pos[k] <= pos[n]
      /\ n \in 0 .. n
  <2>1. \A k \in 1 .. n : Wide(fs[k]) \in Nat /\ Wide(fs[k]) >= 2
      BY CountFree
  <2>. QED
      BY <2>1, LaidGrows
<1>1. Len(pool) = pos[n] /\ pool \in Seq(Entries) /\ DOMAIN pool = 1 .. pos[n]
    BY LenProperties DEF Laid
<1>2. DOMAIN Priced(pool) = 1 .. pos[n]
    BY <1>1 DEF Priced
<1>3. ASSUME NEW k \in 1 .. n, NEW i \in 1 .. Wide(fs[k])
      PROVE  Priced(pool)[pos[k - 1] + i] = PricedEntry(fs[k], i)
  <2>. DEFINE at == pos[k - 1] + i
              x == Entry(fs[k], i)
  <2>1. pool[at] = x
      BY <1>3 DEF Laid
  <2>2. at \in 1 .. pos[n]
    <3>1. /\ pos[k] = pos[k - 1] + Wide(fs[k]) /\ pos[k - 1] \in Nat /\ pos[k] \in Nat
          /\ pos[k] <= pos[n] /\ Wide(fs[k]) \in Nat /\ pos[n] \in Nat
        BY <1>0
    <3>. QED
        BY <3>1
  <2>3. WellFormed(x.problem) /\ Frame(x.problem)
      BY <1>3, EntryProblem, WellFormedFrame
  <2>4. Evaluate_ON_GPU(tables_g, x.problem) = bornes_calculer(tables, x.problem)
    <3>. HIDE DEF x
    <3>. QED
        BY <2>3, DeviceBound DEF Instance, Suits
  <2>. HIDE DEF at
  <2>5. Bounds(pool)[at] = Evaluate_ON_GPU(tables_g, pool[at].problem)
      BY <1>1, <2>2 DEF Bounds
  <2>6. Priced(pool)[at] = [pool[at] EXCEPT !.problem.couts_somme = Bounds(pool)[at]]
      BY <1>1, <2>2 DEF Priced
  <2>7. PricedEntry(fs[k], i) = [x EXCEPT !.problem.couts_somme = bornes_calculer(tables, x.problem)]
      BY DEF PricedEntry
  <2>. HIDE DEF x
  <2>. QED
      BY <2>1, <2>4, <2>5, <2>6, <2>7 DEF at
<1>. QED
    BY <1>2, <1>3

(* How prune cuts a pool back into families, child by child. *)
Cut(pool, acc, k) ==
    IF k < acc.next THEN acc
    ELSE [next |-> k + FamilySize(pool[k]),
          families |-> Append(acc.families, FamilyAt(pool, k))]
Pieces(pool) == {FamilyAt(pool, k) : k \in Int}
CutStates(pool) == [next : Int, families : Seq(Pieces(pool))]
Cuts(h, pool, l) ==
    /\ h \in [0 .. l -> CutStates(pool)] /\ h[0] = [next |-> 1, families |-> <<>>]
    /\ \A k \in 1 .. l : h[k] = Cut(pool, h[k - 1], k)

LEMMA CutType ==
    ASSUME NEW pool, NEW acc \in CutStates(pool), NEW k \in Int, FamilySize(pool[k]) \in Int
    PROVE  Cut(pool, acc, k) \in CutStates(pool)
<1>. DEFINE next == k + FamilySize(pool[k])
            piece == FamilyAt(pool, k)
<1>1. next \in Int /\ piece \in Pieces(pool)
    BY DEF Pieces
<1>2. acc.families \in Seq(Pieces(pool))
    BY DEF CutStates
<1>3. Append(acc.families, piece) \in Seq(Pieces(pool))
    BY <1>1, <1>2, AppendProperties
<1>4. [next |-> next, families |-> Append(acc.families, piece)] \in CutStates(pool)
    BY <1>1, <1>3 DEF CutStates
<1>. QED
    BY <1>4 DEF Cut

(* The cut of one more family. *)
LEMMA FamilyCuts ==
    ASSUME NEW pool, Len(pool) \in Nat,
           \A k \in 1 .. Len(pool) : FamilySize(pool[k]) \in Int
    PROVE  \E h : Cuts(h, pool, Len(pool)) /\ Families(pool) = h[Len(pool)].families
<1>. DEFINE n == Len(pool)
            q == [k \in 1 .. n |-> k]
            T == CutStates(pool)
            base == [next |-> 1, families |-> <<>>]
            turn(k, x) == Cut(pool, x, k)
            step == [k \in 1 .. n |-> [x \in T |-> turn(k, x)]]
            Def(a) == [s \in SUBSET (1 .. n) |->
                          IF s = {} THEN base ELSE turn(q[Max(s)], a[s \ {Max(s)}])]
<1>1. base \in T
    BY EmptySeq DEF CutStates
<1>2. Listed(q, n, 1 .. n)
    BY DEF Listed
<1>3. Turns(step, 1 .. n, T)
  <2>1. \A k \in 1 .. n, x \in T : turn(k, x) \in T
      BY CutType
  <2>. HIDE DEF T, turn
  <2>. QED
      BY <2>1 DEF Turns
<1>4. Families(pool) = (CHOOSE a : a = Def(a))[1 .. n].families
  <2>1. DOMAIN [k \in 1 .. Len(pool) |-> k] = 1 .. Len(pool)
      OBVIOUS
  <2>. QED
      BY <2>1 DEF Families, FoldLeft, MapThenFoldSet, Cut
<1>. HIDE DEF n, T, base, turn, q
<1>5. PICK f : FoldOfPlaces(f, n, q, T, base, step)
  <2>1. n \in Nat
      BY DEF n
  <2>. HIDE DEF step
  <2>. QED
      BY <1>1, <1>2, <1>3, <2>1, FoldOverPlaces
<1>6. f = Def(f)
  <2>0. /\ f \in [SUBSET (1 .. n) -> T] /\ f[{}] = base
        /\ \A s \in SUBSET (1 .. n) : s # {} => f[s] = step[q[Max(s)]][f[s \ {Max(s)}]]
      BY <1>5 DEF FoldOfPlaces
  <2>1. \A s \in SUBSET (1 .. n) : s # {} => Max(s) \in 1 .. n
      BY Greatest DEF n
  <2>2. \A s \in SUBSET (1 .. n) : s # {} => q[Max(s)] \in 1 .. n /\ f[s \ {Max(s)}] \in T
      BY <1>2, <2>0, <2>1 DEF Listed
  <2>. QED
      BY <2>0, <2>2
<1>. DEFINE a == CHOOSE a : a = Def(a)
<1>7. a = Def(a)
    BY <1>6
<1>. HIDE DEF a
<1>8. a[{}] = base
    BY <1>7
<1>9. ASSUME NEW k \in 1 .. n, a[1 .. k - 1] \in T
      PROVE  a[1 .. k] = step[q[k]][a[1 .. k - 1]]
  <2>1. /\ 1 .. k \in SUBSET (1 .. n) /\ 1 .. k # {}
        /\ Max(1 .. k) = k /\ (1 .. k) \ {k} = 1 .. k - 1
      BY Initial DEF n
  <2>2. a[1 .. k] = turn(q[k], a[1 .. k - 1])
      BY <1>7, <2>1
  <2>3. q[k] \in 1 .. n
      BY <1>2 DEF Listed
  <2>. QED
      BY <1>9, <2>2, <2>3
<1>10. Unfolds(a, n, q, T, base, step)
    BY <1>8, <1>9 DEF Unfolds
<1>11. PICK g : LeftFold(g, n, q, T, base, step) /\ g[n] = a[1 .. n]
  <2>1. n \in Nat
      BY DEF n
  <2>. HIDE DEF step
  <2>. QED
      BY <1>1, <1>2, <1>3, <1>10, <2>1, FoldOverPrefixes
<1>12. Cuts(g, pool, n)
  <2>1. /\ g \in [0 .. n -> T] /\ g[0] = base
        /\ \A k \in 1 .. n : g[k] = step[q[k]][g[k - 1]]
      BY <1>11 DEF LeftFold
  <2>2. \A k \in 1 .. n : q[k] \in 1 .. n /\ q[k] = k /\ g[k - 1] \in T
      BY <1>2, <2>1 DEF Listed, q, n
  <2>3. \A k \in 1 .. n : g[k] = turn(k, g[k - 1])
      BY <2>1, <2>2
  <2>. QED
      BY <2>1, <2>3 DEF Cuts, T, base, turn
<1>. QED
    BY <1>4, <1>11, <1>12 DEF a, n

(* FamilySize recognises every family: the pool is cut where it was laid. *)
LEMMA FamiliesAre ==
    ASSUME Instance(tables), SameInstance(tables, tables_g),
           NEW n \in Nat, NEW fs, \A k \in 1 .. n : Proper(tables, fs[k]),
           NEW pool, NEW pos, Laid(pool, fs, n, pos)
    PROVE  /\ Families(Priced(pool)) \in Seq({Family(fs[k]) : k \in 1 .. n})
           /\ Len(Families(Priced(pool))) = n
           /\ \A k \in 1 .. n : Families(Priced(pool))[k] = Family(fs[k])
<1>. DEFINE p == Priced(pool)
            l == pos[n]
            E == {Family(fs[k]) : k \in 1 .. n}
<1>1. /\ \A k \in 0 .. n : pos[k] \in Nat /\ pos[k] <= pos[n] /\ (k # n => pos[k] < pos[n])
      /\ \A k \in 1 .. n : /\ pos[k] = pos[k - 1] + Wide(fs[k])
                           /\ Wide(fs[k]) \in Nat /\ Wide(fs[k]) >= 2
                           /\ pos[k - 1] \in Nat /\ pos[k] \in Nat
                           /\ pos[k - 1] < pos[k] /\ pos[k] <= pos[n]
      /\ n \in 0 .. n /\ 0 \in 0 .. n /\ pos[0] = 0
  <2>1. \A k \in 1 .. n : Wide(fs[k]) \in Nat /\ Wide(fs[k]) >= 2
      BY CountFree
  <2>2. pos[0] = 0
      BY DEF Laid
  <2>3. n \in 0 .. n /\ 0 \in 0 .. n
      OBVIOUS
  <2>. HIDE DEF l, p, E
  <2>. QED
      BY <2>1, <2>2, <2>3, LaidGrows
<1>2. /\ DOMAIN p = 1 .. l
      /\ \A k \in 1 .. n : \A i \in 1 .. Wide(fs[k]) : p[pos[k - 1] + i] = PricedEntry(fs[k], i)
    BY PricedLaid
<1>3. l \in Nat
    BY <1>1
<1>4. Len(p) = l
  <2>1. p = [k \in 1 .. Len(pool) |-> [pool[k] EXCEPT !.problem.couts_somme = Bounds(pool)[k]]]
      BY DEF Priced
  <2>2. Len(pool) = l
      BY DEF Laid
  <2>. DEFINE V == {p[k] : k \in 1 .. l}
  <2>3. p \in [1 .. l -> V]
      BY <2>1, <2>2
  <2>. HIDE DEF p, l, V
  <2>4. p \in Seq(V)
      BY <1>3, <2>3, SeqDef
  <2>5. DOMAIN p = 1 .. Len(p) /\ Len(p) \in Nat
      BY <2>4, LenProperties
  <2>. QED
      BY <1>2, <1>3, <2>5
<1>. HIDE DEF p
<1>5. \A k \in 1 .. n : \A i \in 1 .. Wide(fs[k]) : FamilySize(p[pos[k - 1] + i]) = Wide(fs[k])
    BY <1>2, EntryProblem
<1>6. \A k \in 1 .. l : FamilySize(p[k]) \in Int
  <2>. SUFFICES ASSUME NEW k \in 1 .. l PROVE FamilySize(p[k]) \in Int
      OBVIOUS
  <2>1. Len(pool) = l /\ pool \in Seq(Entries)
      BY DEF Laid
  <2>2. p[k] = [pool[k] EXCEPT !.problem.couts_somme = Bounds(pool)[k]]
      BY <2>1 DEF p, Priced
  <2>3. pool[k] \in Entries
      BY <2>1, ElementOfSeq
  <2>4. p[k].problem.depth = pool[k].problem.depth
      BY <2>2, <2>3 DEF Entries, Record
  <2>5. pool[k].problem.depth \in Int
      BY <2>3 DEF Entries, Record
  <2>. QED
      BY <2>4, <2>5, SizeFacts DEF FamilySize
<1>7. PICK h : Cuts(h, p, l) /\ Families(p) = h[l].families
    BY <1>3, <1>4, <1>6, FamilyCuts
<1>8. /\ h[0] = [next |-> 1, families |-> <<>>]
      /\ \A m \in 1 .. l : h[m] = Cut(p, h[m - 1], m)
    BY <1>7 DEF Cuts
<1>9. \A k \in 0 .. n - 1 : /\ FamilySize(p[pos[k] + 1]) = Wide(fs[k + 1])
                            /\ FamilyAt(p, pos[k] + 1) = Family(fs[k + 1])
  <2>. SUFFICES ASSUME NEW k \in 0 .. n - 1
                PROVE  /\ FamilySize(p[pos[k] + 1]) = Wide(fs[k + 1])
                       /\ FamilyAt(p, pos[k] + 1) = Family(fs[k + 1])
      OBVIOUS
  <2>. DEFINE f == fs[k + 1]
              w == Wide(f)
              a == pos[k]
              V == {PricedEntry(f, i) : i \in 1 .. w}
              sub == SubSeq(p, a + 1, a + w)
  <2>1. k + 1 \in 1 .. n /\ (k + 1) - 1 = k
      BY <1>3
  <2>2. /\ w \in Nat /\ w >= 2 /\ a \in Nat
        /\ \A i \in 1 .. w : p[a + i] = PricedEntry(f, i) /\ FamilySize(p[a + i]) = w
      BY <1>1, <1>2, <1>5, <2>1
  <2>3. FamilySize(p[a + 1]) = w
      BY <2>2
  <2>4. FamilyAt(p, a + 1) = sub
    <3>1. (a + 1) + w - 1 = a + w
        BY <2>2
    <3>2. FamilyAt(p, a + 1) = SubSeq(p, a + 1, (a + 1) + w - 1)
        BY <2>3 DEF FamilyAt
    <3>. HIDE DEF w, a
    <3>. QED
        BY <3>1, <3>2
  <2>5. Family(f) = [i \in 1 .. w |-> PricedEntry(f, i)]
      BY DEF Family
  <2>. HIDE DEF w, a, f
  <2>6. \A i \in a + 1 .. a + w : p[i] \in V
    <3>. SUFFICES ASSUME NEW i \in a + 1 .. a + w PROVE p[i] \in V
        OBVIOUS
    <3>1. i - a \in 1 .. w /\ a + (i - a) = i
        BY <2>2
    <3>2. p[i] = PricedEntry(f, i - a)
        BY <2>2, <3>1
    <3>. QED
        BY <3>1, <3>2
  <2>. HIDE DEF V
  <2>7. sub \in Seq(V) /\ Len(sub) = w /\ \A i \in 1 .. w : sub[i] = p[a + i]
    <3>1. a + 1 \in Int /\ a + w \in Int /\ a + 1 <= a + w /\ (a + w) - (a + 1) + 1 = w
          /\ \A i \in 1 .. w : (a + 1) + i - 1 = a + i
        BY <2>2
    <3>2. /\ sub \in Seq(V)
          /\ Len(sub) = IF a + 1 <= a + w THEN (a + w) - (a + 1) + 1 ELSE 0
          /\ \A i \in 1 .. (a + w) - (a + 1) + 1 : sub[i] = p[(a + 1) + i - 1]
        BY <2>6, <3>1, SubSeqProperties
    <3>. HIDE DEF sub
    <3>. QED
        BY <3>1, <3>2
  <2>. HIDE DEF sub
  <2>8. sub \in [1 .. w -> V] /\ \A i \in 1 .. w : sub[i] = PricedEntry(f, i)
      BY <2>2, <2>7, LenProperties
  <2>9. sub = Family(f)
      BY <2>5, <2>8
  <2>. QED
      BY <2>3, <2>4, <2>9 DEF a, f, w
<1>. DEFINE At(j, k) ==
               /\ h[j].next = pos[k] + 1 /\ j <= pos[k]
               /\ k > 0 => pos[k - 1] < j
               /\ k = 0 => j = 0
               /\ h[j].families \in Seq(E) /\ Len(h[j].families) = k
               /\ \A i \in 1 .. k : h[j].families[i] = Family(fs[i])
            S == {j \in 0 .. l : \E k \in 0 .. n : At(j, k)}
<1>10. 0 \in S
  <2>1. At(0, 0)
    <3>1. <<>> \in Seq(E) /\ Len(<<>>) = 0
        BY EmptySeq
    <3>. HIDE DEF E
    <3>. QED
        BY <1>1, <1>8, <3>1
  <2>2. 0 \in 0 .. n /\ 0 \in 0 .. l
      BY <1>1, <1>3
  <2>. HIDE DEF At, l
  <2>. QED
      BY <2>1, <2>2
<1>11. ASSUME NEW m \in 1 .. l, m - 1 \in S PROVE m \in S
  <2>1. PICK k \in 0 .. n : At(m - 1, k)
      BY <1>11
  <2>2. h[m] = IF m < h[m - 1].next THEN h[m - 1]
               ELSE [next |-> m + FamilySize(p[m]),
                     families |-> Append(h[m - 1].families, FamilyAt(p, m))]
      BY <1>8 DEF Cut
  <2>3. pos[k] \in Nat /\ h[m - 1].next = pos[k] + 1 /\ m \in Nat /\ m >= 1 /\ m <= l
        /\ m - 1 <= pos[k]
      BY <1>1, <1>3, <2>1
  <2>4. CASE m <= pos[k]
    <3>1. h[m] = h[m - 1]
        BY <2>2, <2>3, <2>4
    <3>2. k # 0
        BY <1>1, <2>3, <2>4
    <3>3. k > 0 => pos[k - 1] < m
      <4>1. k > 0 => pos[k - 1] \in Nat /\ pos[k - 1] < m - 1
          BY <1>1, <2>1
      <4>. QED
          BY <2>3, <4>1
    <3>4. At(m, k)
        BY <2>1, <2>4, <3>1, <3>2, <3>3
    <3>5. m \in 0 .. l
        BY <2>3
    <3>. HIDE DEF At, l
    <3>. QED
        BY <3>4, <3>5
  <2>5. CASE ~(m <= pos[k])
    <3>1. m = pos[k] + 1 /\ k # n /\ k + 1 \in 0 .. n /\ k \in 0 .. n - 1 /\ k + 1 \in 1 .. n
          /\ (k + 1) - 1 = k
      <4>1. m = pos[k] + 1
          BY <2>3, <2>5
      <4>2. k # n
          BY <2>3, <4>1
      <4>. QED
          BY <4>1, <4>2
    <3>. DEFINE d == k + 1
                x == Family(fs[d])
    <3>2. FamilySize(p[m]) = Wide(fs[d]) /\ FamilyAt(p, m) = x /\ x \in E
        BY <1>9, <3>1
    <3>3. h[m] = [next |-> m + Wide(fs[d]), families |-> Append(h[m - 1].families, x)]
      <4>1. ~(m < h[m - 1].next)
          BY <2>3, <3>1
      <4>2. h[m] = [next |-> m + FamilySize(p[m]), families |-> Append(h[m - 1].families, FamilyAt(p, m))]
          BY <2>2, <4>1
      <4>3. FamilySize(p[m]) = Wide(fs[d]) /\ FamilyAt(p, m) = x
          BY <3>2
      <4>. HIDE DEF d, x
      <4>. QED
          BY <4>2, <4>3
    <3>4. pos[d] = pos[k] + Wide(fs[d]) /\ Wide(fs[d]) \in Nat /\ Wide(fs[d]) >= 2 /\ pos[d] \in Nat
        BY <1>1, <3>1
    <3>. HIDE DEF x, d
    <3>5. h[m - 1].families \in Seq(E) /\ Len(h[m - 1].families) = k
          /\ \A i \in 1 .. k : h[m - 1].families[i] = Family(fs[i])
        BY <2>1
    <3>6. /\ h[m].families \in Seq(E) /\ Len(h[m].families) = k + 1
          /\ \A i \in 1 .. k : h[m].families[i] = h[m - 1].families[i]
          /\ h[m].families[k + 1] = x
      <4>. HIDE DEF E
      <4>. QED
          BY <3>2, <3>3, <3>5, AppendProperties
    <3>7. \A i \in 1 .. d : h[m].families[i] = Family(fs[i])
      <4>1. \A i \in 1 .. d : i \in 1 .. k \/ i = d
          BY <3>1 DEF d
      <4>. QED
          BY <3>5, <3>6, <4>1 DEF d, x
    <3>8. h[m].next = pos[d] + 1 /\ m <= pos[d]
        BY SMTT(30), <2>3, <3>1, <3>3, <3>4
    <3>9. d # 0 /\ pos[d - 1] < m
        BY <2>3, <3>1 DEF d
    <3>10. At(m, d)
        BY <3>6, <3>7, <3>8, <3>9 DEF d
    <3>11. d \in 0 .. n
        BY <3>1 DEF d
    <3>12. m \in 0 .. l
        BY <2>3
    <3>. HIDE DEF At, l
    <3>. QED
        BY <3>10, <3>11, <3>12
  <2>. QED
      BY <2>4, <2>5
<1>12. l \in S
  <2>. HIDE DEF S, l
  <2>. QED
      BY <1>3, <1>10, <1>11, UpTo
<1>13. PICK k \in 0 .. n : At(l, k)
    BY <1>12
<1>14. k = n
    BY <1>1, <1>13
<1>. QED
    BY <1>7, <1>13, <1>14 DEF p

-----------------------------------------------------------------------------
(* Pruning a pool, family after family.                                    *)
InTurn(q, base) == FoldLeft(FamilyPruned, base, q)

PrunedBy(g, n, fs, X, base) ==
    /\ g \in [0 .. n -> Accounts(X)] /\ g[0] = base
    /\ \A k \in 1 .. n : g[k] = FamilyPruned(g[k - 1], Family(fs[k]))

(* The fold over the families, family by family. *)
LEMMA PrunedSteps ==
    ASSUME Admits(tables), Suits(tables), NEW n \in Nat, NEW fs,
           \A k \in 1 .. n : Proper(tables, fs[k]),
           NEW X, \A k \in 1 .. n : Kids(fs[k]) \subseteq X, NEW base \in Accounts(X),
           NEW q \in [1 .. n -> {Family(fs[k]) : k \in 1 .. n}],
           \A k \in 1 .. n : q[k] = Family(fs[k])
    PROVE  \E g : PrunedBy(g, n, fs, X, base) /\ InTurn(q, base) = g[n]
<1>. DEFINE E == {Family(fs[k]) : k \in 1 .. n}
            T == Accounts(X)
            turn(f, x) == FamilyPruned(x, f)
            step == [f \in E |-> [x \in T |-> turn(f, x)]]
            Def(a) == [s \in SUBSET (1 .. n) |->
                          IF s = {} THEN base ELSE turn(q[Max(s)], a[s \ {Max(s)}])]
<1>1. base \in T
    OBVIOUS
<1>2. Listed(q, n, E)
    BY DEF Listed
<1>3. Turns(step, E, T)
  <2>1. \A f \in E, x \in T : turn(f, x) \in T
      BY FamilyTyped
  <2>. HIDE DEF T, turn, E
  <2>. QED
      BY <2>1 DEF Turns
<1>4. InTurn(q, base) = (CHOOSE a : a = Def(a))[1 .. n]
  <2>1. DOMAIN q = 1 .. n
      OBVIOUS
  <2>. QED
      BY <2>1 DEF InTurn, FoldLeft, MapThenFoldSet
<1>. HIDE DEF T, turn, E
<1>5. PICK f : FoldOfPlaces(f, n, q, T, base, step)
  <2>. HIDE DEF step
  <2>. QED
      BY <1>1, <1>2, <1>3, FoldOverPlaces
<1>6. f = Def(f)
  <2>0. /\ f \in [SUBSET (1 .. n) -> T] /\ f[{}] = base
        /\ \A s \in SUBSET (1 .. n) : s # {} => f[s] = step[q[Max(s)]][f[s \ {Max(s)}]]
      BY <1>5 DEF FoldOfPlaces
  <2>1. \A s \in SUBSET (1 .. n) : s # {} => Max(s) \in 1 .. n
      BY Greatest
  <2>2. \A s \in SUBSET (1 .. n) : s # {} => q[Max(s)] \in E /\ f[s \ {Max(s)}] \in T
      BY <1>2, <2>0, <2>1 DEF Listed
  <2>. QED
      BY <2>0, <2>2
<1>. DEFINE a == CHOOSE a : a = Def(a)
<1>7. a = Def(a)
    BY <1>6
<1>. HIDE DEF a
<1>8. a[{}] = base
    BY <1>7
<1>9. ASSUME NEW k \in 1 .. n, a[1 .. k - 1] \in T
      PROVE  a[1 .. k] = step[q[k]][a[1 .. k - 1]]
  <2>1. /\ 1 .. k \in SUBSET (1 .. n) /\ 1 .. k # {}
        /\ Max(1 .. k) = k /\ (1 .. k) \ {k} = 1 .. k - 1
      BY Initial
  <2>2. a[1 .. k] = turn(q[k], a[1 .. k - 1])
      BY <1>7, <2>1
  <2>3. q[k] \in E
      BY <1>2 DEF Listed
  <2>. QED
      BY <1>9, <2>2, <2>3
<1>10. Unfolds(a, n, q, T, base, step)
    BY <1>8, <1>9 DEF Unfolds
<1>11. PICK g : LeftFold(g, n, q, T, base, step) /\ g[n] = a[1 .. n]
  <2>. HIDE DEF step
  <2>. QED
      BY <1>1, <1>2, <1>3, <1>10, FoldOverPrefixes
<1>12. PrunedBy(g, n, fs, X, base)
  <2>1. /\ g \in [0 .. n -> T] /\ g[0] = base
        /\ \A k \in 1 .. n : g[k] = step[q[k]][g[k - 1]]
      BY <1>11 DEF LeftFold
  <2>2. \A k \in 1 .. n : q[k] \in E /\ g[k - 1] \in T
      BY <1>2, <2>1 DEF Listed
  <2>3. \A k \in 1 .. n : g[k] = turn(q[k], g[k - 1])
      BY <2>1, <2>2
  <2>. QED
      BY <2>1, <2>3 DEF PrunedBy, T, turn
<1>. QED
    BY <1>4, <1>11, <1>12 DEF a

(* The different members of D, one by one. *)
EachOnce(fs, n, D) ==
    /\ fs \in [1 .. n -> D] /\ \A f \in D : \E k \in 1 .. n : fs[k] = f
    /\ \A k, m \in 1 .. n : fs[k] = fs[m] => k = m

(* The fathers whose children are in a pool. *)
Fathered(pool, D) == \E n \in Nat : \E fs, pos : EachOnce(fs, n, D) /\ Laid(pool, fs, n, pos)

(* A pool that is pruned leaves what is kept of every family in it. *)
LEMMA PoolPruned ==
    ASSUME Instance(tables), SameInstance(tables, tables_g), NEW pool, NEW D, Fathered(pool, D),
           NEW cpu, NEW acc, acc = [wsltns |-> acc.wsltns, cout |-> acc.cout,
                                    tree |-> acc.tree, explored |-> acc.explored],
           NEW R, D \subseteq R, NEW aw, Whole(tables, cpu, acc, R, aw)
    PROVE  Whole(tables, cpu, InTurn(Families(Priced(pool)), acc), R \ D, aw)
<1>0. PICK n \in Nat : \E fs, pos : EachOnce(fs, n, D) /\ Laid(pool, fs, n, pos)
    BY DEF Fathered
<1>1. PICK fs, pos : EachOnce(fs, n, D) /\ Laid(pool, fs, n, pos)
    BY <1>0
<1>2. \A k \in 1 .. n : fs[k] \in D /\ fs[k] \in R /\ Proper(tables, fs[k])
    BY <1>1 DEF EachOnce, Whole, Held
<1>. DEFINE q == Families(Priced(pool))
            X == acc.tree \cup UNION {Kids(fs[k]) : k \in 1 .. n}
            out(k) == {fs[m] : m \in 1 .. k}
<1>3. /\ q \in Seq({Family(fs[k]) : k \in 1 .. n})
      /\ Len(q) = n /\ \A k \in 1 .. n : q[k] = Family(fs[k])
    BY <1>1, <1>2, FamiliesAre
<1>4. q \in [1 .. n -> {Family(fs[k]) : k \in 1 .. n}]
  <2>. HIDE DEF q
  <2>. QED
      BY <1>3, LenProperties
<1>5. acc \in Accounts(X)
  <2>1. acc.wsltns \in SUBSET Nat /\ acc.cout \in Nat /\ acc.explored \in Nat
      BY DEF Whole, Costs
  <2>2. acc.tree \in SUBSET X
      OBVIOUS
  <2>. HIDE DEF X
  <2>. QED
      BY <2>1, <2>2 DEF Accounts
<1>6. \A k \in 1 .. n : Kids(fs[k]) \subseteq X
    OBVIOUS
<1>7. Admits(tables) /\ Suits(tables)
    BY DEF Instance
<1>. HIDE DEF q, X
<1>8. PICK g : PrunedBy(g, n, fs, X, acc) /\ InTurn(q, acc) = g[n]
  <2>1. \A k \in 1 .. n : Proper(tables, fs[k])
      BY <1>2
  <2>2. \A k \in 1 .. n : q[k] = Family(fs[k])
      BY <1>3
  <2>. QED
      BY <1>4, <1>5, <1>6, <1>7, <2>1, <2>2, PrunedSteps
<1>. DEFINE S == {k \in 0 .. n : Whole(tables, cpu, g[k], R \ out(k), aw)}
<1>9. 0 \in S
  <2>1. R \ out(0) = R
      OBVIOUS
  <2>2. g[0] = acc
      BY <1>8 DEF PrunedBy
  <2>3. 0 \in 0 .. n
      OBVIOUS
  <2>. HIDE DEF out
  <2>4. Whole(tables, cpu, g[0], R \ out(0), aw)
      BY <2>1, <2>2
  <2>. QED
      BY <2>3, <2>4
<1>10. ASSUME NEW k \in 1 .. n, k - 1 \in S PROVE k \in S
  <2>1. fs[k] \notin out(k - 1) /\ out(k) = out(k - 1) \cup {fs[k]}
      BY <1>1 DEF EachOnce
  <2>2. fs[k] \in R \ out(k - 1) /\ (R \ out(k - 1)) \ {fs[k]} = R \ out(k)
      BY <1>2, <2>1
  <2>3. /\ g[k - 1] \in Accounts(X) /\ g[k] = FamilyPruned(g[k - 1], Family(fs[k]))
      BY <1>8 DEF PrunedBy
  <2>4. Whole(tables, cpu, g[k - 1], R \ out(k - 1), aw)
      BY <1>10
  <2>. HIDE DEF out
  <2>5. Whole(tables, cpu, g[k], R \ out(k), aw)
      BY <1>6, <1>7, <2>2, <2>3, <2>4, FamilyDone
  <2>. QED
      BY <2>5
<1>11. n \in S
  <2>. HIDE DEF S
  <2>. QED
      BY <1>9, <1>10, UpTo
<1>12. out(n) = D
    BY <1>1 DEF EachOnce
<1>. HIDE DEF out
<1>. QED
    BY <1>8, <1>11, <1>12 DEF q

-----------------------------------------------------------------------------
(* The state of the explorer.                                              *)
Now == [wsltns |-> wsltns, cout |-> cout, tree |-> tree, explored |-> explored_leaves]
Collected(f) == {f[k] : k \in DOMAIN f}
Pools == [k \in 1 .. Waits |-> Pool(k)]

(* D[k] are the fathers of the k-th pool. *)
Under(f, D) == Collected(f) \cup UNION {D[k] : k \in DOMAIN D}

(* Collected in the order of the tree, each once. *)
Gathered(f) ==
    /\ f \in Seq(Collected(f))
    /\ \A k, m \in 1 .. Len(f) : f[k] = f[m] => k = m
    /\ Deepening(f, Len(f))

Underway(ps, D, f) ==
    /\ DOMAIN D = DOMAIN ps
    /\ \A k \in DOMAIN ps : Fathered(ps[k], D[k])
    /\ \A k, m \in DOMAIN ps : k # m => D[k] \cap D[m] = {}
    /\ \A k \in DOMAIN ps : D[k] \cap Collected(f) = {}

(* What was taken came off the top of the tree. *)
Foremost(R, tr) == \A p \in R, q \in tr : Deeper(p, q) /\ p.depth >= q.depth

Copied == \E tempsJob \in Instances : /\ tables \in initialiserVar(tempsJob)
                                      /\ tables_g = initialiserVar_g(tempsJob)

Located(D) ==
    /\ Underway(Pools, D, fathers)
    /\ Whole(tables, cpu_explored_leaves, Now, Under(fathers, D), away)
    /\ pc \in {"turn", "collect", "send"} => Foremost(Under(fathers, D), tree)

GpuInv ==
    /\ RingInv
    /\ Copied
    /\ strategy = "d"
    /\ pc \in {"packets", "turn", "collect", "send", "process"}
    /\ stream \subseteq Slot
    /\ pc \notin {"collect", "send"} => fathers = <<>>
    /\ pc = "packets" => readyPoolToGPU = <<>>
    /\ Gathered(fathers)
    /\ \E D : Located(D)

(* What the hypotheses give of the tables that a run starts with. *)
LEMMA Copies ==
    ASSUME Suited, Copied
    PROVE  /\ Instance(tables) /\ SameInstance(tables, tables_g) /\ Admits(tables)
           /\ \A s \in Schedule : criteres_calculer(tables, s) \in Nat /\ criteres_calculer(tables, s) <= costv
<1>1. PICK tempsJob \in Instances : /\ tables \in initialiserVar(tempsJob)
                                    /\ tables_g = initialiserVar_g(tempsJob)
    BY DEF Copied
<1>2. tempsJob \in Times
    BY InstanceAssumption DEF Times
<1>3. SameInstance(tables, tables_g)
    BY <1>1, <1>2, DeviceTables, SameTables
<1>4. Tables(tables) /\ Admits(tables)
    BY <1>1, RunTables
<1>6. Bytes(tables) /\ Suits(tables)
    BY <1>1 DEF Suited
<1>7. costv \in Nat
    BY InstanceAssumption
<1>8. \A s \in Schedule : criteres_calculer(tables, s) \in Nat /\ criteres_calculer(tables, s) <= costv
    BY <1>4, <1>6, <1>7 DEF Suits, Admits
<1>. QED
    BY <1>3, <1>4, <1>6, <1>8 DEF Instance

(* Without pools and without fathers nothing is under way. *)
LEMMA NoneUnder ==
    ASSUME NEW D, readyPoolToGPU = <<>>, fathers = <<>>, Underway(Pools, D, fathers)
    PROVE  Under(fathers, D) = {}
<1>1. Waits = 0
    BY EmptySeq DEF Waits
<1>2. DOMAIN D = {} /\ DOMAIN fathers = {}
    BY <1>1 DEF Underway, Pools
<1>. QED
    BY <1>2 DEF Under, Collected

(* A record with the same fields. *)
LEMMA WholeSame ==
    ASSUME NEW t, NEW cpu, NEW a, NEW R, NEW aw, Whole(t, cpu, a, R, aw),
           NEW b, b.tree = a.tree, b.wsltns = a.wsltns, b.cout = a.cout, b.explored = a.explored
    PROVE  Whole(t, cpu, b, R, aw)
<1>1. Held(b, R, aw) = Held(a, R, aw)
    BY DEF Held
<1>. QED
    BY <1>1 DEF Whole

-----------------------------------------------------------------------------
(* The root is open, and nothing else. *)
LEMMA InitGpuInv ==
    ASSUME Suited, GpuInit
    PROVE  GpuInv
<1>1. /\ Init /\ away = {} /\ pc = "packets" /\ fathers = <<>> /\ stream = {}
      /\ readyPoolToGPU = <<>> /\ explored_leaves = 0 /\ tables_g = initialiserVar_g(tables.tempsJob)
    BY DEF GpuInit
<1>2. /\ strategy = "d" /\ tree = {Root} /\ wsltns = {} /\ cout = costv
      /\ cpu_explored_leaves = 0
    BY <1>1 DEF Init, Suited
<1>3. Copied
  <2>1. PICK tempsJob \in Instances : tables \in initialiserVar(tempsJob)
      BY <1>1 DEF Init
  <2>2. tables.tempsJob = tempsJob
      BY <2>1 DEF initialiserVar
  <2>. QED
      BY <1>1, <2>1, <2>2 DEF Copied
<1>4. Gathered(fathers)
  <2>1. fathers = <<>> /\ Len(fathers) = 0 /\ fathers \in Seq({})
      BY <1>1, EmptySeq
  <2>2. Collected(fathers) = {}
      BY <1>1 DEF Collected
  <2>. QED
      BY <2>1, <2>2 DEF Gathered, Deepening
<1>. DEFINE D == [k \in 1 .. Waits |-> {}]
<1>5. Waits = 0
    BY <1>1, EmptySeq DEF Waits
<1>6. Underway(Pools, D, fathers)
    BY <1>5 DEF Underway, Pools
<1>7. Under(fathers, D) = {}
    BY <1>1, <1>6, NoneUnder
<1>8. Whole(tables, cpu_explored_leaves, Now, {}, away)
  <2>1. LevelInv /\ CostInv /\ Counted
      BY <1>1, LevelInvInit, CostInvInit, CountedInit
  <2>2. Held(Now, {}, away) = tree /\ Now.tree = tree /\ Now.wsltns = wsltns /\ Now.cout = cout
        /\ Now.explored = 0
      BY <1>1 DEF Held, Now
  <2>3. /\ Root.couts_somme = 0 /\ Root.depth = 0 /\ Root.ranks \in [0 .. Size -> Nat]
        /\ WellFormed(Root) /\ ~leaf(Root) /\ Root.limite1 = -1 /\ Root.limite2 = Size
      BY RootWellFormed DEF Root
  <2>4. Admits(tables)
      BY <1>3, Copies
  <2>5. Proper(tables, Root)
    <3>1. \A s \in Schedule : 0 <= criteres_calculer(tables, s)
        BY <2>4 DEF Admits
    <3>. QED
        BY <2>3, <3>1 DEF Proper
  <2>6. \A s \in Schedule : Completes(s, Root)
      BY <2>3, SizeFacts DEF Completes
  <2>7. InDepth(tree, {}) /\ InDepth({}, {}) /\ AllApart(tree)
    <3>1. Reach(Root, {}) = 0
        BY <2>3 DEF Reach
    <3>. QED
        BY <1>2, <3>1 DEF InDepth, AllApart
  <2>8. Costs(wsltns, cout)
    <3>1. costv \in Nat
        BY InstanceAssumption
    <3>. QED
        BY <1>2, <3>1 DEF Costs
  <2>9. cpu_explored_leaves + Weight(tree) = weights[0] /\ weights[0] \in Nat
      BY <2>1, CountedIs, WeightFacts, SizeFacts DEF Counted
  <2>10. 0 + cpu_explored_leaves + Weight(tree) = weights[0]
      BY <1>2, <2>9
  <2>11. IsFiniteSet(tree)
      BY <1>2, FS_Singleton
  <2>12. /\ \A p \in tree : Proper(tables, p)
         /\ \A s \in Schedule : \E p \in tree : Completes(s, p)
      BY <1>2, <2>5, <2>6
  <2>13. InDepth(away, {})
      BY <1>1, <2>7
  <2>14. Now.explored \in Nat /\ cpu_explored_leaves \in Nat
         /\ Now.explored + cpu_explored_leaves + Weight(tree) = weights[0]
      BY <1>2, <2>2, <2>10
  <2>15. away = {}
      BY <1>1
  <2>. QED
      BY ONLY <2>2, <2>7, <2>8, <2>11, <2>12, <2>13, <2>14, <2>15 DEF Whole
<1>9. Located(D)
    BY <1>1, <1>6, <1>7, <1>8 DEF Located
<1>10. RingInv
    BY InitRing
<1>. HIDE DEF D
<1>. QED
    BY <1>1, <1>2, <1>3, <1>4, <1>9, <1>10 DEF GpuInv

(* Only where the explorer is changes. *)
LEMMA MovesOn ==
    ASSUME GpuInv, StartTurn \/ Turn \/ EndTurn \/ UNCHANGED gpuVars, Suited, RingInv'
    PROVE  GpuInv'
<1>1. PICK D : Located(D)
    BY DEF GpuInv
<1>2. /\ UNCHANGED <<vars, fathers, tables_g, ring, explored_leaves, away>>
      /\ pc' \in {"packets", "turn", "collect", "process"}  \/ pc' = pc
      /\ pc \notin {"collect", "send"} \/ pc' = pc
      /\ pc' = "packets" => readyPoolToGPU = <<>>
      /\ pc' \in {"turn", "collect", "send"} => pc = "packets" \/ pc \in {"turn", "collect", "send"}
    BY DEF StartTurn, Turn, EndTurn, gpuVars, GpuInv, Suited
<1>3. /\ Pools' = Pools /\ Now' = Now
      /\ UNCHANGED <<tables, cpu_explored_leaves, strategy, fathers, tree, away, stream, readyPoolToGPU, tables_g>>
    BY <1>2 DEF vars, ring, Pools, Pool, Waits, Now
<1>4. pc = "packets" => Under(fathers, D) = {}
    BY <1>1, NoneUnder DEF GpuInv, Located
<1>5. Located(D)'
  <2>1. pc' \in {"turn", "collect", "send"} => Foremost(Under(fathers, D), tree)
      BY <1>1, <1>2, <1>4 DEF Located, Foremost
  <2>. QED
      BY <1>1, <1>3, <2>1 DEF Located
<1>6. Copied' /\ Slot' = Slot
    BY <1>3 DEF Copied, GpuInv, Slot
<1>. QED
    BY <1>2, <1>3, <1>5, <1>6 DEF GpuInv

(* The first of the tree is collected. *)
LEMMA KeepOne ==
    ASSUME NEW t, NEW cpu, NEW acc, NEW R, NEW aw, Whole(t, cpu, acc, R, aw),
           NEW p \in acc.tree, \A q \in acc.tree \ {p} : Deeper(p, q), Foremost(R, acc.tree),
           NEW a, a.tree = acc.tree \ {p}, a.wsltns = acc.wsltns, a.cout = acc.cout,
           a.explored = acc.explored
    PROVE  Whole(t, cpu, a, R \cup {p}, aw) /\ Foremost(R \cup {p}, a.tree) /\ p \notin R
<1>. DEFINE H == Held(acc, R, aw)
            S == R \cup {p}
<1>1. Held(a, S, aw) = H /\ p \in H /\ acc.tree \subseteq H /\ R \subseteq H
    BY DEF Held
<1>2. /\ acc.tree \cap R = {} /\ acc.tree \cap aw = {} /\ R \cap aw = {}
      /\ InDepth(acc.tree, R) /\ AllApart(H) /\ \A q \in H : Proper(t, q)
    BY DEF Whole
<1>3. a.tree \cap S = {} /\ a.tree \cap aw = {} /\ S \cap aw = {} /\ p \notin R
    BY <1>2
<1>4. \A q \in H : q.depth \in Int /\ q.ranks \in [0 .. Size -> Nat]
  <2>1. ASSUME NEW q \in H PROVE q.depth \in Int /\ q.ranks \in [0 .. Size -> Nat]
    <3>1. Proper(t, q)
        BY <1>2
    <3>. QED
        BY <3>1, ProperFacts, SizeFacts
  <2>. QED
      BY <2>1
<1>. HIDE DEF H
<1>5. ASSUME NEW x \in H, Deeper(x, p), x # p PROVE ~Deeper(p, x)
  <2>1. PICK d \in 0 .. Size : FirstApart(x, p, d)
      BY <1>1, <1>2, <1>5 DEF AllApart
  <2>2. /\ Deeper(x, p) <=> x.ranks[d] < p.ranks[d]
        /\ Deeper(p, x) <=> p.ranks[d] < x.ranks[d]
      BY <1>1, <1>4, <2>1, DeeperAt
  <2>3. x.ranks[d] \in Nat /\ p.ranks[d] \in Nat
      BY <1>1, <1>4
  <2>. QED
      BY <1>5, <2>2, <2>3
<1>6. InDepth(a.tree, S)
  <2>. SUFFICES ASSUME NEW x \in a.tree \cup S, NEW y \in a.tree \cup S, Deeper(x, y)
                PROVE  Reach(x, S) >= Reach(y, S)
      BY DEF InDepth
  <2>1. x \in acc.tree \cup R /\ y \in acc.tree \cup R /\ x \in H /\ y \in H
      BY <1>1
  <2>2. Reach(x, R) >= Reach(y, R)
      BY <1>2, <2>1 DEF InDepth
  <2>3. /\ Reach(x, R) \in Int /\ Reach(x, S) \in Int /\ x.depth \in Int /\ y.depth \in Int
        /\ Reach(y, R) \in Int /\ Reach(y, S) \in Int /\ p.depth \in Int
      BY <1>1, <1>4, <2>1 DEF Reach
  <2>4. Reach(x, S) >= Reach(x, R)
      BY <2>3 DEF Reach
  <2>5. CASE y # p
    <3>1. Reach(y, S) = Reach(y, R)
        BY <2>5 DEF Reach
    <3>. QED
        BY <2>2, <2>3, <2>4, <3>1
  <2>6. CASE y = p /\ x = p
      BY <2>3, <2>6
  <2>7. CASE y = p /\ x # p
    <3>1. x \in R
      <4>1. x \notin acc.tree \ {p}
          BY <1>5, <2>1, <2>7
      <4>. QED
          BY <2>1, <2>7, <4>1
    <3>2. x.depth >= p.depth
        BY <3>1 DEF Foremost
    <3>3. Reach(x, S) = x.depth + 1 /\ Reach(y, S) = p.depth + 1
        BY <2>7, <3>1 DEF Reach
    <3>. QED
        BY <2>3, <3>2, <3>3
  <2>. QED
      BY <2>5, <2>6, <2>7
<1>7. Foremost(S, a.tree)
  <2>. SUFFICES ASSUME NEW x \in S, NEW y \in a.tree PROVE Deeper(x, y) /\ x.depth >= y.depth
      BY DEF Foremost
  <2>1. CASE x \in R
      BY <2>1 DEF Foremost
  <2>2. CASE x = p
    <3>1. Deeper(p, y)
        OBVIOUS
    <3>2. Reach(p, R) >= Reach(y, R)
        BY <1>2, <3>1 DEF InDepth
    <3>3. Reach(p, R) = p.depth /\ Reach(y, R) = y.depth
        BY <1>2, <1>3 DEF Reach
    <3>. QED
        BY <2>2, <3>1, <3>2, <3>3
  <2>. QED
      BY <2>1, <2>2
<1>8. Whole(t, cpu, a, S, aw)
  <2>1. Held(a, S, aw) = Held(acc, R, aw)
      BY <1>1 DEF H
  <2>. HIDE DEF S
  <2>. QED
      BY <1>3, <1>6, <2>1 DEF Whole
<1>. QED
    BY <1>3, <1>7, <1>8

(* What is collected next is no deeper and was not collected before. *)
LEMMA GatheredGrows ==
    ASSUME NEW f, Gathered(f), NEW p, p \notin Collected(f), p.depth \in Int,
           \A q \in Collected(f) : q.depth >= p.depth
    PROVE  Gathered(Append(f, p)) /\ Collected(Append(f, p)) = Collected(f) \cup {p}
<1>. DEFINE C == Collected(f)
            E == C \cup {p}
            n == Len(f)
            g == Append(f, p)
<1>1. f \in Seq(C) /\ n \in Nat /\ DOMAIN f = 1 .. n
  <2>1. f \in Seq(C)
      BY DEF Gathered
  <2>. HIDE DEF C
  <2>. QED
      BY <2>1, LenProperties
<1>2. \A k \in 1 .. n : f[k] \in C
    BY <1>1 DEF Collected
<1>3. f \in Seq(E)
  <2>. HIDE DEF C
  <2>. QED
      BY <1>1, SeqMonotonic
<1>4. /\ g \in Seq(E) /\ Len(g) = n + 1
      /\ \A k \in 1 .. n : g[k] = f[k]
      /\ g[n + 1] = p
  <2>. HIDE DEF E
  <2>. QED
      BY <1>1, <1>3, AppendProperties DEF E
<1>. HIDE DEF g
<1>5. DOMAIN g = 1 .. n + 1
  <2>. HIDE DEF E
  <2>. QED
      BY <1>4, LenProperties
<1>6. \A k \in 1 .. n + 1 : k \in 1 .. n \/ k = n + 1
    BY <1>1
<1>7. Collected(g) = E
  <2>1. \A x \in Collected(g) : x \in E
      BY <1>2, <1>4, <1>5, <1>6 DEF Collected
  <2>2. \A x \in C : x \in Collected(g)
    <3>. SUFFICES ASSUME NEW x \in C PROVE x \in Collected(g)
        OBVIOUS
    <3>1. PICK k \in 1 .. n : f[k] = x
        BY <1>1 DEF Collected
    <3>2. k \in 1 .. n + 1 /\ g[k] = x
        BY <1>1, <1>4, <3>1
    <3>. QED
        BY <1>5, <3>2 DEF Collected
  <2>3. p \in Collected(g)
    <3>1. n + 1 \in 1 .. n + 1
        BY <1>1
    <3>. QED
        BY <1>4, <1>5, <3>1 DEF Collected
  <2>. QED
      BY <2>1, <2>2, <2>3
<1>8. \A k, m \in 1 .. n + 1 : g[k] = g[m] => k = m
  <2>. SUFFICES ASSUME NEW k \in 1 .. n + 1, NEW m \in 1 .. n + 1, g[k] = g[m] PROVE k = m
      OBVIOUS
  <2>1. \A i \in 1 .. n : g[i] = f[i] /\ g[i] # p
      BY <1>2, <1>4
  <2>2. CASE k \in 1 .. n /\ m \in 1 .. n
      BY <2>1, <2>2 DEF Gathered
  <2>3. CASE k = n + 1 \/ m = n + 1
      BY <1>4, <1>6, <2>1, <2>3
  <2>. QED
      BY <1>6, <2>2, <2>3
<1>9. Deepening(g, n + 1)
  <2>. SUFFICES ASSUME NEW k \in 1 .. n + 1, NEW m \in 1 .. n + 1, k <= m
                PROVE  g[k].depth >= g[m].depth
      BY DEF Deepening
  <2>1. CASE m \in 1 .. n
    <3>1. k \in 1 .. n
        BY <1>1, <2>1
    <3>. QED
        BY <1>4, <2>1, <3>1 DEF Gathered, Deepening
  <2>2. CASE m = n + 1 /\ k = n + 1
      BY <1>4, <2>2
  <2>3. CASE m = n + 1 /\ k \in 1 .. n
      BY <1>2, <1>4, <2>3
  <2>. QED
      BY <1>6, <2>1, <2>2, <2>3
<1>10. Gathered(g)
    BY <1>4, <1>7, <1>8, <1>9 DEF Gathered
<1>. QED
    BY <1>7, <1>10 DEF g

(* The tree's first is taken off it, or left there. *)
LEMMA CollectStep ==
    ASSUME GpuInv, Collect, Suited, RingInv'
    PROVE  GpuInv'
<1>1. PICK D : Located(D)
    BY DEF GpuInv
<1>. DEFINE R == Under(fathers, D)
<1>2. /\ Underway(Pools, D, fathers)
      /\ Whole(tables, cpu_explored_leaves, Now, R, away) /\ pc = "collect"
      /\ Foremost(R, tree)
    BY <1>1 DEF Located, Collect
<1>3. /\ UNCHANGED <<tables, strategy, wsltns, cout, cpu_explored_leaves, tables_g, ring, away>>
      /\ Pools' = Pools /\ UNCHANGED <<stream, readyPoolToGPU>>
    BY DEF Collect, ring, Pools, Pool, Waits
<1>4. Copied' /\ Slot' = Slot
    BY <1>3 DEF Copied, GpuInv, Slot
<1>5. /\ Admits(tables)
      /\ \A s \in Schedule : criteres_calculer(tables, s) \in Nat
    BY Copies DEF GpuInv
<1>6. /\ Now.tree = tree /\ Now.wsltns = wsltns /\ Now.cout = cout /\ Now.explored = explored_leaves
      /\ Now'.tree = tree' /\ Now'.wsltns = wsltns /\ Now'.cout = cout
      /\ Now'.explored = explored_leaves'
    BY <1>3 DEF Now
<1>7. CASE UNCHANGED <<tree, fathers, explored_leaves>> /\ pc' = "send"
  <2>1. Now' = Now
      BY <1>3, <1>7 DEF Now
  <2>2. Located(D)'
      BY <1>2, <1>3, <1>7, <2>1 DEF Located
  <2>. QED
      BY <1>3, <1>4, <1>7, <2>2 DEF GpuInv
<1>8. ASSUME NEW p \in tree, top(p), CollectDrop(p)
      PROVE  GpuInv'
  <2>1. /\ ~(p.couts_somme < cout) /\ tree' = tree \ {p}
        /\ explored_leaves' = explored_leaves + weights[p.depth]
        /\ UNCHANGED <<pc, fathers>>
      BY <1>8 DEF CollectDrop, bound
  <2>2. Proper(tables, p) /\ Costs(wsltns, cout) /\ p \notin R
      BY <1>2, <1>6 DEF Whole, Held
  <2>3. \A s \in Schedule : Completes(s, p) => cout <= criteres_calculer(tables, s)
    <3>1. cout \in Nat /\ p.couts_somme \in Nat
        BY <2>2 DEF Costs, Proper
    <3>2. cout <= p.couts_somme
        BY <2>1, <3>1
    <3>3. \A s \in Schedule : Completes(s, p) => p.couts_somme <= criteres_calculer(tables, s)
        BY <2>2 DEF Proper
    <3>. QED
        BY <1>5, <3>1, <3>2, <3>3
  <2>4. cout <= cout
      BY <2>2 DEF Costs
  <2>. HIDE DEF R
  <2>5. Whole(tables, cpu_explored_leaves, Now', R \ {p}, away)
      BY <1>2, <1>5, <1>6, <2>1, <2>2, <2>3, <2>4, LessOne
  <2>6. R \ {p} = R /\ Foremost(R, tree')
      BY <1>2, <2>1, <2>2 DEF Foremost
  <2>7. Located(D)'
      BY <1>2, <1>3, <2>1, <2>5, <2>6 DEF Located, R
  <2>. QED
      BY <1>3, <1>4, <2>1, <2>7 DEF GpuInv
<1>9. ASSUME NEW p \in tree, top(p), CollectKeep(p)
      PROVE  GpuInv'
  <2>1. /\ fathers' = Append(fathers, p) /\ tree' = tree \ {p}
        /\ UNCHANGED <<pc, explored_leaves>>
      BY <1>9 DEF CollectKeep
  <2>2. \A q \in tree \ {p} : Deeper(p, q)
      BY <1>9 DEF top, GpuInv
  <2>3. Proper(tables, p) /\ p.depth \in Int
    <3>1. Proper(tables, p)
        BY <1>2, <1>6 DEF Whole, Held
    <3>. QED
        BY <3>1, ProperFacts, SizeFacts
  <2>. DEFINE S == R \cup {p}
  <2>4. Whole(tables, cpu_explored_leaves, Now', S, away) /\ Foremost(S, tree') /\ p \notin R
    <3>1. /\ Now'.tree = Now.tree \ {p} /\ Now'.wsltns = Now.wsltns /\ Now'.cout = Now.cout
          /\ Now'.explored = Now.explored
        BY <1>6, <2>1
    <3>2. p \in Now.tree /\ Foremost(R, Now.tree) /\ \A q \in Now.tree \ {p} : Deeper(p, q)
        BY <1>2, <1>6, <2>2
    <3>. HIDE DEF R
    <3>3. Whole(tables, cpu_explored_leaves, Now', R \cup {p}, away)
          /\ Foremost(R \cup {p}, Now'.tree) /\ p \notin R
        BY <1>2, <3>1, <3>2, KeepOne
    <3>. QED
        BY <1>6, <3>3
  <2>5. Collected(fathers) \subseteq R /\ \A k \in DOMAIN D : D[k] \subseteq R
      BY DEF Under
  <2>6. Gathered(fathers') /\ Collected(fathers') = Collected(fathers) \cup {p}
    <3>1. p \notin Collected(fathers) /\ \A q \in Collected(fathers) : q.depth >= p.depth
        BY <1>2, <2>4, <2>5 DEF Foremost
    <3>. HIDE DEF R
    <3>. QED
        BY <2>1, <2>3, <3>1, GatheredGrows DEF GpuInv
  <2>7. Under(fathers', D) = S
      BY <2>6 DEF Under
  <2>8. Underway(Pools, D, fathers')
    <3>1. \A k \in DOMAIN D : p \notin D[k]
        BY <2>4, <2>5
    <3>. HIDE DEF R
    <3>. QED
        BY <1>2, <2>6, <3>1 DEF Underway
  <2>. HIDE DEF R, S
  <2>9. Located(D)'
      BY <1>3, <2>4, <2>7, <2>8 DEF Located
  <2>. QED
      BY <1>2, <1>3, <1>4, <2>1, <2>6, <2>9 DEF GpuInv
<1>. QED
    BY <1>7, <1>8, <1>9 DEF Collect, CollectNone, CollectFull

(* The pools that were sent before stay as they are. *)
LEMMA SendPools ==
    ASSUME RingInv, Send, AllChildren # <<>>
    PROVE  /\ Waits \in Nat /\ Waits' = Waits + 1
           /\ \A k \in 1 .. Waits : Pools'[k] = Pools[k]
           /\ Pools'[Waits + 1] = AllChildren
           /\ DOMAIN Pools = 1 .. Waits /\ DOMAIN Pools' = 1 .. Waits + 1
           /\ current_index_gpu \in Slot /\ stream' = stream \cup {current_index_gpu}
<1>. DEFINE n == Waits
            entry == [children_d |-> current_index_gpu, children_size |-> Len(AllChildren)]
<1>1. /\ n \in Nat /\ n < M /\ M \in Nat /\ starting_index_gpu \in Slot
      /\ current_index_gpu = After(starting_index_gpu, n)
    BY RingFacts, WaitsType DEF RingInv, Consecutive, Send
<1>2. /\ pool_to_evaluate_h' = [pool_to_evaluate_h EXCEPT ![current_index_gpu] = AllChildren]
      /\ readyPoolToGPU' = Append(readyPoolToGPU, entry)
      /\ stream' = stream \cup {current_index_gpu}
    BY DEF Send
<1>3. PICK S : readyPoolToGPU \in Seq(S)
    BY DEF RingInv, Consecutive
<1>4. /\ Waits' = n + 1
      /\ \A k \in 1 .. n : readyPoolToGPU'[k] = readyPoolToGPU[k]
      /\ readyPoolToGPU'[n + 1] = entry
  <2>1. readyPoolToGPU \in Seq(S \cup {entry})
      BY <1>3, SeqMonotonic
  <2>. HIDE DEF entry
  <2>. QED
      BY <1>2, <2>1, AppendProperties DEF Waits
<1>5. current_index_gpu \in Slot /\ DOMAIN pool_to_evaluate_h = Slot
    BY <1>1, AfterFacts DEF RingInv, Filled
<1>6. \A k \in 1 .. n : readyPoolToGPU[k].children_d # current_index_gpu
  <2>. SUFFICES ASSUME NEW k \in 1 .. n PROVE readyPoolToGPU[k].children_d # current_index_gpu
      OBVIOUS
  <2>1. k - 1 \in 0 .. M - 1 /\ k - 1 # n /\ n \in 0 .. M - 1
      BY <1>1
  <2>2. readyPoolToGPU[k].children_d = After(starting_index_gpu, k - 1)
      BY DEF RingInv, Consecutive
  <2>3. After(starting_index_gpu, k - 1) # After(starting_index_gpu, n)
      BY <1>1, <2>1, AfterFacts
  <2>. QED
      BY <1>1, <2>2, <2>3
<1>7. /\ DOMAIN Pools = 1 .. n /\ DOMAIN Pools' = 1 .. n + 1
      /\ \A k \in 1 .. n : Pools[k] = pool_to_evaluate_h[readyPoolToGPU[k].children_d]
      /\ \A k \in 1 .. n + 1 : Pools'[k] = pool_to_evaluate_h'[readyPoolToGPU'[k].children_d]
    BY <1>4 DEF Pools, Pool
<1>8. \A k \in 1 .. n : k \in 1 .. n + 1 /\ Pools'[k] = Pools[k]
  <2>. SUFFICES ASSUME NEW k \in 1 .. n PROVE k \in 1 .. n + 1 /\ Pools'[k] = Pools[k]
      OBVIOUS
  <2>1. k \in 1 .. n + 1
      BY <1>1
  <2>2. readyPoolToGPU'[k] = readyPoolToGPU[k] /\ readyPoolToGPU[k].children_d # current_index_gpu
      BY <1>4, <1>6
  <2>3. pool_to_evaluate_h'[readyPoolToGPU[k].children_d]
            = pool_to_evaluate_h[readyPoolToGPU[k].children_d]
    <3>1. readyPoolToGPU[k].children_d \in Slot
      <4>1. k - 1 \in 0 .. M
          BY <1>1
      <4>2. readyPoolToGPU[k].children_d = After(starting_index_gpu, k - 1)
          BY DEF RingInv, Consecutive
      <4>. QED
          BY <1>1, <4>1, <4>2, AfterFacts
    <3>. QED
        BY <1>2, <1>5, <2>2, <3>1
  <2>. QED
      BY <1>7, <2>1, <2>2, <2>3
<1>9. Pools'[n + 1] = AllChildren
  <2>1. n + 1 \in 1 .. n + 1
      BY <1>1
  <2>2. readyPoolToGPU'[n + 1].children_d = current_index_gpu
      BY <1>4
  <2>3. pool_to_evaluate_h'[current_index_gpu] = AllChildren
      BY <1>2, <1>5
  <2>. QED
      BY <1>7, <2>1, <2>2, <2>3
<1>. QED
    BY <1>1, <1>2, <1>4, <1>5, <1>7, <1>8, <1>9

(* The children of what was collected, and nothing when it was nothing. *)
LEMMA SentFathers ==
    ASSUME NEW t, Gathered(fathers), \A f \in Collected(fathers) : Proper(t, f)
    PROVE  /\ Fathered(AllChildren, Collected(fathers))
           /\ AllChildren = <<>> => Collected(fathers) = {}
<1>. DEFINE C == Collected(fathers)
            n == Len(fathers)
<1>1. fathers \in Seq(C)
    BY DEF Gathered
<1>2. n \in Nat /\ fathers \in [1 .. n -> C] /\ DOMAIN fathers = 1 .. n
  <2>. HIDE DEF C
  <2>. QED
      BY <1>1, LenProperties
<1>3. Deepening(fathers, n)
    BY DEF Gathered
<1>4. PICK pos : Laid(AllChildren, fathers, n, pos)
  <2>. HIDE DEF C, n
  <2>1. \A f \in C : Proper(t, f)
      BY DEF C
  <2>. QED
      BY <1>2, <1>3, <2>1, ChildrenLaid
<1>5. EachOnce(fathers, n, C)
  <2>1. \A f \in C : \E k \in 1 .. n : fathers[k] = f
      BY <1>2 DEF Collected
  <2>2. \A k, m \in 1 .. n : fathers[k] = fathers[m] => k = m
      BY DEF Gathered
  <2>. QED
      BY <1>2, <2>1, <2>2 DEF EachOnce
<1>6. AllChildren = <<>> => C = {}
  <2>. SUFFICES ASSUME AllChildren = <<>>, NEW f \in C PROVE FALSE
      OBVIOUS
  <2>1. PICK k \in 1 .. n : fathers[k] = f
      BY <1>5 DEF EachOnce
  <2>2. n # 0
      BY <1>2, <2>1
  <2>3. \A i \in 1 .. n : Wide(fathers[i]) \in Nat /\ Wide(fathers[i]) >= 2
    <3>1. \A i \in 1 .. n : Proper(t, fathers[i])
        BY <1>2
    <3>. QED
        BY <3>1, CountFree
  <2>4. pos[0] < pos[n] /\ pos[0] = 0
    <3>1. 0 \in 0 .. n
        BY <1>2
    <3>. HIDE DEF n
    <3>2. pos[0] < pos[n]
        BY <1>2, <1>4, <2>2, <2>3, <3>1, LaidGrows
    <3>. QED
        BY <1>4, <3>2 DEF Laid
  <2>5. Len(AllChildren) = pos[n]
      BY <1>4 DEF Laid
  <2>. QED
      BY <2>4, <2>5, EmptySeq
<1>. HIDE DEF C, n
<1>7. Fathered(AllChildren, C)
    BY <1>2, <1>4, <1>5 DEF Fathered
<1>. QED
    BY <1>6, <1>7 DEF C

(* The collected subproblems become the fathers of the newest pool. *)
LEMMA SendKeeps ==
    ASSUME GpuInv, Send, RingInv'
    PROVE  GpuInv'
<1>1. PICK D : Located(D)
    BY DEF GpuInv
<1>. DEFINE C == Collected(fathers)
<1>2. /\ Underway(Pools, D, fathers) /\ pc = "send" /\ pc' = "turn" /\ fathers' = <<>>
      /\ Whole(tables, cpu_explored_leaves, Now, Under(fathers, D), away)
      /\ Foremost(Under(fathers, D), tree)
      /\ UNCHANGED <<tables, strategy, cpu_explored_leaves, tables_g, tree, away>> /\ Now' = Now
    BY <1>1 DEF Located, Send, vars, Now
<1>3. Copied' /\ Slot' = Slot
    BY <1>2 DEF Copied, GpuInv, Slot
<1>4. Collected(fathers') = {} /\ Gathered(fathers')
  <2>1. Collected(fathers') = {}
      BY <1>2 DEF Collected
  <2>2. Len(fathers') = 0 /\ fathers' \in Seq({})
      BY <1>2, EmptySeq
  <2>. QED
      BY <2>1, <2>2 DEF Gathered, Deepening
<1>5. Fathered(AllChildren, C) /\ (AllChildren = <<>> => C = {})
  <2>1. \A f \in Collected(fathers) : Proper(tables, f)
      BY <1>2 DEF Whole, Held, Under
  <2>. QED
      BY <2>1, SentFathers DEF GpuInv
<1>6. CASE AllChildren = <<>>
  <2>1. UNCHANGED ring
      BY <1>6 DEF Send
  <2>2. Pools' = Pools /\ stream' = stream
      BY <2>1 DEF ring, Pools, Pool, Waits
  <2>3. Under(fathers', D) = Under(fathers, D)
      BY <1>4, <1>5, <1>6 DEF Under
  <2>4. Underway(Pools, D, fathers')
      BY <1>2, <1>4 DEF Underway
  <2>5. Located(D)'
      BY <1>2, <2>2, <2>3, <2>4 DEF Located
  <2>. QED
      BY <1>2, <1>3, <1>4, <2>2, <2>5 DEF GpuInv
<1>7. CASE AllChildren # <<>>
  <2>. DEFINE n == Waits
              B == [k \in 1 .. n + 1 |-> IF k \in 1 .. n THEN D[k] ELSE C]
  <2>1. /\ n \in Nat /\ Waits' = n + 1
        /\ \A k \in 1 .. n : Pools'[k] = Pools[k]
        /\ Pools'[n + 1] = AllChildren
        /\ DOMAIN Pools = 1 .. n /\ DOMAIN Pools' = 1 .. n + 1
        /\ current_index_gpu \in Slot /\ stream' = stream \cup {current_index_gpu}
      BY <1>7, SendPools DEF GpuInv
  <2>2. \A k \in 1 .. n + 1 : k \in 1 .. n \/ k = n + 1
      BY <2>1
  <2>3. \A k \in 1 .. n : k \in 1 .. n + 1 /\ B[k] = D[k]
      BY <2>1
  <2>4. n + 1 \in 1 .. n + 1 /\ n + 1 \notin 1 .. n /\ B[n + 1] = C /\ DOMAIN B = 1 .. n + 1
      BY <2>1
  <2>5. DOMAIN D = 1 .. n /\ \A k \in 1 .. n : /\ Fathered(Pools[k], D[k])
                                                /\ D[k] \cap C = {}
                                                /\ \A m \in 1 .. n : k # m => D[k] \cap D[m] = {}
      BY <1>2, <2>1 DEF Underway
  <2>. HIDE DEF B, n, C
  <2>6. Underway(Pools', B, fathers')
    <3>1. \A k \in 1 .. n + 1 : Fathered(Pools'[k], B[k])
        BY <1>5, <2>1, <2>2, <2>3, <2>4, <2>5
    <3>2. \A k, m \in 1 .. n + 1 : k # m => B[k] \cap B[m] = {}
        BY <2>2, <2>3, <2>4, <2>5
    <3>3. \A k \in 1 .. n + 1 : B[k] \cap Collected(fathers') = {}
        BY <1>4
    <3>. QED
        BY <2>1, <2>4, <3>1, <3>2, <3>3 DEF Underway
  <2>7. UNION {B[k] : k \in 1 .. n + 1} = C \cup UNION {D[k] : k \in 1 .. n}
    <3>1. ASSUME NEW x \in UNION {B[k] : k \in 1 .. n + 1}
          PROVE  x \in C \cup UNION {D[k] : k \in 1 .. n}
      <4>1. PICK k \in 1 .. n + 1 : x \in B[k]
          OBVIOUS
      <4>. QED
          BY <2>2, <2>3, <2>4, <4>1
    <3>2. ASSUME NEW x \in C \cup UNION {D[k] : k \in 1 .. n}
          PROVE  x \in UNION {B[k] : k \in 1 .. n + 1}
      <4>1. CASE x \in C
          BY <2>4, <4>1
      <4>2. CASE x \in UNION {D[k] : k \in 1 .. n}
          BY <2>3, <4>2
      <4>. QED
          BY <4>1, <4>2
    <3>. QED
        BY <3>1, <3>2
  <2>8. Under(fathers', B) = Under(fathers, D)
      BY <1>4, <2>4, <2>5, <2>7 DEF Under, C
  <2>. PICK X : X = B
      OBVIOUS
  <2>9. Located(X)'
    <3>1. Underway(Pools', X, fathers') /\ Under(fathers', X) = Under(fathers, D)
        BY <2>6, <2>8
    <3>. QED
        BY <1>2, <3>1 DEF Located
  <2>10. stream' \subseteq Slot
      BY <2>1 DEF GpuInv
  <2>. QED
      BY <1>2, <1>3, <1>4, <2>9, <2>10 DEF GpuInv
<1>. QED
    BY <1>6, <1>7

(* The device writes bounds only. *)
LEMMA DeviceKeeps ==
    ASSUME GpuInv, NEW i \in Slot, Device(i), RingInv'
    PROVE  GpuInv'
<1>1. PICK D : Located(D)
    BY DEF GpuInv
<1>2. /\ UNCHANGED <<vars, pc, fathers, tables_g, pool_to_evaluate_h, readyPoolToGPU,
                     explored_leaves, away>>
      /\ stream' \subseteq stream
    BY DEF Device
<1>3. /\ Pools' = Pools /\ Now' = Now
      /\ UNCHANGED <<tables, cpu_explored_leaves, strategy, tree>>
    BY <1>2 DEF vars, Pools, Pool, Waits, Now
<1>4. Located(D)'
    BY <1>1, <1>2, <1>3 DEF Located
<1>5. Copied' /\ Slot' = Slot
    BY <1>2, <1>3 DEF Copied, GpuInv, Slot
<1>. QED
    BY <1>2, <1>3, <1>4, <1>5 DEF GpuInv

(* What prune makes of the oldest pool. *)
LEMMA OldestPruned ==
    ASSUME RingInv, PrunePool
    PROVE  LET a == InTurn(Families(Priced(Pool(1))), Now)
           IN  wsltns' = a.wsltns /\ cout' = a.cout /\ tree' = a.tree /\ explored_leaves' = a.explored
<1>. DEFINE pp == Head(readyPoolToGPU)
            children == pool_to_evaluate_h[pp.children_d]
            bounds == bounds_h[starting_index_gpu]
            pool == [k \in 1 .. pp.children_size |->
                        [children[k] EXCEPT !.problem.couts_somme = bounds[k]]]
<1>1. readyPoolToGPU # <<>> /\ starting_index_gpu \notin stream
    BY DEF PrunePool
<1>2. pp = readyPoolToGPU[1]
  <2>1. PICK S : readyPoolToGPU \in Seq(S)
      BY DEF RingInv, Consecutive
  <2>. QED
      BY <1>1, <2>1, HeadTailProperties
<1>3. children = Pool(1) /\ bounds = Bounds(Pool(1)) /\ pp.children_size = Len(Pool(1))
    BY <1>1, <1>2, OldestBounds DEF Pool
<1>4. pool = Priced(Pool(1))
  <2>. HIDE DEF children, bounds, pp
  <2>. QED
      BY <1>3 DEF Priced
<1>5. /\ wsltns' = Pruned(pool).wsltns /\ cout' = Pruned(pool).cout
      /\ tree' = Pruned(pool).tree /\ explored_leaves' = Pruned(pool).explored
    BY DEF PrunePool
<1>. HIDE DEF pool
<1>6. Pruned(pool) = InTurn(Families(pool), Now)
    BY DEF Pruned, InTurn, Now
<1>. QED
    BY <1>4, <1>5, <1>6

(* The kept children take the place of the oldest pool's fathers. *)
LEMMA PruneKeeps ==
    ASSUME GpuInv, PrunePool, Suited, RingInv'
    PROVE  GpuInv'
<1>1. PICK D : Located(D)
    BY DEF GpuInv
<1>. DEFINE R == Under(fathers, D)
            n == Waits
            B == [k \in 1 .. n - 1 |-> D[k + 1]]
<1>2. /\ Underway(Pools, D, fathers) /\ pc = "process" /\ fathers = <<>>
      /\ Whole(tables, cpu_explored_leaves, Now, R, away)
    BY <1>1 DEF Located, PrunePool, GpuInv
<1>3. /\ readyPoolToGPU' = Tail(readyPoolToGPU) /\ readyPoolToGPU # <<>>
      /\ UNCHANGED <<tables, strategy, cpu_explored_leaves, pc, fathers, tables_g,
                     pool_to_evaluate_h, stream, away>>
    BY DEF PrunePool
<1>4. Copied' /\ Slot' = Slot /\ strategy' = strategy
    BY <1>3 DEF Copied, GpuInv, Slot
<1>5. n \in Nat /\ n > 0
    BY <1>3, WaitsType DEF GpuInv, RingInv
<1>6. /\ Waits' = n - 1
      /\ \A k \in 1 .. n - 1 : readyPoolToGPU'[k] = readyPoolToGPU[k + 1]
  <2>1. PICK S : readyPoolToGPU \in Seq(S)
      BY DEF GpuInv, RingInv, Consecutive
  <2>. QED
      BY <1>3, <2>1, HeadTailProperties DEF Waits
<1>7. /\ DOMAIN Pools = 1 .. n /\ DOMAIN Pools' = 1 .. n - 1
      /\ Pools[1] = Pool(1)
      /\ \A k \in 1 .. n - 1 : k + 1 \in 1 .. n /\ Pools'[k] = Pools[k + 1]
  <2>1. \A k \in 1 .. n - 1 : k + 1 \in 1 .. n
      BY <1>5
  <2>2. 1 \in 1 .. n
      BY <1>5
  <2>3. \A k \in 1 .. n - 1 : Pools'[k] = pool_to_evaluate_h[readyPoolToGPU[k + 1].children_d]
      BY <1>3, <1>6 DEF Pools, Pool
  <2>4. \A k \in 1 .. n : Pools[k] = pool_to_evaluate_h[readyPoolToGPU[k].children_d]
      BY DEF Pools, Pool
  <2>5. DOMAIN Pools = 1 .. n /\ DOMAIN Pools' = 1 .. n - 1 /\ Pools[1] = Pool(1)
      BY <1>6, <2>2 DEF Pools
  <2>. HIDE DEF n
  <2>. QED
      BY <2>1, <2>3, <2>4, <2>5
<1>8. /\ DOMAIN D = 1 .. n
      /\ \A k \in 1 .. n : /\ Fathered(Pools[k], D[k])
                           /\ \A m \in 1 .. n : k # m => D[k] \cap D[m] = {}
    BY <1>2, <1>7 DEF Underway
<1>9. DOMAIN B = 1 .. n - 1 /\ \A k \in 1 .. n - 1 : B[k] = D[k + 1]
    OBVIOUS
<1>10. Collected(fathers) = {}
    BY <1>2 DEF Collected
<1>. HIDE DEF B, n
<1>11. Underway(Pools', B, fathers)
  <2>1. \A k \in 1 .. n - 1 : Fathered(Pools'[k], B[k])
      BY <1>7, <1>8, <1>9
  <2>2. \A k, m \in 1 .. n - 1 : k # m => B[k] \cap B[m] = {}
    <3>. SUFFICES ASSUME NEW k \in 1 .. n - 1, NEW m \in 1 .. n - 1, k # m
                  PROVE  B[k] \cap B[m] = {}
        OBVIOUS
    <3>1. k + 1 # m + 1 /\ k + 1 \in 1 .. n /\ m + 1 \in 1 .. n
        BY <1>5
    <3>. QED
        BY <1>8, <1>9, <3>1
  <2>. QED
      BY <1>7, <1>9, <1>10, <2>1, <2>2 DEF Underway
<1>12. Under(fathers, B) = R \ D[1]
  <2>1. 1 \in 1 .. n /\ \A k \in 1 .. n : k # 1 => k - 1 \in 1 .. n - 1 /\ (k - 1) + 1 = k
      BY <1>5
  <2>2. R = UNION {D[k] : k \in 1 .. n} /\ Under(fathers, B) = UNION {B[k] : k \in 1 .. n - 1}
      BY <1>8, <1>9, <1>10 DEF Under
  <2>. HIDE DEF R
  <2>3. ASSUME NEW x \in UNION {B[k] : k \in 1 .. n - 1} PROVE x \in R \ D[1]
    <3>1. PICK k \in 1 .. n - 1 : x \in B[k]
        OBVIOUS
    <3>2. k + 1 \in 1 .. n /\ k + 1 # 1 /\ x \in D[k + 1]
        BY <1>5, <1>9, <3>1
    <3>. QED
        BY <1>8, <2>1, <2>2, <3>2
  <2>4. ASSUME NEW x \in R \ D[1] PROVE x \in UNION {B[k] : k \in 1 .. n - 1}
    <3>1. PICK k \in 1 .. n : x \in D[k]
        BY <2>2
    <3>2. k # 1
        BY <3>1
    <3>3. k - 1 \in 1 .. n - 1 /\ B[k - 1] = D[k]
        BY <1>9, <2>1, <3>2
    <3>. QED
        BY <3>1, <3>3
  <2>. QED
      BY <2>2, <2>3, <2>4
<1>. DEFINE a == InTurn(Families(Priced(Pool(1))), Now)
<1>13. Whole(tables, cpu_explored_leaves, a, R \ D[1], away)
  <2>1. Instance(tables) /\ SameInstance(tables, tables_g)
      BY Copies DEF GpuInv
  <2>2. Now = [wsltns |-> Now.wsltns, cout |-> Now.cout, tree |-> Now.tree,
               explored |-> Now.explored]
      BY DEF Now
  <2>3. 1 \in 1 .. n
      BY <1>5
  <2>4. D[1] \subseteq R /\ Fathered(Pool(1), D[1])
      BY <1>7, <1>8, <2>3 DEF Under
  <2>. HIDE DEF R
  <2>. QED
      BY <1>2, <2>1, <2>2, <2>4, PoolPruned
<1>14. wsltns' = a.wsltns /\ cout' = a.cout /\ tree' = a.tree /\ explored_leaves' = a.explored
    BY OldestPruned DEF GpuInv
<1>15. Whole(tables, cpu_explored_leaves, Now', R \ D[1], away)
  <2>1. Now'.wsltns = a.wsltns /\ Now'.cout = a.cout /\ Now'.tree = a.tree
        /\ Now'.explored = a.explored
      BY <1>14 DEF Now
  <2>. HIDE DEF a, R
  <2>. QED
      BY <1>13, <2>1, WholeSame
<1>. PICK X : X = B
    OBVIOUS
<1>16. Located(X)'
  <2>1. /\ Underway(Pools', X, fathers)
        /\ Whole(tables, cpu_explored_leaves, Now', Under(fathers, X), away)
      BY <1>11, <1>12, <1>15
  <2>. QED
      BY <1>2, <1>3, <2>1 DEF Located
<1>. QED
    BY <1>2, <1>3, <1>4, <1>16 DEF GpuInv

-----------------------------------------------------------------------------
(* Between two turns nothing is under way. *)
LEMMA Idle ==
    ASSUME GpuInv, pc = "packets"
    PROVE  /\ Whole(tables, cpu_explored_leaves, Now, {}, away)
           /\ \A D : Underway(Pools, D, fathers) => Under(fathers, D) = {}
           /\ \E D : Underway(Pools, D, fathers)
<1>1. PICK D : Located(D)
    BY DEF GpuInv
<1>2. \A B : Underway(Pools, B, fathers) => Under(fathers, B) = {}
    BY NoneUnder DEF GpuInv
<1>. QED
    BY <1>1, <1>2 DEF Located

(* So it is enough that the subproblems and the schedules stay whole. *)
LEMMA StaysIdle ==
    ASSUME GpuInv, pc = "packets", UNCHANGED <<tables, strategy, cpu_explored_leaves, pc, fathers, tables_g, ring>>,
           Whole(tables, cpu_explored_leaves, Now', {}, away'), RingInv'
    PROVE  GpuInv'
<1>1. PICK D : Underway(Pools, D, fathers)
    BY Idle
<1>2. Under(fathers, D) = {}
    BY <1>1, Idle
<1>3. Pools' = Pools /\ stream' = stream /\ readyPoolToGPU' = readyPoolToGPU
    BY DEF ring, Pools, Pool, Waits
<1>4. Located(D)'
    BY <1>1, <1>2, <1>3 DEF Located
<1>5. Copied' /\ Slot' = Slot
    BY DEF Copied, GpuInv, Slot
<1>. QED
    BY <1>3, <1>4, <1>5 DEF GpuInv

(* A schedule that is received is kept only when it is better. *)
LEMMA ReceiveKeeps ==
    ASSUME GpuInv, ReceiveSchedule, Suited, RingInv'
    PROVE  GpuInv'
<1>1. /\ pc = "packets" /\ Receive
      /\ UNCHANGED <<tables, strategy, tree, cpu_explored_leaves, pc, fathers, tables_g, ring,
                     explored_leaves, away>>
    BY DEF ReceiveSchedule, Receive
<1>2. PICK s \in Schedule : insert(criteres_calculer(tables, s))
    BY <1>1 DEF Receive
<1>. DEFINE cost == criteres_calculer(tables, s)
<1>3. /\ \A r \in Schedule : criteres_calculer(tables, r) \in Nat
      /\ cost \in Nat /\ cost <= costv
    BY Copies DEF GpuInv
<1>4. Whole(tables, cpu_explored_leaves, Now, {}, away)
    BY <1>1, Idle
<1>5. Costs(wsltns, cout)
    BY <1>4 DEF Whole, Now
<1>. HIDE DEF cost
<1>6. Costs(wsltns', cout') /\ cout' <= cout
  <2>0. cout \in Nat
      BY <1>5 DEF Costs
  <2>1. CASE \A i \in wsltns : ~(i <= cost)
    <3>1. /\ wsltns' = {i \in wsltns : ~(cost <= i)} \cup {cost}
          /\ cout' = IF cout > cost THEN cost ELSE cout
        BY <1>2, <2>1 DEF insert, inserable, cost
    <3>2. /\ Costs({cost}, IF cout > cost THEN cost ELSE cout)
          /\ {i \in wsltns : ~(cost <= i)} \cup {cost} = {cost}
        BY <1>3, <1>5, <2>1, OneCost
    <3>3. cout' <= cout
        BY <1>3, <2>0, <3>1
    <3>. QED
        BY <3>1, <3>2, <3>3
  <2>2. CASE ~(\A i \in wsltns : ~(i <= cost))
    <3>1. wsltns' = wsltns /\ cout' = cout
        BY <1>2, <2>2 DEF insert, inserable, cost
    <3>. QED
        BY <1>5, <2>0, <3>1
  <2>. QED
      BY <2>1, <2>2
<1>7. Whole(tables, cpu_explored_leaves, Now', {}, away)
  <2>1. /\ Now'.tree = Now.tree /\ Now'.explored = Now.explored /\ Now'.wsltns = wsltns'
        /\ Now'.cout = cout' /\ Now.cout = cout
      BY <1>1 DEF Now
  <2>2. Costs(Now'.wsltns, Now'.cout) /\ Now'.cout <= Now.cout
      BY <1>6, <2>1
  <2>. QED
      BY <1>3, <1>4, <2>1, <2>2, Cheaper
<1>. QED
    BY <1>1, <1>7, StaysIdle

(* Subproblems move between the peers. *)
LEMMA Shared ==
    ASSUME NEW t, NEW cpu, NEW acc, NEW aw, Whole(t, cpu, acc, {}, aw),
           NEW a, a.wsltns = acc.wsltns, a.cout = acc.cout, a.explored = acc.explored,
           NEW b, a.tree \cap b = {}, a.tree \cup b = acc.tree \cup aw,
           a.tree \subseteq acc.tree \/ a.tree \subseteq aw,
           b \subseteq acc.tree \/ b \subseteq aw
    PROVE  Whole(t, cpu, a, {}, b)
<1>1. Held(a, {}, b) = Held(acc, {}, aw)
    BY DEF Held
<1>2. InDepth(acc.tree, {}) /\ InDepth(aw, {})
    BY DEF Whole
<1>3. ASSUME NEW S, NEW U, S \subseteq U, InDepth(U, {}) PROVE InDepth(S, {})
    BY <1>3 DEF InDepth
<1>4. InDepth(a.tree, {}) /\ InDepth(b, {})
    BY <1>2, <1>3
<1>. QED
    BY <1>1, <1>4 DEF Whole

LEMMA GiveKeeps ==
    ASSUME GpuInv, Give \/ RecvWork, RingInv'
    PROVE  GpuInv'
<1>1. /\ pc = "packets"
      /\ UNCHANGED <<tables, strategy, wsltns, cout, cpu_explored_leaves, pc, fathers,
                     tables_g, ring, explored_leaves>>
    BY DEF Give, RecvWork
<1>2. Whole(tables, cpu_explored_leaves, Now, {}, away)
    BY <1>1, Idle
<1>3. \/ \E given \in SUBSET tree : away = {} /\ tree' = tree \ given /\ away' = given
      \/ \E given \in SUBSET away : tree = {} /\ tree' = given /\ away' = away \ given
    BY DEF Give, RecvWork, Shares
<1>4. /\ tree' \cap away' = {} /\ tree' \cup away' = tree \cup away
      /\ tree' \subseteq tree \/ tree' \subseteq away
      /\ away' \subseteq tree \/ away' \subseteq away
    BY <1>3
<1>5. /\ Now.tree = tree /\ Now'.tree = tree' /\ Now'.wsltns = Now.wsltns /\ Now'.cout = Now.cout
      /\ Now'.explored = Now.explored
    BY <1>1 DEF Now
<1>6. Whole(tables, cpu_explored_leaves, Now', {}, away')
    BY <1>2, <1>4, <1>5, Shared
<1>. QED
    BY <1>1, <1>6, StaysIdle

(* Every step keeps the invariant. *)
LEMMA GpuInvNext ==
    ASSUME Suited, GpuInv, [GpuNext]_gpuVars
    PROVE  GpuInv'
<1>1. RingInv
    BY DEF GpuInv
<1>2. RingInv'
    BY <1>1, SendStep, DeviceStep, PruneStep, TurnStep DEF GpuNext
<1>. QED
    BY <1>2, MovesOn, CollectStep, SendKeeps, DeviceKeeps, PruneKeeps, ReceiveKeeps, GiveKeeps DEF GpuNext

-----------------------------------------------------------------------------
(* The children in a pool are those of its fathers.                        *)
LEMMA ChildrenOfFathers ==
    ASSUME NEW pool, NEW D, Fathered(pool, D), \A f \in D : Proper(tables, f)
    PROVE  /\ \A j \in DOMAIN pool : \E f \in D : \E i \in 1 .. Wide(f) : pool[j] = Entry(f, i)
           /\ \A f \in D : \A i \in 1 .. Wide(f) : \E j \in DOMAIN pool : pool[j] = Entry(f, i)
<1>1. PICK n \in Nat : \E fs, pos : EachOnce(fs, n, D) /\ Laid(pool, fs, n, pos)
    BY DEF Fathered
<1>2. PICK fs, pos : EachOnce(fs, n, D) /\ Laid(pool, fs, n, pos)
    BY <1>1
<1>3. \A k \in 1 .. n : fs[k] \in D /\ Wide(fs[k]) \in Nat /\ Wide(fs[k]) >= 2
  <2>1. \A k \in 1 .. n : fs[k] \in D
      BY <1>2 DEF EachOnce
  <2>. QED
      BY <2>1, CountFree
<1>4. /\ \A k \in 0 .. n : pos[k] \in Nat
      /\ \A k \in 1 .. n : /\ pos[k] = pos[k - 1] + Wide(fs[k])
                           /\ Wide(fs[k]) \in Nat /\ Wide(fs[k]) >= 2
                           /\ pos[k - 1] \in Nat /\ pos[k] \in Nat
                           /\ pos[k - 1] < pos[k] /\ pos[k] <= pos[n]
    BY <1>2, <1>3, LaidGrows
<1>5. /\ pos[0] = 0 /\ DOMAIN pool = 1 .. pos[n]
      /\ \A k \in 1 .. n : \A i \in 1 .. Wide(fs[k]) : pool[pos[k - 1] + i] = Entry(fs[k], i)
  <2>1. pool \in Seq(Entries) /\ Len(pool) = pos[n]
      BY <1>2 DEF Laid
  <2>. QED
      BY <1>2, <2>1, LenProperties DEF Laid
<1>. DEFINE At(j) == \E k \in 1 .. n : \E i \in 1 .. Wide(fs[k]) : j = pos[k - 1] + i
            S == {m \in 0 .. n : \A j \in 1 .. pos[m] : At(j)}
<1>6. 0 \in S
  <2>1. 1 .. pos[0] = {}
      BY <1>5
  <2>. QED
      BY <2>1
<1>7. ASSUME NEW m \in 1 .. n, m - 1 \in S PROVE m \in S
  <2>. SUFFICES ASSUME NEW j \in 1 .. pos[m] PROVE At(j)
      OBVIOUS
  <2>1. /\ pos[m] = pos[m - 1] + Wide(fs[m]) /\ Wide(fs[m]) \in Nat /\ pos[m - 1] \in Nat
      BY <1>4
  <2>2. CASE j \in 1 .. pos[m - 1]
      BY <1>7, <2>2
  <2>3. CASE j \notin 1 .. pos[m - 1]
    <3>1. j - pos[m - 1] \in 1 .. Wide(fs[m]) /\ j = pos[m - 1] + (j - pos[m - 1])
        BY <2>1, <2>3
    <3>. QED
        BY <3>1
  <2>. QED
      BY <2>2, <2>3
<1>8. \A j \in 1 .. pos[n] : At(j)
  <2>. HIDE DEF S
  <2>1. n \in S
      BY <1>6, <1>7, UpTo
  <2>. QED
      BY <2>1 DEF S
<1>9. \A j \in DOMAIN pool : \E f \in D : \E i \in 1 .. Wide(f) : pool[j] = Entry(f, i)
  <2>. SUFFICES ASSUME NEW j \in 1 .. pos[n]
                PROVE  \E f \in D : \E i \in 1 .. Wide(f) : pool[j] = Entry(f, i)
      BY <1>5
  <2>1. PICK k \in 1 .. n : \E i \in 1 .. Wide(fs[k]) : j = pos[k - 1] + i
      BY <1>8
  <2>2. PICK i \in 1 .. Wide(fs[k]) : j = pos[k - 1] + i
      BY <2>1
  <2>3. pool[j] = Entry(fs[k], i) /\ fs[k] \in D
      BY <1>3, <1>5, <2>2
  <2>. QED
      BY <2>3
<1>10. \A f \in D : \A i \in 1 .. Wide(f) : \E j \in DOMAIN pool : pool[j] = Entry(f, i)
  <2>. SUFFICES ASSUME NEW f \in D, NEW i \in 1 .. Wide(f)
                PROVE  \E j \in DOMAIN pool : pool[j] = Entry(f, i)
      OBVIOUS
  <2>1. PICK k \in 1 .. n : fs[k] = f
      BY <1>2 DEF EachOnce
  <2>2. /\ pos[k] = pos[k - 1] + Wide(f) /\ pos[k] <= pos[n] /\ Wide(f) \in Nat
        /\ pos[k - 1] \in Nat /\ pos[n] \in Nat
      BY <1>4, <2>1
  <2>3. pos[k - 1] + i \in 1 .. pos[n]
      BY <2>2
  <2>. QED
      BY <1>5, <2>1, <2>3
<1>. QED
    BY <1>9, <1>10

(* What is on its way to the device or back, by its fathers. *)
LEMMA SentAre ==
    ASSUME GpuInv, NEW D, Located(D)
    PROVE  /\ \A c \in Sent : \E k \in DOMAIN D : \E f \in D[k] : \E i \in 1 .. Wide(f) : c = Entry(f, i)
           /\ \A k \in DOMAIN D : \A f \in D[k] : \A i \in 1 .. Wide(f) : Entry(f, i) \in Sent
           /\ \A k \in DOMAIN D : \A f \in D[k] : Proper(tables, f)
           /\ \A p \in Open : p \in Held(Now, Under(fathers, D), away)
           /\ \A p \in Held(Now, Under(fathers, D), away) :
                  p \in Open \/ \E k \in DOMAIN D : p \in D[k]
           /\ \A p \in Held(Now, Under(fathers, D), away) : Proper(tables, p)
           /\ DOMAIN D = 1 .. Waits /\ DOMAIN readyPoolToGPU = 1 .. Waits
<1>1. Underway(Pools, D, fathers) /\ Whole(tables, cpu_explored_leaves, Now, Under(fathers, D), away)
    BY DEF Located
<1>2. DOMAIN readyPoolToGPU = 1 .. Waits
  <2>1. PICK S : readyPoolToGPU \in Seq(S)
      BY DEF GpuInv, RingInv, Consecutive
  <2>. QED
      BY <2>1, LenProperties DEF Waits
<1>3. DOMAIN D = 1 .. Waits /\ \A k \in 1 .. Waits : Fathered(Pool(k), D[k])
    BY <1>1 DEF Underway, Pools
<1>4. \A p \in Held(Now, Under(fathers, D), away) : Proper(tables, p)
    BY <1>1 DEF Whole
<1>5. /\ \A k \in DOMAIN D : \A f \in D[k] : f \in Held(Now, Under(fathers, D), away)
      /\ \A p \in Open : p \in Held(Now, Under(fathers, D), away)
      /\ \A p \in Held(Now, Under(fathers, D), away) :
             p \in Open \/ \E k \in DOMAIN D : p \in D[k]
    BY DEF Held, Under, Open, Now, Collected
<1>6. \A k \in DOMAIN D : \A f \in D[k] : Proper(tables, f)
    BY <1>4, <1>5
<1>7. \A k \in 1 .. Waits :
          /\ \A j \in DOMAIN Pool(k) : \E f \in D[k] : \E i \in 1 .. Wide(f) : Pool(k)[j] = Entry(f, i)
          /\ \A f \in D[k] : \A i \in 1 .. Wide(f) : \E j \in DOMAIN Pool(k) : Pool(k)[j] = Entry(f, i)
  <2>. SUFFICES ASSUME NEW k \in 1 .. Waits
                PROVE  /\ \A j \in DOMAIN Pool(k) : \E f \in D[k] : \E i \in 1 .. Wide(f) : Pool(k)[j] = Entry(f, i)
                       /\ \A f \in D[k] : \A i \in 1 .. Wide(f) : \E j \in DOMAIN Pool(k) : Pool(k)[j] = Entry(f, i)
      OBVIOUS
  <2>1. Fathered(Pool(k), D[k]) /\ \A f \in D[k] : Proper(tables, f)
      BY <1>3, <1>6
  <2>. DEFINE pool == Pool(k)
              C == D[k]
  <2>. HIDE DEF pool, C
  <2>2. Fathered(pool, C) /\ \A f \in C : Proper(tables, f)
      BY <2>1 DEF pool, C
  <2>3. /\ \A j \in DOMAIN pool : \E f \in C : \E i \in 1 .. Wide(f) : pool[j] = Entry(f, i)
        /\ \A f \in C : \A i \in 1 .. Wide(f) : \E j \in DOMAIN pool : pool[j] = Entry(f, i)
      BY <2>2, ChildrenOfFathers
  <2>. QED
      BY <2>3 DEF pool, C
<1>8. \A c : c \in Sent <=> \E k \in 1 .. Waits : \E j \in DOMAIN Pool(k) : c = Pool(k)[j]
    BY <1>2 DEF Sent
<1>9. \A c \in Sent : \E k \in DOMAIN D : \E f \in D[k] : \E i \in 1 .. Wide(f) : c = Entry(f, i)
    BY <1>3, <1>7, <1>8
<1>10. \A k \in DOMAIN D : \A f \in D[k] : \A i \in 1 .. Wide(f) : Entry(f, i) \in Sent
    BY <1>3, <1>7, <1>8
<1>. QED
    BY <1>2, <1>3, <1>4, <1>5, <1>6, <1>9, <1>10

(* The children in the pools have the fields that problem.h describes. *)
LEMMA EntryWellFormed ==
    ASSUME NEW t, NEW f, Proper(t, f), NEW i \in 1 .. Wide(f)
    PROVE  WellFormed(Entry(f, i).problem)
<1>1. WellFormed(f) /\ ~leaf(f)
    BY ProperFacts
<1>2. PICK e \in Ends(f), j \in Free(f) : Entry(f, i).problem = create_raw_problem3(f, j, e)
    BY EntryFacts
<1>. QED
    BY <1>1, <1>2, ChildWellFormed

LEMMA SentWellFormed ==
    ASSUME GpuInv
    PROVE  \A c \in Sent : WellFormed(c.problem)
<1>1. PICK D : Located(D)
    BY DEF GpuInv
<1>2. /\ \A c \in Sent : \E k \in DOMAIN D : \E f \in D[k] : \E i \in 1 .. Wide(f) : c = Entry(f, i)
      /\ \A k \in DOMAIN D : \A f \in D[k] : Proper(tables, f)
    BY <1>1, SentAre
<1>. QED
    BY <1>2, EntryWellFormed

(* The inductive invariant of the explorer of a GPU peer. *)
LEMMA GpuInvariant == ASSUME Suited PROVE GpuSpec => []GpuInv
<1>1. GpuInit => GpuInv
    BY InitGpuInv
<1>2. GpuInv /\ [GpuNext]_gpuVars => GpuInv'
    BY GpuInvNext
<1>. QED
    BY <1>1, <1>2, PTL DEF GpuSpec

(* The fields of every subproblem agree, those of the children that        *)
(* decompose_on_cpu wrote too, though leaves_generate3 sets the depth of   *)
(* the pool's first child; no more pools are sent than there are slots; and*)
(* the one schedule that solutions keeps costs tree::cout.                 *)
THEOREM GpuTypes == ASSUME Suited PROVE GpuSpec => []GpuTypeOK
<1>1. ASSUME GpuInv PROVE GpuTypeOK
  <2>1. PICK D : Located(D)
      BY <1>1 DEF GpuInv
  <2>2. \A p \in Open : WellFormed(p)
      BY <1>1, <2>1, SentAre, ProperFacts
  <2>3. \A c \in Sent : WellFormed(c.problem)
      BY <1>1, SentWellFormed
  <2>4. \A cost \in wsltns : cost = cout
      BY <2>1 DEF Located, Whole, Costs, Now
  <2>5. /\ current_index_gpu \in Slot /\ starting_index_gpu \in Slot
        /\ Len(readyPoolToGPU) <= MAX_SIZE_INPUTQUEUE_TO_GPU
    <3>1. Waits \in 0 .. M /\ starting_index_gpu \in Slot
          /\ current_index_gpu = After(starting_index_gpu, Waits)
        BY <1>1, WaitsType, RingFacts DEF GpuInv, RingInv, Consecutive
    <3>2. Waits <= M
        BY <1>1 DEF GpuInv, RingInv, Consecutive
    <3>. QED
        BY <3>1, <3>2, AfterFacts DEF Waits, M
  <2>. QED
      BY <1>1, <2>2, <2>3, <2>4, <2>5 DEF GpuInv, GpuTypeOK
<1>. QED
    BY <1>1, GpuInvariant, PTL

(* The device's bound of every child that is sent is the host's: a GPU     *)
(* peer and a CPU peer cut the same subtrees.                              *)
THEOREM DeviceAgrees == ASSUME Suited PROVE GpuSpec => []DeviceBoundAgrees
<1>1. ASSUME GpuInv PROVE DeviceBoundAgrees
  <2>. SUFFICES ASSUME NEW c \in Sent
                PROVE  Evaluate_ON_GPU(tables_g, c.problem) = bornes_calculer(tables, c.problem)
      BY DEF DeviceBoundAgrees
  <2>1. Frame(c.problem)
      BY <1>1, SentWellFormed, WellFormedFrame
  <2>2. Bytes(tables) /\ Short(tables) /\ SameInstance(tables, tables_g)
      BY <1>1, Copies DEF GpuInv, Instance, Suits
  <2>. QED
      BY <2>1, <2>2, DeviceBound
<1>. QED
    BY <1>1, GpuInvariant, PTL

(* Among GPU peers no better schedule is lost between the tree, the        *)
(* collected subproblems, the pools on the ring and the other peer.        *)
THEOREM NothingLostOnDevice == ASSUME Suited PROVE GpuSpec => []GpuNothingLost
<1>1. ASSUME GpuInv PROVE GpuNothingLost
  <2>. SUFFICES ASSUME NEW s \in Schedule, ~(cout <= criteres_calculer(tables, s))
                PROVE  \E p \in Open \cup {c.problem : c \in Sent} : Completes(s, p)
      BY DEF GpuNothingLost
  <2>1. PICK D : Located(D)
      BY <1>1 DEF GpuInv
  <2>2. PICK p \in Held(Now, Under(fathers, D), away) : Completes(s, p)
      BY <2>1 DEF Located, Whole, Now
  <2>3. CASE p \in Open
      BY <2>2, <2>3
  <2>4. CASE \E k \in DOMAIN D : p \in D[k]
    <3>1. Proper(tables, p) /\ WellFormed(p) /\ ~leaf(p)
        BY <1>1, <2>1, <2>2, SentAre, ProperFacts
    <3>2. BEGIN_ORDER \in Ends(p)
        BY DEF Ends
    <3>3. PICK j \in Free(p) : s[End(p, BEGIN_ORDER)] = p.permutation[j]
        BY <2>2, <3>1, <3>2, SomeChild
    <3>4. Completes(s, create_raw_problem3(p, j, BEGIN_ORDER))
        BY <2>2, <3>1, <3>2, <3>3, ChildCompletions
    <3>. DEFINE i == j - p.limite1
    <3>5. i \in 1 .. Count(p) /\ i \in 1 .. Wide(p) /\ i <= Count(p) /\ p.limite1 + i = j
      <4>1. /\ p.limite1 \in Int /\ p.limite2 = p.limite1 + Count(p) + 1 /\ Count(p) \in Nat
            /\ (simple(p) <=> Count(p) = 2)
          BY <3>1, CountFree
      <4>2. j \in p.limite1 + 1 .. p.limite2 - 1
          BY DEF Free
      <4>3. i \in 1 .. Count(p) /\ p.limite1 + i = j
          BY <4>1, <4>2
      <4>4. Wide(p) \in Nat /\ Count(p) <= Wide(p)
          BY <4>1 DEF Wide
      <4>. QED
          BY <4>1, <4>3, <4>4
    <3>6. Entry(p, i).problem = create_raw_problem3(p, j, BEGIN_ORDER)
      <4>1. Entry(p, i) = Child(p, j, BEGIN_ORDER)
          BY <3>5 DEF Entry
      <4>. QED
          BY <4>1 DEF Child
    <3>. HIDE DEF i
    <3>7. Entry(p, i) \in Sent
        BY <1>1, <2>1, <2>4, <3>5, SentAre
    <3>. QED
        BY <3>4, <3>6, <3>7
  <2>. QED
      BY <1>1, <2>1, <2>2, <2>3, <2>4, SentAre
<1>. QED
    BY <1>1, GpuInvariant, PTL

-----------------------------------------------------------------------------
(* Counting.                                                               *)
LEMMA WeightOne ==
    ASSUME NEW p, p.depth \in 0 .. Size
    PROVE  Weight({p}) = weights[p.depth] /\ weights[p.depth] \in Int /\ Weight({}) = 0
<1>1. IsFiniteSet({p}) /\ {p} \ {p} = {}
    BY FS_Singleton
<1>2. Weight({}) = 0
    BY TotalNone DEF Weight
<1>3. weights[p.depth] \in Int
    BY WeightFacts
<1>4. Weight({p}) = Weight({p} \ {p}) + weights[p.depth]
    BY <1>1, WeightAway
<1>. QED
    BY <1>1, <1>2, <1>3, <1>4

(* Sums over the first numbers, one number at a time. *)
Ints(f, S) == IsFiniteSet(S) /\ \A x \in S : f[x] \in Int

LEMMA TotalAway ==
    ASSUME NEW S, NEW f, Ints(f, S), NEW s \in SUBSET S, NEW x \in s
    PROVE  Total(f, s) = f[x] + Total(f, s \ {x}) /\ Total(f, s \ {x}) \in Int /\ f[x] \in Int
<1>1. IsFiniteSet(S) /\ \A y \in S : f[y] \in Int
    BY DEF Ints
<1>2. s \ {x} \in SUBSET S /\ x \in S
    OBVIOUS
<1>. QED
    BY <1>1, <1>2, TotalWithout

LEMMA TotalNext ==
    ASSUME NEW n \in Nat, NEW h, \A k \in 1 .. n : h[k] \in Int, NEW m \in 1 .. n
    PROVE  Total(h, 1 .. m) = Total(h, 1 .. m - 1) + h[m]
<1>1. Ints(h, 1 .. n)
    BY FS_Interval DEF Ints
<1>3. /\ 1 .. m \in SUBSET (1 .. n) /\ (1 .. m) \ {m} = 1 .. m - 1
      /\ m \in 1 .. m
    BY Initial
<1>4. Total(h, 1 .. m) = h[m] + Total(h, (1 .. m) \ {m}) /\ Total(h, (1 .. m) \ {m}) \in Int /\ h[m] \in Int
    <2>. DEFINE I == 1 .. n
                J == 1 .. m
    <2>1. Ints(h, I) /\ J \in SUBSET I /\ m \in J
      BY <1>1, <1>3
    <2>. HIDE DEF I, J
    <2>2. Total(h, J) = h[m] + Total(h, J \ {m}) /\ Total(h, J \ {m}) \in Int /\ h[m] \in Int
      BY <2>1, TotalAway
    <2>. QED
      BY <2>2 DEF J
<1>5. Total(h, 1 .. m - 1) \in Int /\ h[m] \in Int
    BY <1>4, <1>3
<1>6. Total(h, 1 .. m) = h[m] + Total(h, 1 .. m - 1)
    BY <1>3, <1>4
<1>. QED
    BY <1>5, <1>6

(* The weight of parts that have nothing in common. *)
Parts(P, n, h) ==
    /\ \A k \in 1 .. n : IsFiniteSet(P[k]) /\ \A p \in P[k] : p.depth \in 0 .. Size
    /\ \A k, m \in 1 .. n : k # m => P[k] \cap P[m] = {}
    /\ \A k \in 1 .. n : h[k] = Weight(P[k])

LEMMA WeightOfParts ==
    ASSUME NEW n \in Nat, NEW P, NEW h, Parts(P, n, h)
    PROVE  Total(h, 1 .. n) = Weight(UNION {P[k] : k \in 1 .. n})
<1>0. /\ \A k \in 1 .. n : IsFiniteSet(P[k]) /\ \A p \in P[k] : p.depth \in 0 .. Size
      /\ \A k, m \in 1 .. n : k # m => P[k] \cap P[m] = {}
      /\ \A k \in 1 .. n : h[k] = Weight(P[k])
    BY DEF Parts
<1>. DEFINE U(m) == UNION {P[k] : k \in 1 .. m}
            S == {m \in 0 .. n : IsFiniteSet(U(m)) /\ Total(h, 1 .. m) = Weight(U(m))}
<1>1. \A k \in 1 .. n : h[k] \in Int
  <2>. SUFFICES ASSUME NEW k \in 1 .. n PROVE Weight(P[k]) \in Int
      BY <1>0
  <2>1. P[k] \in SUBSET P[k]
      OBVIOUS
  <2>. QED
      BY <1>0, <2>1, WeightOf
<1>2. 0 \in S
  <2>1. 1 .. 0 = {} /\ U(0) = {} /\ Weight({}) = 0
      BY TotalNone DEF Weight
  <2>2. Total(h, {}) = 0 /\ IsFiniteSet({})
      BY TotalNone, FS_EmptySet
  <2>3. 0 \in 0 .. n
      OBVIOUS
  <2>. HIDE DEF U
  <2>4. IsFiniteSet(U(0)) /\ Total(h, 1 .. 0) = Weight(U(0))
      BY <2>1, <2>2
  <2>. QED
      BY <2>3, <2>4
<1>3. ASSUME NEW m \in 1 .. n, m - 1 \in S PROVE m \in S
  <2>1. \A k \in 1 .. m - 1 : k \in 1 .. n /\ k # m
      OBVIOUS
  <2>2. U(m) = U(m - 1) \cup P[m]
    <3>1. \A k : k \in 1 .. m <=> k \in 1 .. m - 1 \/ k = m
        OBVIOUS
    <3>. QED
        BY <3>1
  <2>3. U(m - 1) \cap P[m] = {}
      BY <1>0, <2>1
  <2>4. \A p \in U(m - 1) \cup P[m] : p.depth \in 0 .. Size
      BY <1>0, <2>1
  <2>5. IsFiniteSet(U(m - 1)) /\ IsFiniteSet(P[m]) /\ Total(h, 1 .. m - 1) = Weight(U(m - 1))
      BY <1>0, <1>3
  <2>6. IsFiniteSet(U(m)) /\ Weight(U(m)) = Weight(U(m - 1)) + Weight(P[m])
    <3>. DEFINE V == U(m - 1)
                Q == P[m]
    <3>1. /\ IsFiniteSet(V) /\ IsFiniteSet(Q) /\ V \cap Q = {}
          /\ \A p \in V \cup Q : p.depth \in 0 .. Size
        BY <2>3, <2>4, <2>5
    <3>2. U(m) = V \cup Q
        BY <2>2
    <3>. HIDE DEF V, Q, U
    <3>3. IsFiniteSet(V \cup Q) /\ Weight(V \cup Q) = Weight(V) + Weight(Q)
        BY <3>1, FS_Union, WeightBoth
    <3>. QED
        BY <3>2, <3>3 DEF V, Q
  <2>. HIDE DEF U
  <2>7. Total(h, 1 .. m) = Total(h, 1 .. m - 1) + h[m]
      BY <1>1, TotalNext
  <2>. QED
      BY <1>0, <2>5, <2>6, <2>7
<1>4. n \in S
  <2>. HIDE DEF S
  <2>. QED
      BY <1>2, <1>3, UpTo
<1>. QED
    BY <1>4

Begins(pool) == {j \in 1 .. Len(pool) : pool[j].begin_end = BEGIN_ORDER}

(* One end of every family of a pool counts for the fathers. *)
LEMMA BegunWeight ==
    ASSUME NEW pool, NEW D, Fathered(pool, D), \A f \in D : Proper(tables, f)
    PROVE  /\ Total([j \in Begins(pool) |-> weights[pool[j].problem.depth]], Begins(pool)) = Weight(D)
           /\ IsFiniteSet(D)
<1>1. PICK n \in Nat : \E fs, pos : EachOnce(fs, n, D) /\ Laid(pool, fs, n, pos)
    BY DEF Fathered
<1>2. PICK fs, pos : EachOnce(fs, n, D) /\ Laid(pool, fs, n, pos)
    BY <1>1
<1>3. \A k \in 1 .. n : fs[k] \in D /\ Proper(tables, fs[k])
                        /\ Wide(fs[k]) \in Nat /\ Wide(fs[k]) >= 2
  <2>1. \A k \in 1 .. n : fs[k] \in D
      BY <1>2 DEF EachOnce
  <2>. QED
      BY <2>1, CountFree
<1>4. /\ \A k \in 0 .. n : pos[k] \in Nat /\ pos[k] <= pos[n]
      /\ \A k \in 1 .. n : /\ pos[k] = pos[k - 1] + Wide(fs[k])
                           /\ Wide(fs[k]) \in Nat /\ Wide(fs[k]) >= 2
                           /\ pos[k - 1] \in Nat /\ pos[k] \in Nat
                           /\ pos[k - 1] < pos[k] /\ pos[k] <= pos[n]
    BY <1>2, <1>3, LaidGrows
<1>5. /\ pos[0] = 0 /\ Len(pool) = pos[n]
      /\ \A k \in 1 .. n : \A i \in 1 .. Wide(fs[k]) : pool[pos[k - 1] + i] = Entry(fs[k], i)
    BY <1>2 DEF Laid
<1>. DEFINE g == [j \in 1 .. pos[n] |-> weights[pool[j].problem.depth]]
            B(m) == {j \in 1 .. pos[m] : pool[j].begin_end = BEGIN_ORDER}
            out(m) == {fs[k] : k \in 1 .. m}
            S == {m \in 0 .. n : IsFiniteSet(out(m)) /\ Total(g, B(m)) = Weight(out(m))}
<1>6. \A j \in 1 .. pos[n] : g[j] \in Int
  <2>. SUFFICES ASSUME NEW j \in 1 .. pos[n] PROVE weights[pool[j].problem.depth] \in Int
      OBVIOUS
  <2>1. j \in DOMAIN pool
      BY <1>2, <1>5, LenProperties DEF Laid
  <2>2. PICK f \in D : \E i \in 1 .. Wide(f) : pool[j] = Entry(f, i)
      BY <2>1, ChildrenOfFathers
  <2>3. WellFormed(pool[j].problem)
      BY <2>2, EntryWellFormed
  <2>. QED
      BY <2>3, WeightFacts DEF WellFormed
<1>7. 0 \in S
  <2>1. B(0) = {} /\ out(0) = {}
      BY <1>5
  <2>2. Total(g, {}) = 0 /\ Weight({}) = 0 /\ IsFiniteSet({})
      BY TotalNone, FS_EmptySet DEF Weight
  <2>. HIDE DEF B, out, g
  <2>. QED
      BY <2>1, <2>2
<1>8. IsFiniteSet(1 .. pos[n]) /\ \A m \in 0 .. n : B(m) \in SUBSET (1 .. pos[n])
  <2>1. 1 \in Int /\ pos[n] \in Int
    <3>1. n \in 0 .. n
        OBVIOUS
    <3>. QED
        BY <1>4, <3>1
  <2>2. IsFiniteSet(1 .. pos[n])
      BY <2>1, FS_Interval
  <2>3. ASSUME NEW m \in 0 .. n PROVE B(m) \in SUBSET (1 .. pos[n])
    <3>1. pos[m] \in Nat /\ pos[m] <= pos[n]
        BY <1>4
    <3>2. \A j \in 1 .. pos[m] : j \in 1 .. pos[n]
        BY <2>1, <3>1
    <3>. QED
        BY <3>2
  <2>. QED
      BY <2>2, <2>3
<1>9. ASSUME NEW m \in 1 .. n, m - 1 \in S PROVE m \in S
  <2>. DEFINE f == fs[m]
              a == pos[m - 1]
              c == Count(f)
              New == a + 1 .. a + c
              d == IF simple(f) THEN Size ELSE f.depth + 1
              w == weights[d]
  <2>1. /\ Proper(tables, f) /\ WellFormed(f) /\ ~leaf(f) /\ f.depth \in 0 .. Size - 2
        /\ f.limite1 \in Int /\ c \in Nat /\ c >= 2 /\ (simple(f) <=> c = 2)
        /\ \A k \in 1 .. c : f.limite1 + k \in Free(f)
      BY <1>3, CountFree, ProperFacts
  <2>2. /\ a \in Nat /\ pos[m] = a + Wide(f) /\ pos[m] <= pos[n] /\ pos[n] \in Nat
        /\ Wide(f) \in Nat /\ c <= Wide(f)
        /\ \A i \in 1 .. Wide(f) : pool[a + i] = Entry(f, i)
      BY <1>4, <1>5, <2>1 DEF Wide
  <2>3. BEGIN_ORDER # END_ORDER /\ BEGIN_ORDER \in Ends(f)
      BY DEF BEGIN_ORDER, END_ORDER, Ends
  <2>4. \A i \in 1 .. Wide(f) : pool[a + i].begin_end = BEGIN_ORDER <=> i <= c
    <3>. SUFFICES ASSUME NEW i \in 1 .. Wide(f) PROVE Entry(f, i).begin_end = BEGIN_ORDER <=> i <= c
        BY <2>2
    <3>. QED
        BY <2>3 DEF Entry, Child
  <2>5. \A i \in 1 .. c : i \in 1 .. Wide(f) /\ pool[a + i].problem.depth = d
    <3>. SUFFICES ASSUME NEW i \in 1 .. c PROVE i \in 1 .. Wide(f) /\ Entry(f, i).problem.depth = d
        BY <2>2
    <3>1. i \in 1 .. Wide(f) /\ Entry(f, i) = Child(f, f.limite1 + i, BEGIN_ORDER)
        BY <2>1, <2>2 DEF Entry
    <3>2. Child(f, f.limite1 + i, BEGIN_ORDER).problem.depth = d
        BY <2>1, <2>3, ChildEntry
    <3>. QED
        BY <3>1, <3>2
  <2>6. w \in Int /\ weights[f.depth] = c * w
    <3>1. weights[f.depth] = weights[f.depth + 1] * (Size - f.depth) /\ c = Size - f.depth
        BY <2>1, WeightFacts DEF Count
    <3>2. d \in 0 .. Size
        BY SMTT(30), <2>1, SizeFacts
    <3>3. weights[f.depth + 1] = w
      <4>1. CASE simple(f)
        <5>1. f.depth + 1 = Size - 1
            BY <2>1, <3>1, <4>1, SizeFacts
        <5>. QED
            BY <4>1, <5>1, WeightFacts
      <4>2. CASE ~simple(f)
          BY <4>2
      <4>. QED
          BY <4>1, <4>2
    <3>4. w \in Int
        BY <3>2, WeightFacts
    <3>. HIDE DEF w, c
    <3>5. c * w = w * c
        BY <2>1, <3>4
    <3>. QED
        BY <3>1, <3>3, <3>4, <3>5
  <2>. HIDE DEF f, a, c, d, w
  <2>7. \A i \in New : i - a \in 1 .. c /\ a + (i - a) = i /\ i \in 1 .. pos[n] /\ i \in 1 .. pos[m]
                       /\ i \notin 1 .. a
      BY <2>1, <2>2
  <2>8. \A j \in New : g[j] = w
    <3>. SUFFICES ASSUME NEW j \in New PROVE weights[pool[j].problem.depth] = w
        BY <2>7
    <3>1. pool[a + (j - a)].problem.depth = d
        BY <2>5, <2>7
    <3>. QED
        BY <2>7, <3>1 DEF w
  <2>9. IsFiniteSet(New) /\ Cardinality(New) = c
    <3>1. a + 1 \in Int /\ a + c \in Int /\ ~(a + 1 > a + c) /\ (a + c) - (a + 1) + 1 = c
        BY <2>1, <2>2
    <3>. QED
        BY <3>1, FS_Interval
  <2>10. B(m) = B(m - 1) \cup New /\ B(m - 1) \cap New = {} /\ New \in SUBSET (1 .. pos[n])
    <3>1. \A j \in 1 .. pos[m] : j \notin 1 .. a => j - a \in 1 .. Wide(f) /\ a + (j - a) = j
        BY <2>2
    <3>2. \A j \in 1 .. pos[m] : j \notin 1 .. a =>
              (pool[j].begin_end = BEGIN_ORDER <=> j \in New)
      <4>. SUFFICES ASSUME NEW j \in 1 .. pos[m], j \notin 1 .. a
                    PROVE  pool[j].begin_end = BEGIN_ORDER <=> j \in New
          OBVIOUS
      <4>. DEFINE i == j - a
      <4>1. i \in 1 .. Wide(f) /\ a + i = j
          BY <3>1
      <4>2. i <= c <=> j \in New
          BY <2>1, <2>2, <4>1
      <4>. HIDE DEF i, New
      <4>. QED
          BY <2>4, <4>1, <4>2
    <3>3. B(m - 1) = {j \in 1 .. a : pool[j].begin_end = BEGIN_ORDER}
        BY DEF a
    <3>4. \A j \in 1 .. a : j \in 1 .. pos[m]
        BY <2>2
    <3>. HIDE DEF New
    <3>. QED
        BY <2>7, <3>2, <3>3, <3>4
  <2>11. Total(g, B(m)) = Total(g, B(m - 1)) + c * w
    <3>1. Total(g, New) = c * w
        BY ZenonT(60), <2>6, <2>8, <2>9, TotalConstant
    <3>2. B(m - 1) \in SUBSET (1 .. pos[n])
        BY <1>8
    <3>. DEFINE I == 1 .. pos[n]
    <3>3. IsFiniteSet(I) /\ (\A j \in I : g[j] \in Int) /\ B(m - 1) \in SUBSET I /\ New \in SUBSET I
        BY <1>6, <1>8, <2>10, <3>2
    <3>4. B(m - 1) \cap New = {} /\ B(m) = B(m - 1) \cup New
        BY <2>10
    <3>. HIDE DEF New, B, g, I
    <3>5. Total(g, B(m - 1) \cup New) = Total(g, B(m - 1)) + Total(g, New)
        BY <3>3, <3>4, TotalUnion
    <3>. QED
        BY <3>1, <3>4, <3>5
  <2>12. out(m) = out(m - 1) \cup {f} /\ f \notin out(m - 1)
      BY <1>2 DEF EachOnce, f
  <2>13. IsFiniteSet(out(m - 1)) /\ Total(g, B(m - 1)) = Weight(out(m - 1))
      BY <1>9
  <2>14. \A p \in out(m) : p.depth \in 0 .. Size
      BY <1>3, ProperFacts
  <2>. HIDE DEF out, B, g
  <2>15. IsFiniteSet(out(m)) /\ f \in out(m) /\ out(m) \ {f} = out(m - 1)
      BY <2>12, <2>13, FS_AddElement
  <2>16. Weight(out(m)) = Weight(out(m - 1)) + weights[f.depth]
      BY <2>14, <2>15, WeightAway
  <2>. QED
      BY <2>6, <2>11, <2>13, <2>15, <2>16
<1>10. n \in S
  <2>. HIDE DEF S
  <2>. QED
      BY <1>7, <1>9, UpTo
<1>11. out(n) = D
    BY <1>2 DEF EachOnce
<1>12. B(n) = Begins(pool)
    BY <1>5 DEF Begins
<1>13. Total([j \in Begins(pool) |-> weights[pool[j].problem.depth]], Begins(pool)) = Total(g, Begins(pool))
  <2>. DEFINE e == [j \in Begins(pool) |-> weights[pool[j].problem.depth]]
  <2>1. \A j \in Begins(pool) : j \in 1 .. pos[n] /\ e[j] = g[j] /\ g[j] \in Int
      BY <1>5, <1>6 DEF Begins
  <2>2. Begins(pool) \subseteq 1 .. pos[n]
      BY <2>1
  <2>3. IsFiniteSet(Begins(pool))
      BY <1>8, <2>2, FS_Subset
  <2>. HIDE DEF e, g
  <2>4. Total(e, Begins(pool)) = Total(g, Begins(pool))
      BY <2>1, <2>3, TotalSame
  <2>. QED
      BY <2>4 DEF e
<1>. QED
    BY <1>10, <1>11, <1>12, <1>13

(* The sums that GpuLeavesAccounted names. *)
SentWeight(k) ==
    SumFunction([j \in {j \in 1 .. Len(Pool(k)) : Pool(k)[j].begin_end = BEGIN_ORDER} |->
                    weights[Pool(k)[j].problem.depth]])

LEMMA GpuCountedIs ==
    GpuLeavesAccounted <=>
        explored_leaves + cpu_explored_leaves + Weight(tree) + Weight(away)
            + Total([k \in DOMAIN fathers |-> weights[fathers[k].depth]], DOMAIN fathers)
            + Total([k \in DOMAIN readyPoolToGPU |-> SentWeight(k)], DOMAIN readyPoolToGPU)
          = weights[0]
BY DEF GpuLeavesAccounted, SentWeight, Weight, Total, SumFunction

(* A pool that was sent counts for its fathers. *)
LEMMA SentWeightIs ==
    ASSUME NEW k
    PROVE  SentWeight(k) = Total([j \in Begins(Pool(k)) |-> weights[Pool(k)[j].problem.depth]],
                                 Begins(Pool(k)))
BY DEF SentWeight, Begins, Total, SumFunction

(* The subproblems collected count once each. *)
LEMMA FathersWeight ==
    ASSUME GpuInv, \A p \in Collected(fathers) : p.depth \in 0 .. Size
    PROVE  Total([k \in DOMAIN fathers |-> weights[fathers[k].depth]], DOMAIN fathers)
              = Weight(Collected(fathers))
<1>. DEFINE n == Len(fathers)
            C == Collected(fathers)
            P == [k \in 1 .. n |-> {fathers[k]}]
            h == [k \in 1 .. n |-> weights[fathers[k].depth]]
<1>1. n \in Nat /\ DOMAIN fathers = 1 .. n
  <2>1. fathers \in Seq(C)
      BY DEF GpuInv, Gathered
  <2>. HIDE DEF C
  <2>. QED
      BY <2>1, LenProperties
<1>2. \A k \in 1 .. n : fathers[k] \in C /\ fathers[k].depth \in 0 .. Size
    BY <1>1 DEF Collected
<1>3. \A k, m \in 1 .. n : fathers[k] = fathers[m] => k = m
    BY DEF GpuInv, Gathered
<1>4. /\ \A k \in 1 .. n : IsFiniteSet(P[k]) /\ \A p \in P[k] : p.depth \in 0 .. Size
      /\ \A k, m \in 1 .. n : k # m => P[k] \cap P[m] = {}
      /\ \A k \in 1 .. n : h[k] = Weight(P[k])
  <2>1. \A k \in 1 .. n : P[k] = {fathers[k]} /\ h[k] = weights[fathers[k].depth]
      OBVIOUS
  <2>2. \A k \in 1 .. n : Weight({fathers[k]}) = weights[fathers[k].depth]
      BY <1>2, WeightOne
  <2>3. \A k \in 1 .. n : IsFiniteSet({fathers[k]})
      BY FS_Singleton
  <2>. HIDE DEF P, h, n
  <2>. QED
      BY <1>2, <1>3, <2>1, <2>2, <2>3
<1>5. UNION {P[k] : k \in 1 .. n} = C
    BY <1>1 DEF Collected
<1>6. Total(h, 1 .. n) = Weight(C)
  <2>. HIDE DEF P, h, n, C
  <2>1. Parts(P, n, h)
      BY <1>4 DEF Parts
  <2>. QED
      BY <1>1, <1>5, <2>1, WeightOfParts
<1>7. h = [k \in DOMAIN fathers |-> weights[fathers[k].depth]]
    BY <1>1
<1>. HIDE DEF h, n
<1>. QED
    BY <1>1, <1>6, <1>7

(* The leaves that ~tree reports are all the schedules once nothing is     *)
(* open: none is counted twice or left out, whether it was dropped when it *)
(* was collected, when its family was pruned, or on the CPU.               *)
THEOREM LeavesOnDeviceAccounted == ASSUME Suited PROVE GpuSpec => []GpuLeavesAccounted
<1>1. ASSUME GpuInv PROVE GpuLeavesAccounted
  <2>1. PICK D : Located(D)
      BY <1>1 DEF GpuInv
  <2>. DEFINE C == Collected(fathers)
              U == UNION {D[k] : k \in DOMAIN D}
              R == Under(fathers, D)
              H == Held(Now, R, away)
  <2>2. Underway(Pools, D, fathers) /\ Whole(tables, cpu_explored_leaves, Now, R, away)
      BY <2>1 DEF Located
  <2>3. /\ DOMAIN D = 1 .. Waits /\ DOMAIN readyPoolToGPU = 1 .. Waits
        /\ \A k \in DOMAIN D : \A f \in D[k] : Proper(tables, f)
      BY <1>1, <2>1, SentAre
  <2>4. Waits \in Nat
      BY <1>1, WaitsType DEF GpuInv, RingInv
  <2>5. /\ R = C \cup U /\ H = (tree \cup away) \cup (C \cup U)
        /\ tree \cap R = {} /\ tree \cap away = {} /\ R \cap away = {}
        /\ IsFiniteSet(H) /\ (\A p \in H : Proper(tables, p))
        /\ explored_leaves \in Nat /\ cpu_explored_leaves \in Nat
        /\ explored_leaves + cpu_explored_leaves + Weight(H) = weights[0]
      BY <2>2 DEF Under, Whole, Held, Now
  <2>6. C \cap U = {}
      BY <2>2 DEF Underway
  <2>7. \A p \in H : p.depth \in 0 .. Size
      BY <2>5, ProperFacts
  <2>8. Total([k \in DOMAIN readyPoolToGPU |-> SentWeight(k)], DOMAIN readyPoolToGPU) = Weight(U)
    <3>. DEFINE h == [k \in 1 .. Waits |-> SentWeight(k)]
    <3>1. \A k \in 1 .. Waits : h[k] = Weight(D[k]) /\ IsFiniteSet(D[k])
      <4>. SUFFICES ASSUME NEW k \in 1 .. Waits PROVE SentWeight(k) = Weight(D[k]) /\ IsFiniteSet(D[k])
          OBVIOUS
      <4>. DEFINE pool == Pool(k)
                  E == D[k]
      <4>1. Fathered(pool, E)
          BY <2>2 DEF Underway, Pools
      <4>2. \A f \in E : Proper(tables, f)
          BY <2>3
      <4>3. SentWeight(k) = Total([j \in Begins(pool) |-> weights[pool[j].problem.depth]], Begins(pool))
          BY SentWeightIs
      <4>. HIDE DEF pool, E
      <4>4. SentWeight(k) = Weight(E) /\ IsFiniteSet(E)
          BY <4>1, <4>2, <4>3, BegunWeight
      <4>. QED
          BY <4>4 DEF E
    <3>2. \A k \in 1 .. Waits : IsFiniteSet(D[k]) /\ \A p \in D[k] : p.depth \in 0 .. Size
        BY <2>3, <3>1, ProperFacts
    <3>3. \A k, m \in 1 .. Waits : k # m => D[k] \cap D[m] = {}
        BY <2>2, <2>3 DEF Underway
    <3>. HIDE DEF h
    <3>4. Total(h, 1 .. Waits) = Weight(UNION {D[k] : k \in 1 .. Waits})
      <4>. DEFINE n == Waits
      <4>. HIDE DEF n
      <4>1. n \in Nat
          BY <2>4 DEF n
      <4>2. /\ \A k \in 1 .. n : IsFiniteSet(D[k]) /\ \A p \in D[k] : p.depth \in 0 .. Size
            /\ \A k, m \in 1 .. n : k # m => D[k] \cap D[m] = {}
            /\ \A k \in 1 .. n : h[k] = Weight(D[k])
          BY <3>1, <3>2, <3>3 DEF n
      <4>3. Total(h, 1 .. n) = Weight(UNION {D[k] : k \in 1 .. n})
        <5>1. Parts(D, n, h)
            BY <4>2 DEF Parts
        <5>. QED
            BY <4>1, <5>1, WeightOfParts
      <4>. QED
          BY <4>3 DEF n
    <3>5. h = [k \in DOMAIN readyPoolToGPU |-> SentWeight(k)]
        BY <2>3 DEF h
    <3>. QED
        BY <2>3, <3>4, <3>5
  <2>9. Total([k \in DOMAIN fathers |-> weights[fathers[k].depth]], DOMAIN fathers) = Weight(C)
      BY <1>1, <2>5, <2>7, FathersWeight
  <2>10. Weight(H) = Weight(tree) + Weight(away) + Weight(C) + Weight(U)
    <3>1. /\ IsFiniteSet(tree) /\ IsFiniteSet(away) /\ IsFiniteSet(C) /\ IsFiniteSet(U)
          /\ IsFiniteSet(tree \cup away) /\ IsFiniteSet(C \cup U)
      <4>1. /\ tree \subseteq H /\ away \subseteq H /\ C \subseteq H /\ U \subseteq H
            /\ tree \cup away \subseteq H /\ C \cup U \subseteq H
          BY <2>5
      <4>. HIDE DEF C, U, H
      <4>. QED
          BY <2>5, <4>1, FS_Subset
    <3>2. /\ \A p \in tree \cup away : p.depth \in 0 .. Size
          /\ \A p \in C \cup U : p.depth \in 0 .. Size
          /\ \A p \in (tree \cup away) \cup (C \cup U) : p.depth \in 0 .. Size
        BY <2>5, <2>7
    <3>3. (tree \cup away) \cap (C \cup U) = {}
        BY <2>5
    <3>. HIDE DEF C, U, H, R
    <3>4. Weight(tree \cup away) = Weight(tree) + Weight(away)
        BY <2>5, <3>1, <3>2, WeightBoth
    <3>5. Weight(C \cup U) = Weight(C) + Weight(U)
        BY <2>6, <3>1, <3>2, WeightBoth
    <3>6. Weight((tree \cup away) \cup (C \cup U)) = Weight(tree \cup away) + Weight(C \cup U)
        BY <3>1, <3>2, <3>3, WeightBoth
    <3>7. /\ Weight(tree) \in Int /\ Weight(away) \in Int /\ Weight(C) \in Int /\ Weight(U) \in Int
      <4>1. /\ tree \in SUBSET tree /\ away \in SUBSET away /\ C \in SUBSET C /\ U \in SUBSET U
          OBVIOUS
      <4>. QED
          BY <3>1, <3>2, <4>1, WeightOf
    <3>. QED
        BY <2>5, <3>4, <3>5, <3>6, <3>7
  <2>11. /\ Weight(tree) \in Int /\ Weight(away) \in Int /\ Weight(C) \in Int /\ Weight(U) \in Int
    <3>1. /\ IsFiniteSet(H) /\ tree \in SUBSET H /\ away \in SUBSET H /\ C \in SUBSET H /\ U \in SUBSET H
        BY <2>5
    <3>. HIDE DEF H, C, U
    <3>. QED
        BY <2>7, <3>1, WeightOf
  <2>. HIDE DEF H, C, U, R
  <2>. QED
      BY <2>5, <2>8, <2>9, <2>10, <2>11, GpuCountedIs
<1>. QED
    BY <1>1, GpuInvariant, PTL
=============================================================================
