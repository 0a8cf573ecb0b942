------------------------- MODULE WorkStealingProofs -------------------------
(***************************************************************************)
(* The distributed search, for every number of nodes, every overlay with   *)
(* Parent[c] < c and every search tree.                                    *)
(*                                                                         *)
(* A node that has asked for work is owed exactly one answer and has no    *)
(* work while it waits; each vote is counted exactly once per round, and a *)
(* positive vote that a parent has noted stands for positive votes in the  *)
(* whole subtree below it.  With two nodes, the end comes only when no     *)
(* work is left.                                                           *)
(*                                                                         *)
(* The distributed search is the abstract one: sharing moves subproblems   *)
(* and never copies or drops one, and every turn of a node is one step of  *)
(* the abstract search or none.  A better schedule is known to a neighbour *)
(* or on its way there; with two nodes, it arrives before the end.         *)
(***************************************************************************)
EXTENDS WorkStealingRefinement, FiniteSetTheorems, FunctionTheorems, SequenceTheorems, TLAPS

-----------------------------------------------------------------------------
(* Counting the packets of some types in a channel.                        *)

(* The positions counted are a finite set. *)
LEMMA CountType ==
    ASSUME NEW M, NEW q \in Seq(M), NEW T
    PROVE  /\ IsFiniteSet(Positions(q, T))
           /\ Count(q, T) \in Nat
<1>1. Len(q) \in Nat
    OBVIOUS
<1>2. IsFiniteSet(1 .. Len(q))
    BY <1>1, FS_Interval
<1>3. Positions(q, T) \in SUBSET (1 .. Len(q))
    BY DEF Positions
<1>. QED
    BY <1>2, <1>3, FS_Subset, FS_CardinalityType DEF Count

(* No packet of the types: the count is 0, and conversely. *)
LEMMA CountZero ==
    ASSUME NEW M, NEW q \in Seq(M), NEW T
    PROVE  Count(q, T) = 0 <=> \A i \in 1 .. Len(q) : q[i].type \notin T
<1>1. Count(q, T) = 0 <=> Positions(q, T) = {}
    BY CountType, FS_EmptySet DEF Count
<1>. QED
    BY <1>1 DEF Positions

(* A handler's output is appended to the channel. *)
LEMMA CountConcat ==
    ASSUME NEW M, NEW q \in Seq(M), NEW r \in Seq(M), NEW T
    PROVE  Count(q \o r, T) = Count(q, T) + Count(r, T)
<1>. DEFINE P == Positions(q, T)
            R == Positions(r, T)
            S == {Len(q) + i : i \in R}
<1>1. q \o r \in Seq(M) /\ Len(q) \in Nat /\ Len(r) \in Nat
    OBVIOUS
<1>2. \A i \in 1 .. Len(q \o r) :
         (q \o r)[i] = IF i <= Len(q) THEN q[i] ELSE r[i - Len(q)]
    OBVIOUS
<1>3. Positions(q \o r, T) = P \cup S
    BY <1>1, <1>2 DEF Positions
<1>4. P \cap S = {}
    BY <1>1 DEF Positions
<1>5. IsFiniteSet(P) /\ IsFiniteSet(R)
    BY CountType
<1>6. IsFiniteSet(S) /\ Cardinality(S) = Cardinality(R)
  <2>. DEFINE f == [i \in R |-> Len(q) + i]
  <2>1. f \in Bijection(R, S)
    <3>1. f \in [R -> S]
        OBVIOUS
    <3>2. \A a, b \in R : f[a] = f[b] => a = b
        BY <1>1 DEF Positions
    <3>3. \A s \in S : \E i \in R : f[i] = s
        OBVIOUS
    <3>. QED
        BY <3>1, <3>2, <3>3, Fun_IsBij
  <2>. QED
    BY <2>1, <1>5, FS_Bijection DEF ExistsBijection
<1>7. Cardinality(P \cup S) = Cardinality(P) + Cardinality(S) - Cardinality(P \cap S)
    BY <1>5, <1>6, FS_Union
<1>8. Cardinality(P) \in Nat /\ Cardinality(R) \in Nat /\ Cardinality(P \cap S) = 0
    BY <1>4, <1>5, FS_EmptySet, FS_CardinalityType
<1>. QED
    BY <1>3, <1>6, <1>7, <1>8 DEF Count

(* One packet, and none. *)
LEMMA CountShort ==
    ASSUME NEW M, NEW m \in M, NEW T
    PROVE  /\ Count(<<m>>, T) = IF m.type \in T THEN 1 ELSE 0
           /\ Count(<< >>, T) = 0
<1>1. Positions(<<m>>, T) = IF m.type \in T THEN {1} ELSE {}
    BY DEF Positions
<1>2. Positions(<< >>, T) = {}
    BY DEF Positions
<1>. QED
    BY <1>1, <1>2, FS_EmptySet, FS_Singleton DEF Count

(* The packet a handler takes is the first one. *)
LEMMA CountTail ==
    ASSUME NEW M, NEW q \in Seq(M), q # << >>, NEW T
    PROVE  Count(q, T) = (IF Head(q).type \in T THEN 1 ELSE 0) + Count(Tail(q), T)
<1>1. q = <<Head(q)>> \o Tail(q) /\ Head(q) \in M /\ Tail(q) \in Seq(M) /\ <<Head(q)>> \in Seq(M)
    OBVIOUS
<1>2. Count(<<Head(q)>> \o Tail(q), T) = Count(<<Head(q)>>, T) + Count(Tail(q), T)
    BY <1>1, CountConcat
<1>3. Count(<<Head(q)>>, T) = IF Head(q).type \in T THEN 1 ELSE 0
    BY <1>1, CountShort
<1>. QED
    BY <1>1, <1>2, <1>3

-----------------------------------------------------------------------------
(* Type correctness.                                                       *)

(* The kinds of packets are packets. *)
LEMMA MessageType ==
    /\ Request \in Message /\ Reject \in Message
    /\ Restart \in Message /\ Terminate \in Message
    /\ \A c \in Nat : Optimal(c) \in Message
    /\ \A v \in {1, 2} : Vote(v) \in Message
    /\ \A S \in (SUBSET Task) \ {{}} : Work(S) \in Message
BY DEF Message, Request, Reject, Restart, Terminate, Optimal, Vote, Work

(* What a handler may send: for each destination a sequence of packets. *)
Outputs == [Node -> Seq(Message)]

(* First a, then b; and only packets of the given types. *)
Join(a, b) == [d \in Node |-> a[d] \o b[d]]
Only(out, types) == \A d \in Node : \A i \in 1 .. Len(out[d]) : out[d][i].type \in types

LEMMA ToAllType ==
    ASSUME NEW D, NEW m \in Message
    PROVE  ToAll(D, m) \in Outputs /\ Nothing \in Outputs
BY DEF ToAll, Nothing, Outputs

LEMMA ToAllOnly ==
    ASSUME NEW D, NEW m \in Message, NEW types, m.type \in types
    PROVE  Only(ToAll(D, m), types)
<1>. SUFFICES ASSUME NEW d \in Node, NEW i \in 1 .. Len(ToAll(D, m)[d])
              PROVE  ToAll(D, m)[d][i].type \in types
    BY DEF Only
<1>1. CASE d \in D
  <2>1. ToAll(D, m)[d] = <<m>>
      BY <1>1 DEF ToAll
  <2>. QED
      BY <2>1
<1>2. CASE d \notin D
  <2>1. ToAll(D, m)[d] = << >>
      BY <1>2 DEF ToAll
  <2>. QED
      BY <2>1
<1>. QED
    BY <1>1, <1>2

(* after is the network nw after node n has sent out. *)
Sends(nw, n, out, after) ==
    /\ after \in [Node -> Outputs]
    /\ \A s, d \in Node : after[s][d] = IF s = n THEN nw[s][d] \o out[d] ELSE nw[s][d]

LEMMA PostType ==
    ASSUME NEW nw \in [Node -> Outputs], NEW n \in Node, NEW out \in Outputs
    PROVE  Sends(nw, n, out, Post(nw, n, out))
<1>1. [d \in Node |-> nw[n][d] \o out[d]] \in Outputs
    BY DEF Outputs
<1>. QED
    BY <1>1 DEF Post, Sends

(* A packet of q \o r is one of q or one of r. *)
LEMMA EitherPart ==
    ASSUME NEW M, NEW q \in Seq(M), NEW r \in Seq(M), NEW i \in 1 .. Len(q \o r)
    PROVE  \/ \E j \in 1 .. Len(q) : (q \o r)[i] = q[j]
           \/ \E j \in 1 .. Len(r) : (q \o r)[i] = r[j]
<1>1. /\ Len(q) \in Nat /\ Len(r) \in Nat
      /\ i \in 1 .. Len(q) + Len(r)
      /\ (q \o r)[i] = IF i <= Len(q) THEN q[i] ELSE r[i - Len(q)]
    BY ConcatProperties
<1>2. i <= Len(q) => i \in 1 .. Len(q)
    BY <1>1
<1>3. ~(i <= Len(q)) => i - Len(q) \in 1 .. Len(r)
    BY <1>1
<1>. QED
    BY <1>1, <1>2, <1>3, Zenon

LEMMA JoinType ==
    ASSUME NEW a \in Outputs, NEW b \in Outputs
    PROVE  /\ Join(a, b) \in Outputs
           /\ \A types : Only(a, types) /\ Only(b, types) => Only(Join(a, b), types)
<1>1. \A d \in Node : /\ a[d] \in Seq(Message)
                       /\ b[d] \in Seq(Message)
                       /\ Join(a, b)[d] = a[d] \o b[d]
    BY DEF Outputs, Join
<1>2. Join(a, b) \in Outputs
    BY <1>1 DEF Join, Outputs
<1>3. ASSUME NEW types, Only(a, types), Only(b, types),
             NEW d \in Node, NEW i \in 1 .. Len(Join(a, b)[d])
      PROVE  Join(a, b)[d][i].type \in types
  <2>1. /\ i \in 1 .. Len(a[d] \o b[d])
        /\ a[d] \in Seq(Message) /\ b[d] \in Seq(Message)
        /\ Join(a, b)[d][i] = (a[d] \o b[d])[i]
      BY <1>1
  <2>2. \/ \E j \in 1 .. Len(a[d]) : (a[d] \o b[d])[i] = a[d][j]
        \/ \E j \in 1 .. Len(b[d]) : (a[d] \o b[d])[i] = b[d][j]
    <3>. DEFINE q == a[d]
                r == b[d]
    <3>1. q \in Seq(Message) /\ r \in Seq(Message) /\ i \in 1 .. Len(q \o r)
        BY <2>1
    <3>2. \/ \E j \in 1 .. Len(q) : (q \o r)[i] = q[j]
          \/ \E j \in 1 .. Len(r) : (q \o r)[i] = r[j]
      <4>. HIDE DEF q, r
      <4>. QED
          BY <3>1, EitherPart
    <3>. QED
        BY <3>2
  <2>. QED
      BY <2>2, <1>3, <2>1 DEF Only
<1>. QED
    BY <1>2, <1>3 DEF Only

LEMMA SendsTwice ==
    ASSUME NEW nw \in [Node -> Outputs], NEW n \in Node, NEW a \in Outputs, NEW b \in Outputs,
           NEW mid, NEW after, Sends(nw, n, a, mid), Sends(mid, n, b, after)
    PROVE  Sends(nw, n, Join(a, b), after)
<1>1. ASSUME NEW s \in Node, NEW d \in Node
      PROVE  after[s][d] = IF s = n THEN nw[s][d] \o Join(a, b)[d] ELSE nw[s][d]
  <2>1. nw[s][d] \in Seq(Message) /\ a[d] \in Seq(Message) /\ b[d] \in Seq(Message)
      BY DEF Outputs
  <2>2. (nw[s][d] \o a[d]) \o b[d] = nw[s][d] \o (a[d] \o b[d])
    <3>. DEFINE q == nw[s][d]
                r == a[d]
                u == b[d]
    <3>1. q \in Seq(Message) /\ r \in Seq(Message) /\ u \in Seq(Message)
        BY <2>1
    <3>2. (q \o r) \o u = q \o (r \o u)
      <4>. HIDE DEF q, r, u
      <4>. QED
          BY <3>1, ConcatAssociative
    <3>. QED
        BY <3>2
  <2>. QED
      BY ZenonT(60), <2>2 DEF Sends, Join
<1>. QED
    BY <1>1 DEF Sends

LEMMA ConsumedType ==
    ASSUME TypeOK, NEW n \in Node, NEW s \in Node, net[s][n] # << >>
    PROVE  /\ Consumed(n, s) \in [Node -> Outputs]
           /\ \A a, b \in Node :
                Consumed(n, s)[a][b] = IF a = s /\ b = n THEN Tail(net[a][b]) ELSE net[a][b]
           /\ Packet(n, s) \in Message
<1>1. net \in [Node -> Outputs] /\ net[s][n] \in Seq(Message)
    BY DEF TypeOK, Outputs
<1>2. Tail(net[s][n]) \in Seq(Message) /\ Head(net[s][n]) \in Message
    BY <1>1
<1>. QED
    BY <1>1, <1>2 DEF Consumed, Packet, Outputs

-----------------------------------------------------------------------------
(* Counting over whole steps: what a channel gains and loses.              *)

(* The channels of n gain what out counts, the others nothing. *)
Gains(nw, n, out, after, T) ==
    \A s, d \in Node :
        Count(after[s][d], T) = Count(nw[s][d], T) + (IF s = n THEN Count(out[d], T) ELSE 0)

LEMMA SendsCount ==
    ASSUME NEW nw \in [Node -> Outputs], NEW n \in Node, NEW out \in Outputs, NEW after,
           Sends(nw, n, out, after), NEW T
    PROVE  Gains(nw, n, out, after, T)
<1>. SUFFICES ASSUME NEW s \in Node, NEW d \in Node
              PROVE  Count(after[s][d], T) =
                        Count(nw[s][d], T) + (IF s = n THEN Count(out[d], T) ELSE 0)
    BY DEF Gains
<1>. DEFINE q == nw[s][d]
            r == out[d]
<1>1. q \in Seq(Message) /\ r \in Seq(Message)
    BY DEF Outputs
<1>2. after[s][d] = IF s = n THEN q \o r ELSE q
    BY DEF Sends
<1>. HIDE DEF q, r
<1>3. Count(q \o r, T) = Count(q, T) + Count(r, T) /\ Count(q, T) \in Nat
    BY <1>1, CountConcat, CountType
<1>4. Count(after[s][d], T) = Count(q, T) + (IF s = n THEN Count(r, T) ELSE 0)
    BY <1>2, <1>3
<1>. QED
    BY <1>4 DEF q, r

LEMMA JoinCount ==
    ASSUME NEW a \in Outputs, NEW b \in Outputs, NEW T, NEW d \in Node
    PROVE  Count(Join(a, b)[d], T) = Count(a[d], T) + Count(b[d], T)
<1>. DEFINE q == a[d]
            r == b[d]
<1>1. q \in Seq(Message) /\ r \in Seq(Message) /\ Join(a, b)[d] = q \o r
    BY DEF Outputs, Join
<1>. HIDE DEF q, r
<1>2. Count(Join(a, b)[d], T) = Count(q, T) + Count(r, T)
    BY <1>1, CountConcat
<1>. QED
    BY <1>2 DEF q, r

LEMMA OnlyCount ==
    ASSUME NEW out \in Outputs, NEW types, Only(out, types), NEW T, types \cap T = {},
           NEW d \in Node
    PROVE  Count(out[d], T) = 0
<1>1. out[d] \in Seq(Message) /\ \A i \in 1 .. Len(out[d]) : out[d][i].type \notin T
    BY DEF Only, Outputs
<1>. QED
    BY <1>1, CountZero

LEMMA ToAllCount ==
    ASSUME NEW D, NEW m \in Message, NEW T, NEW d \in Node
    PROVE  /\ Count(ToAll(D, m)[d], T) = IF d \in D /\ m.type \in T THEN 1 ELSE 0
           /\ Count(Nothing[d], T) = 0
<1>1. /\ ToAll(D, m)[d] = IF d \in D THEN <<m>> ELSE << >>
      /\ Nothing[d] = << >>
    BY DEF ToAll, Nothing
<1>. QED
    BY <1>1, CountShort

(* after is the network nw without the packet m that n takes from s. *)
Loses(nw, n, s, m, after, T) ==
    \A a, b \in Node :
        Count(nw[a][b], T) =
            Count(after[a][b], T) + (IF a = s /\ b = n /\ m.type \in T THEN 1 ELSE 0)

LEMMA ConsumedCount ==
    ASSUME TypeOK, NEW n \in Node, NEW s \in Node, net[s][n] # << >>, NEW T
    PROVE  Loses(net, n, s, Packet(n, s), Consumed(n, s), T)
<1>. SUFFICES ASSUME NEW a \in Node, NEW b \in Node
              PROVE  Count(net[a][b], T) =
                        Count(Consumed(n, s)[a][b], T)
                          + (IF a = s /\ b = n /\ Packet(n, s).type \in T THEN 1 ELSE 0)
    BY DEF Loses
<1>. DEFINE q == net[a][b]
<1>1. q \in Seq(Message)
    BY DEF TypeOK
<1>2. Consumed(n, s)[a][b] = IF a = s /\ b = n THEN Tail(q) ELSE q
    BY ConsumedType
<1>3. a = s /\ b = n => q # << >> /\ Packet(n, s) = Head(q)
    BY DEF Packet
<1>. HIDE DEF q
<1>4. Count(q, T) \in Nat
    BY <1>1, CountType
<1>5. a = s /\ b = n =>
         Count(q, T) = (IF Head(q).type \in T THEN 1 ELSE 0) + Count(Tail(q), T)
    BY <1>1, <1>3, CountTail
<1>6. q # << >> => Count(Tail(q), T) \in Nat
  <2>1. q # << >> => Tail(q) \in Seq(Message)
      BY <1>1
  <2>. QED
      BY <2>1, CountType
<1>7. Count(q, T) = Count(Consumed(n, s)[a][b], T)
                + (IF a = s /\ b = n /\ Packet(n, s).type \in T THEN 1 ELSE 0)
    BY <1>2, <1>3, <1>4, <1>5, <1>6
<1>. QED
    BY <1>7 DEF q

-----------------------------------------------------------------------------
(* What the handlers and the turns of the loop send.                       *)

(* A node rejects each waiting request with one packet. *)
LEMMA RejectsType ==
    ASSUME TypeOK, NEW n \in Node, NEW d \in Node
    PROVE  /\ Rejects(n, d) \in Seq(Message)
           /\ \A i \in 1 .. Len(Rejects(n, d)) : Rejects(n, d)[i] = Reject
<1>. DEFINE waiting == {i \in 1 .. Len(pendingWorkRequest[n]) : pendingWorkRequest[n][i] = d}
<1>1. pendingWorkRequest[n] \in Seq(Node)
    BY DEF TypeOK
<1>2. Len(pendingWorkRequest[n]) \in Nat
    BY <1>1
<1>3. IsFiniteSet(1 .. Len(pendingWorkRequest[n]))
    BY <1>2, FS_Interval
<1>4. waiting \in SUBSET (1 .. Len(pendingWorkRequest[n]))
    OBVIOUS
<1>5. Cardinality(waiting) \in Nat
    BY <1>3, <1>4, FS_Subset, FS_CardinalityType
<1>6. Rejects(n, d) = [i \in 1 .. Cardinality(waiting) |-> Reject]
    BY DEF Rejects
<1>. HIDE DEF waiting
<1>. QED
    BY <1>5, <1>6, MessageType

(* What serving may give away, and what it sends. *)
LEMMA SharingType ==
    ASSUME TypeOK, NEW n \in Node, NEW share \in Sharings(n)
    PROVE  /\ \E k \in 0 .. Len(pendingWorkRequest[n]) :
                 /\ share \in [1 .. k -> SUBSET tree[n]]
                 /\ Cardinality(DOMAIN share) = k
           /\ \A i \in DOMAIN share : share[i] # {}
           /\ Kept(n, share) # {}
           /\ Kept(n, share) \subseteq tree[n]
           /\ Shared(n, share) \in Outputs
           /\ \A d \in Node : \A i \in 1 .. Len(Shared(n, share)[d]) :
                 Shared(n, share)[d][i].type = "BB_PROBLEM_PACKET"
<1>1. PICK k \in 0 .. Len(pendingWorkRequest[n]) :
         /\ share \in [1 .. k -> SUBSET tree[n]]
         /\ tree[n] \ UNION {share[i] : i \in DOMAIN share} # {}
         /\ \A i \in DOMAIN share : share[i] # {}
    BY ZenonT(30) DEF Sharings
<1>2. pendingWorkRequest[n] \in Seq(Node) /\ tree[n] \subseteq Task
    BY DEF TypeOK
<1>3. Cardinality(DOMAIN share) = k
    BY <1>1, <1>2, FS_Interval
<1>4. ASSUME NEW d \in Node
      PROVE  /\ Shared(n, share)[d] \in Seq(Message)
             /\ \A i \in 1 .. Len(Shared(n, share)[d]) :
                   Shared(n, share)[d][i].type = "BB_PROBLEM_PACKET"
  <2>. DEFINE I == {j \in DOMAIN share : pendingWorkRequest[n][j] = d}
              S == UNION {share[i] : i \in I}
  <2>1. CASE \E i \in DOMAIN share : pendingWorkRequest[n][i] = d
    <3>1. S \in (SUBSET Task) \ {{}}
        BY <1>1, <1>2, <2>1
    <3>2. Shared(n, share)[d] = <<Work(S)>>
        BY <2>1 DEF Shared
    <3>3. Work(S) \in Message
        BY <3>1, MessageType
    <3>. QED
        BY <3>2, <3>3 DEF Work
  <2>2. CASE ~\E i \in DOMAIN share : pendingWorkRequest[n][i] = d
      BY <2>2 DEF Shared
  <2>. QED
      BY <2>1, <2>2
<1>5. Shared(n, share) \in Outputs
    BY <1>4 DEF Shared, Outputs
<1>6. Kept(n, share) # {} /\ Kept(n, share) \subseteq tree[n]
    BY <1>1 DEF Kept
<1>. QED
    BY <1>1, <1>3, <1>4, <1>5, <1>6

(* An idle turn sends rejects, at most one request, and its control packets. *)
LEMMA AskForWorkType ==
    ASSUME TypeOK, NEW n \in Node, NEW control \in Outputs, AskForWork(n, control)
    PROVE  /\ MTR' \in [Node -> {0, 1}]
           /\ pendingWorkRequest' \in [Node -> Seq(Node)]
           /\ net' \in [Node -> Outputs]
           /\ \E out \in Outputs :
                /\ Sends(net, n, Join(out, control), net')
                /\ Only(out, {"REJECT_WORK_REQUEST", "WORK_REQUEST"})
           /\ UNCHANGED <<trigger, searchVars>>
<1>1. PICK V \in Victims(n) :
         /\ MTR' = [MTR EXCEPT ![n] = IF V = {} THEN @ ELSE 1]
         /\ net' = Post(net, n, [d \in Node |->
                        Rejects(n, d) \o ToAll(V, Request)[d] \o control[d]])
    BY DEF AskForWork
<1>. DEFINE rejects == [d \in Node |-> Rejects(n, d)]
            asks == ToAll(V, Request)
            out == Join(rejects, asks)
<1>2. /\ asks \in Outputs
      /\ Only(asks, {"REJECT_WORK_REQUEST", "WORK_REQUEST"})
    BY ToAllType, ToAllOnly, MessageType DEF Request
<1>3. /\ rejects \in Outputs
      /\ Only(rejects, {"REJECT_WORK_REQUEST", "WORK_REQUEST"})
    BY RejectsType DEF Outputs, Only, Reject
<1>4. /\ out \in Outputs
      /\ Only(out, {"REJECT_WORK_REQUEST", "WORK_REQUEST"})
      /\ Join(out, control) \in Outputs
  <2>. HIDE DEF rejects, asks
  <2>. QED
      BY <1>2, <1>3, JoinType
<1>5. net' = Post(net, n, Join(out, control))
    BY <1>1 DEF Join
<1>6. net \in [Node -> Outputs]
    BY DEF TypeOK, Outputs
<1>7. MTR' \in [Node -> {0, 1}] /\ pendingWorkRequest' \in [Node -> Seq(Node)]
    BY <1>1 DEF AskForWork, TypeOK
<1>8. UNCHANGED <<trigger, searchVars>>
    BY DEF AskForWork
<1>. HIDE DEF out
<1>9. Sends(net, n, Join(out, control), Post(net, n, Join(out, control)))
    BY <1>4, <1>6, PostType
<1>10. Sends(net, n, Join(out, control), net')
    BY <1>5, <1>9, Zenon
<1>11. net' \in [Node -> Outputs]
    BY <1>10 DEF Sends
<1>. QED
    BY <1>4, <1>7, <1>8, <1>10, <1>11

(* What a turn of the exploring loop does to requests, votes and packets.  *)
LEMMA ExploreType ==
    ASSUME TypeOK, NEW n \in Node, Explore(n)
    PROVE  /\ tree' \in [Node -> SUBSET Task]
           /\ best' \in [Node -> Nat]
           /\ pendingWorkRequest' \in [Node -> Seq(Node)]
           /\ terminationSignal' \in [Node -> {0, 1, 2}]
           /\ \A m \in Node : terminationSignal'[m] \in {terminationSignal[m], 2}
           /\ net' \in [Node -> Outputs]
           /\ \E out \in Outputs :
                /\ Sends(net, n, out, net')
                /\ Only(out, {"BB_PROBLEM_PACKET", "OPTIMAL_SOLUTION_FOUND"})
           /\ UNCHANGED <<trigger, MTR, sentTerminateDetection, childSignal, jobFinished,
                          betterSolutionState>>
<1>0. PICK share \in Sharings(n) : \E t \in Kept(n, share) :
         /\ Serve(n, share)
         /\ \/ tree' = [tree EXCEPT ![n] = Kept(n, share) \ {t}]
            \/ \E D \in Branch[t] : tree' = [tree EXCEPT ![n] = (Kept(n, share) \ {t}) \cup D]
         /\ \/ best' = [best EXCEPT ![n] = Bound[t]]
            \/ UNCHANGED best
         /\ \/ net' = Post(net, n, Shared(n, share))
            \/ net' = Post(Post(net, n, Shared(n, share)), n,
                           ToAll(Neighbour(n), Optimal(Bound[t])))
    BY Zenon DEF Explore, ExploreLeaf, ExploreBranch, ExplorePrune
<1>1. PICK t \in Kept(n, share) :
         /\ Serve(n, share)
         /\ \/ tree' = [tree EXCEPT ![n] = Kept(n, share) \ {t}]
            \/ \E D \in Branch[t] : tree' = [tree EXCEPT ![n] = (Kept(n, share) \ {t}) \cup D]
         /\ \/ best' = [best EXCEPT ![n] = Bound[t]]
            \/ UNCHANGED best
         /\ \/ net' = Post(net, n, Shared(n, share))
            \/ net' = Post(Post(net, n, Shared(n, share)), n,
                           ToAll(Neighbour(n), Optimal(Bound[t])))
    BY <1>0
<1>2. /\ tree[n] \subseteq Task
      /\ net \in [Node -> Outputs]
      /\ pendingWorkRequest[n] \in Seq(Node)
    BY DEF TypeOK, Outputs
<1>3. /\ Kept(n, share) \subseteq tree[n]
      /\ Shared(n, share) \in Outputs
      /\ Only(Shared(n, share), {"BB_PROBLEM_PACKET", "OPTIMAL_SOLUTION_FOUND"})
    BY SharingType DEF Only
<1>4. PICK k \in 0 .. Len(pendingWorkRequest[n]) : Cardinality(DOMAIN share) = k
    BY SharingType
<1>5. t \in Task /\ Bound[t] \in Nat /\ \A D \in Branch[t] : D \subseteq Task
    BY <1>2, <1>3, TaskAssumption
<1>6. tree' \in [Node -> SUBSET Task]
  <2>1. \E S \in SUBSET Task : tree' = [tree EXCEPT ![n] = S]
      BY <1>1, <1>2, <1>3, <1>5, Zenon
  <2>. QED
      BY <2>1 DEF TypeOK
<1>7. best' \in [Node -> Nat]
    BY <1>1, <1>5 DEF TypeOK
<1>8. /\ pendingWorkRequest' \in [Node -> Seq(Node)]
      /\ terminationSignal' \in [Node -> {0, 1, 2}]
      /\ \A m \in Node : terminationSignal'[m] \in {terminationSignal[m], 2}
      /\ UNCHANGED <<trigger, MTR, sentTerminateDetection, childSignal, jobFinished,
                     betterSolutionState>>
  <2>1. SubSeq(pendingWorkRequest[n], Cardinality(DOMAIN share) + 1,
               Len(pendingWorkRequest[n])) \in Seq(Node)
      BY <1>2, <1>4
  <2>. QED
      BY <1>1, <2>1 DEF Serve, TypeOK
<1>. DEFINE gives == Shared(n, share)
            floods == ToAll(Neighbour(n), Optimal(Bound[t]))
<1>9. /\ floods \in Outputs
      /\ Only(floods, {"BB_PROBLEM_PACKET", "OPTIMAL_SOLUTION_FOUND"})
    BY <1>5, MessageType, ToAllType, ToAllOnly DEF Optimal
<1>10. net' = Post(net, n, gives) \/ net' = Post(Post(net, n, gives), n, floods)
    BY <1>1
<1>11. gives \in Outputs /\ Only(gives, {"BB_PROBLEM_PACKET", "OPTIMAL_SOLUTION_FOUND"})
    BY <1>3
<1>. HIDE DEF gives, floods
<1>12. Sends(net, n, gives, Post(net, n, gives))
    BY <1>2, <1>11, PostType
<1>13. Sends(net, n, Join(gives, floods), Post(Post(net, n, gives), n, floods))
  <2>1. Post(net, n, gives) \in [Node -> Outputs]
      BY <1>12 DEF Sends
  <2>2. Sends(Post(net, n, gives), n, floods, Post(Post(net, n, gives), n, floods))
      BY <1>9, <2>1, PostType
  <2>. QED
      BY <1>2, <1>9, <1>11, <1>12, <2>2, SendsTwice
<1>14. \E out \in Outputs : /\ Sends(net, n, out, net')
                            /\ Only(out, {"BB_PROBLEM_PACKET", "OPTIMAL_SOLUTION_FOUND"})
  <2>1. /\ Join(gives, floods) \in Outputs
        /\ Only(Join(gives, floods), {"BB_PROBLEM_PACKET", "OPTIMAL_SOLUTION_FOUND"})
      BY <1>9, <1>11, JoinType
  <2>2. Sends(net, n, gives, net') \/ Sends(net, n, Join(gives, floods), net')
      BY <1>10, <1>12, <1>13, Zenon
  <2>. QED
      BY <1>11, <2>1, <2>2
<1>15. net' \in [Node -> Outputs]
    BY <1>14 DEF Sends
<1>. QED
    BY <1>6, <1>7, <1>8, <1>14, <1>15

(***************************************************************************)
(* Every variable keeps its type: the invariant the other proofs rest on.  *)
(***************************************************************************)
LEMMA TypeStep == TypeOK /\ [Next]_vars => TypeOK'
<1>. SUFFICES ASSUME TypeOK, [Next]_vars PROVE TypeOK'
    OBVIOUS
<1>1. ASSUME NEW n \in Node, Trigger(n) PROVE TypeOK'
    BY <1>1 DEF Trigger, TypeOK, searchVars, stealVars, voteVars
<1>2. ASSUME NEW n \in Node, Explore(n) PROVE TypeOK'
    BY <1>2, ExploreType DEF TypeOK, Outputs
<1>3. ASSUME NEW n \in Node, IdleTurn(n) PROVE TypeOK'
  <2>1. Stand(n) \in {1, 2} /\ n \in Node /\ Root \in Node
      BY OverlayAssumption DEF TypeOK, Stand, Node, Root
  <2>2. CASE KeepAsking(n)
    <3>1. Nothing \in Outputs
        BY MessageType, ToAllType
    <3>. QED
        BY <2>1, <2>2, <3>1, AskForWorkType DEF KeepAsking, TypeOK, Outputs, searchVars
  <2>3. CASE CastVote(n)
    <3>1. ToAll({Parent[n]}, Vote(Stand(n))) \in Outputs
        BY <2>1, MessageType, ToAllType
    <3>. QED
        BY <2>1, <2>3, <3>1, AskForWorkType DEF CastVote, TypeOK, Outputs, searchVars
  <2>4. CASE RestartVote
    <3>1. ToAll(Children(Root), Restart) \in Outputs
        BY MessageType, ToAllType
    <3>. QED
        BY <2>1, <2>4, <3>1, AskForWorkType
        DEF RestartVote, ForgetVotes, TypeOK, Outputs, searchVars
  <2>5. CASE DetectTermination
    <3>1. ToAll(Children(Root), Terminate) \in Outputs
        BY MessageType, ToAllType
    <3>. QED
        BY <2>1, <2>5, <3>1, AskForWorkType DEF DetectTermination, TypeOK, Outputs, searchVars
  <2>. QED
      BY <1>3, <2>2, <2>3, <2>4, <2>5 DEF IdleTurn
<1>4. ASSUME NEW n \in Node, NEW s \in Node \ {n}, Receive(n, s) PROVE TypeOK'
  <2>1. net[s][n] # << >>
      BY <1>4 DEF Receive, RecvWork, RecvReject, RecvWorkRequest, RecvOptimalSolution,
                  RecvVote, RecvRestart, RecvTermination, Arrived
  <2>2. /\ Consumed(n, s) \in [Node -> Outputs]
        /\ Packet(n, s) \in Message
      BY <2>1, ConsumedType
  <2>3. CASE RecvWork(n, s)
    <3>1. Packet(n, s).tasks \subseteq Task
        BY <2>2, <2>3 DEF RecvWork, Arrived, Packet, Message
    <3>. QED
        BY <2>2, <2>3, <3>1 DEF RecvWork, Unpacked, TypeOK, Outputs, voteVars
  <2>4. CASE RecvReject(n, s)
      BY <2>2, <2>4 DEF RecvReject, TypeOK, Outputs, searchVars, voteVars
  <2>5. CASE RecvWorkRequest(n, s)
      BY SMTT(30), <2>2, <2>5 DEF RecvWorkRequest, TypeOK, Outputs, searchVars, voteVars
  <2>6. CASE RecvOptimalSolution(n, s)
    <3>. DEFINE cost == Packet(n, s).cost
                known == IF cost < best[n] THEN cost ELSE best[n]
    <3>1. cost \in Nat
        BY <2>2, <2>6 DEF RecvOptimalSolution, Arrived, Packet, Message
    <3>2. known \in Nat
        BY <3>1 DEF TypeOK
    <3>3. ToAll(Neighbour(n), Optimal(known)) \in Outputs
        BY <3>2, MessageType, ToAllType
    <3>4. Post(Consumed(n, s), n, ToAll(Neighbour(n), Optimal(known))) \in [Node -> Outputs]
        BY <2>2, <3>3, PostType DEF Sends
    <3>5. /\ best' = [best EXCEPT ![n] = known]
          /\ \/ net' = Post(Consumed(n, s), n, ToAll(Neighbour(n), Optimal(known)))
             \/ net' = Consumed(n, s)
        BY <2>6 DEF RecvOptimalSolution
    <3>. HIDE DEF known
    <3>6. net' \in [Node -> Outputs]
        BY <2>2, <3>4, <3>5
    <3>7. best' \in [Node -> Nat]
        BY <3>2, <3>5 DEF TypeOK
    <3>8. betterSolutionState' \in [Node -> {0, 1}]
        BY <2>6 DEF RecvOptimalSolution, TypeOK
    <3>9. UNCHANGED <<trigger, tree, stealVars, voteVars, jobFinished>>
        BY <2>6 DEF RecvOptimalSolution
    <3>. QED
        BY <3>6, <3>7, <3>8, <3>9 DEF TypeOK, Outputs, stealVars, voteVars
  <2>7. CASE RecvVote(n, s)
    <3>1. Packet(n, s).signal \in {1, 2}
        BY <2>2, <2>7 DEF RecvVote, Arrived, Packet, Message
    <3>2. net' \in [Node -> Outputs]
        BY <2>2, <2>7 DEF RecvVote
    <3>3. childSignal' \in [Node -> {0, 1, 2}]
      <4>1. CASE s \in Children(n)
          BY <2>7, <3>1, <4>1 DEF RecvVote, TypeOK
      <4>2. CASE s \notin Children(n)
          BY <2>7, <4>2 DEF RecvVote, TypeOK
      <4>. QED
          BY <4>1, <4>2
    <3>4. terminationSignal' \in [Node -> {0, 1, 2}]
      <4>1. CASE s \in Children(n)
        <5>1. terminationSignal' =
                 [terminationSignal EXCEPT ![n] = IF Packet(n, s).signal = 2 THEN 2 ELSE @]
            BY <2>7, <4>1 DEF RecvVote
        <5>2. terminationSignal \in [Node -> {0, 1, 2}]
            BY DEF TypeOK
        <5>. QED
            BY <5>1, <5>2
      <4>2. CASE s \notin Children(n)
          BY <2>7, <4>2 DEF RecvVote, TypeOK
      <4>. QED
          BY <4>1, <4>2
    <3>5. UNCHANGED <<trigger, searchVars, stealVars, sentTerminateDetection, jobFinished>>
        BY <2>7 DEF RecvVote
    <3>. QED
        BY <3>2, <3>3, <3>4, <3>5 DEF TypeOK, Outputs, searchVars, stealVars
  <2>8. CASE RecvRestart(n, s)
    <3>1. ToAll(Children(n), Restart) \in Outputs
        BY MessageType, ToAllType
    <3>2. net' \in [Node -> Outputs]
        BY <2>2, <2>8, <3>1, PostType DEF RecvRestart, Sends
    <3>. QED
        BY <2>8, <3>2 DEF RecvRestart, ForgetVotes, TypeOK, Outputs, searchVars, stealVars
  <2>9. CASE RecvTermination(n, s)
    <3>1. ToAll(Children(n), Terminate) \in Outputs
        BY MessageType, ToAllType
    <3>2. net' \in [Node -> Outputs]
        BY <2>2, <2>9, <3>1, PostType DEF RecvTermination, Sends
    <3>. QED
        BY <2>9, <3>2 DEF RecvTermination, TypeOK, Outputs, searchVars, stealVars, voteVars
  <2>. QED
      BY <1>4, <2>3, <2>4, <2>5, <2>6, <2>7, <2>8, <2>9 DEF Receive
<1>5. CASE UNCHANGED vars
    BY <1>5 DEF vars, TypeOK, searchVars, stealVars, voteVars
<1>. QED
    BY <1>1, <1>2, <1>3, <1>4, <1>5 DEF Next, Finished

(* The values the nodes and the network start with have these types. *)
LEMMA TypeInit == Init => TypeOK
<1>. SUFFICES ASSUME Init PROVE TypeOK
    OBVIOUS
<1>1. /\ Root \in Node /\ RootTask \in Task /\ Unsolved \in Nat
      /\ BetterInit \subseteq {0, 1}
    BY TaskAssumption, OverlayAssumption DEF Node, Root
<1>2. betterSolutionState \in [Node -> {0, 1}]
    BY <1>1 DEF Init
<1>3. tree \in [Node -> SUBSET Task]
    BY <1>1 DEF Init
<1>4. << >> \in Seq(Message) /\ << >> \in Seq(Node)
    OBVIOUS
<1>. QED
    BY <1>1, <1>2, <1>3, <1>4 DEF Init, TypeOK

(***************************************************************************)
(* TypeOK is an invariant of WorkStealing.                                 *)
(***************************************************************************)
THEOREM TypeCorrect == Spec => []TypeOK
BY TypeInit, TypeStep, PTL DEF Spec

-----------------------------------------------------------------------------
(* The vote.                                                               *)

Votes == {"VOTE_TERMINATION"}
Restarts == {"RESTART_VOTING_TERMINATION"}

(* Only a parent asks a node to vote again. *)
OnlyParentsRestart ==
    \A s, d \in Node : d = Root \/ s # Parent[d] => Count(net[s][d], Restarts) = 0

(* VoteAccounting is not inductive alone: a stray restart would forget a   *)
(* vote that was counted.                                                  *)
VoteInv == TypeOK /\ VoteAccounting /\ OnlyParentsRestart

(* A node's parent is a node of a smaller id, and not the node itself. *)
LEMMA ParentType ==
    /\ Root \in Node
    /\ \A c \in Node \ {Root} : Parent[c] \in Node /\ Parent[c] # c
    /\ \A c \in Node \ {Root} : \A p \in Node \ {Root} : Parent[c] = p => Parent[p] # c
    /\ \A n \in Node : \A c \in Children(n) : c \in Node \ {Root} /\ Parent[c] = n
    /\ \A n \in Node : \A c \in Node \ {Root} : Parent[c] = n => c \in Children(n)
BY OverlayAssumption DEF Node, Root, Children

(* The counts are numbers, in every channel. *)
LEMMA NetCountType ==
    ASSUME TypeOK, NEW s \in Node, NEW d \in Node
    PROVE  Count(net[s][d], Votes) \in Nat /\ Count(net[s][d], Restarts) \in Nat
<1>1. net[s][d] \in Seq(Message)
    BY DEF TypeOK
<1>. QED
    BY <1>1, CountType

(* The handlers that neither vote nor restart leave both counts alone. *)
Quiet ==
    /\ UNCHANGED <<sentTerminateDetection, childSignal>>
    /\ \A s, d \in Node : /\ Count(net'[s][d], Votes) = Count(net[s][d], Votes)
                          /\ Count(net'[s][d], Restarts) = Count(net[s][d], Restarts)

LEMMA QuietStep ==
    ASSUME VoteAccounting, OnlyParentsRestart, Quiet
    PROVE  VoteAccounting' /\ OnlyParentsRestart'
<1>1. ASSUME NEW c \in Node \ {Root}
      PROVE  /\ Count(net'[c][Parent[c]], Votes) + Count(net'[Parent[c]][c], Restarts)
                  + (IF childSignal'[c] = 0 THEN 0 ELSE 1) = sentTerminateDetection'[c]
             /\ sentTerminateDetection'[c] = 1 => \A d \in Children(c) : childSignal'[d] # 0
    BY <1>1, ParentType DEF VoteAccounting, Quiet, AllVoted, Votes, Restarts
<1>2. VoteAccounting'
    BY <1>1 DEF VoteAccounting, AllVoted, Votes, Restarts
<1>3. OnlyParentsRestart'
    BY DEF OnlyParentsRestart, Quiet
<1>. QED
    BY <1>2, <1>3

(* A step that sends out, with neither votes nor restarts in it. *)
LEMMA QuietSend ==
    ASSUME TypeOK, NEW n \in Node, NEW out \in Outputs, NEW types, Only(out, types),
           types \cap (Votes \cup Restarts) = {}, Sends(net, n, out, net'),
           UNCHANGED <<sentTerminateDetection, childSignal>>
    PROVE  Quiet
<1>1. net \in [Node -> Outputs]
    BY DEF TypeOK, Outputs
<1>2. types \cap Votes = {} /\ types \cap Restarts = {}
    OBVIOUS
<1>3. \A d \in Node : Count(out[d], Votes) = 0 /\ Count(out[d], Restarts) = 0
    BY <1>2, OnlyCount
<1>4. ASSUME NEW T, T \in {Votes, Restarts}, NEW s \in Node, NEW d \in Node
      PROVE  Count(net'[s][d], T) = Count(net[s][d], T)
  <2>1. Gains(net, n, out, net', T)
      BY <1>1, SendsCount
  <2>. QED
      BY <1>3, <1>4, <2>1, NetCountType DEF Gains
<1>. QED
    BY <1>4 DEF Quiet

(* The effect of a handler on the counts: the packet it takes from s, then *)
(* what it sends.                                                          *)
LEMMA ReceiveCount ==
    ASSUME TypeOK, NEW n \in Node, NEW s \in Node, net[s][n] # << >>, NEW out \in Outputs,
           net' = Post(Consumed(n, s), n, out), NEW T
    PROVE  /\ Loses(net, n, s, Packet(n, s), Consumed(n, s), T)
           /\ Gains(Consumed(n, s), n, out, net', T)
<1>1. Loses(net, n, s, Packet(n, s), Consumed(n, s), T)
    BY ConsumedCount
<1>2. Consumed(n, s) \in [Node -> Outputs]
    BY ConsumedType
<1>3. Sends(Consumed(n, s), n, out, Post(Consumed(n, s), n, out))
    BY <1>2, PostType
<1>4. Gains(Consumed(n, s), n, out, Post(Consumed(n, s), n, out), T)
    BY <1>2, <1>3, SendsCount
<1>. QED
    BY <1>1, <1>4, Zenon

(* A handler of another packet that sends neither votes nor restarts. *)
LEMMA QuietReceive ==
    ASSUME TypeOK, NEW n \in Node, NEW s \in Node, net[s][n] # << >>,
           Packet(n, s).type \notin Votes \cup Restarts,
           \/ net' = Consumed(n, s)
           \/ \E D, m : /\ m \in Message
                        /\ m.type \notin Votes \cup Restarts
                        /\ net' = Post(Consumed(n, s), n, ToAll(D, m)),
           UNCHANGED <<sentTerminateDetection, childSignal>>
    PROVE  Quiet
<1>1. CASE net' = Consumed(n, s)
  <2>1. ASSUME NEW T, T \in {Votes, Restarts}, NEW a \in Node, NEW b \in Node
        PROVE  Count(net'[a][b], T) = Count(net[a][b], T)
    <3>1. Loses(net, n, s, Packet(n, s), net', T)
        BY <1>1, ConsumedCount
    <3>2. net' \in [Node -> Outputs]
        BY <1>1, ConsumedType
    <3>3. Count(net'[a][b], T) \in Nat
        BY <3>2, CountType DEF Outputs
    <3>. QED
        BY <2>1, <3>1, <3>3 DEF Loses
  <2>. QED
      BY <2>1 DEF Quiet
<1>2. ASSUME NEW D, NEW m \in Message, m.type \notin Votes \cup Restarts,
             net' = Post(Consumed(n, s), n, ToAll(D, m))
      PROVE  Quiet
  <2>1. ToAll(D, m) \in Outputs
      BY ToAllType
  <2>2. ASSUME NEW T, T \in {Votes, Restarts}, NEW a \in Node, NEW b \in Node
        PROVE  Count(net'[a][b], T) = Count(net[a][b], T)
    <3>1. /\ Loses(net, n, s, Packet(n, s), Consumed(n, s), T)
          /\ Gains(Consumed(n, s), n, ToAll(D, m), net', T)
        BY <1>2, <2>1, ReceiveCount
    <3>2. Consumed(n, s) \in [Node -> Outputs]
        BY ConsumedType
    <3>3. Count(Consumed(n, s)[a][b], T) \in Nat
        BY <3>2, CountType DEF Outputs
    <3>4. Count(ToAll(D, m)[b], T) = 0
        BY <1>2, <2>2, ToAllCount
    <3>. QED
        BY <2>2, <3>1, <3>3, <3>4 DEF Loses, Gains
  <2>. QED
      BY <2>2 DEF Quiet
<1>. QED
    BY <1>1, <1>2

(* An idle turn: its control packets are all that the counts can notice.   *)
LEMMA IdleCount ==
    ASSUME TypeOK, NEW n \in Node, NEW control \in Outputs, AskForWork(n, control),
           NEW T, T \in {Votes, Restarts}
    PROVE  Gains(net, n, control, net', T)
<1>1. PICK out \in Outputs :
         /\ Sends(net, n, Join(out, control), net')
         /\ Only(out, {"REJECT_WORK_REQUEST", "WORK_REQUEST"})
    BY AskForWorkType
<1>2. Join(out, control) \in Outputs /\ net \in [Node -> Outputs]
    BY JoinType DEF TypeOK, Outputs
<1>3. Gains(net, n, Join(out, control), net', T)
    BY <1>1, <1>2, SendsCount
<1>4. ASSUME NEW d \in Node PROVE Count(Join(out, control)[d], T) = Count(control[d], T)
  <2>1. {"REJECT_WORK_REQUEST", "WORK_REQUEST"} \cap T = {}
      BY DEF Votes, Restarts
  <2>2. Count(out[d], T) = 0
      BY <1>1, <2>1, OnlyCount
  <2>3. Count(Join(out, control)[d], T) = Count(out[d], T) + Count(control[d], T)
      BY JoinCount
  <2>4. Count(control[d], T) \in Nat
      BY CountType DEF Outputs
  <2>. QED
      BY <2>2, <2>3, <2>4
<1>. QED
    BY <1>3, <1>4 DEF Gains

(* VoteAccounting, child by child: c's vote is on its way, called back, or *)
(* noted.                                                                  *)
Voted(c) == Count(net[c][Parent[c]], Votes)
Recalled(c) == Count(net[Parent[c]][c], Restarts)
Noted(c) == IF childSignal[c] = 0 THEN 0 ELSE 1
Accounted(c) ==
    /\ Voted(c) + Recalled(c) + Noted(c) = sentTerminateDetection[c]
    /\ sentTerminateDetection[c] = 1 => \A d \in Children(c) : Noted(d) = 1

LEMMA AccountedDef == VoteAccounting <=> \A c \in Node \ {Root} : Accounted(c)
BY DEF VoteAccounting, Accounted, AllVoted, Votes, Restarts, Voted, Recalled, Noted

LEMMA AccountedDefPrime == VoteAccounting' <=> \A c \in Node \ {Root} : Accounted(c)'
BY DEF VoteAccounting, Accounted, AllVoted, Votes, Restarts, Voted, Recalled, Noted

LEMMA AccountedType ==
    ASSUME VoteInv, NEW c \in Node \ {Root}
    PROVE  /\ Accounted(c)
           /\ Voted(c) \in Nat /\ Recalled(c) \in Nat /\ Noted(c) \in {0, 1}
           /\ sentTerminateDetection[c] \in {0, 1}
BY AccountedDef, NetCountType, ParentType DEF VoteInv, TypeOK, Voted, Recalled, Noted

(* Casting a vote: one more on its way, of a node that had not voted.      *)
LEMMA CastStep ==
    ASSUME VoteInv, NEW n \in Node, CastVote(n)
    PROVE  VoteAccounting' /\ OnlyParentsRestart'
<1>. DEFINE control == ToAll({Parent[n]}, Vote(Stand(n)))
<1>1. /\ n \in Node \ {Root} /\ AllVoted(n) /\ sentTerminateDetection[n] = 0
      /\ sentTerminateDetection' = [sentTerminateDetection EXCEPT ![n] = 1]
      /\ UNCHANGED childSignal
    BY DEF CastVote
<1>2. Vote(Stand(n)) \in Message /\ Vote(Stand(n)).type = "VOTE_TERMINATION"
  <2>1. Stand(n) \in {1, 2}
      BY DEF VoteInv, TypeOK, Stand
  <2>. QED
      BY <2>1, MessageType DEF Vote
<1>3. \A d \in Node : /\ Count(control[d], Votes) = IF d = Parent[n] THEN 1 ELSE 0
                      /\ Count(control[d], Restarts) = 0
    BY <1>2, ToAllCount DEF Votes, Restarts
<1>4. Gains(net, n, control, net', Votes) /\ Gains(net, n, control, net', Restarts)
  <2>1. control \in Outputs
      BY <1>2, ToAllType
  <2>2. AskForWork(n, control)
      BY DEF CastVote
  <2>3. TypeOK
      BY DEF VoteInv
  <2>. HIDE DEF control
  <2>. QED
      BY <2>1, <2>2, <2>3, IdleCount
<1>. HIDE DEF control
<1>5. ASSUME NEW s \in Node, NEW d \in Node
      PROVE  /\ Count(net'[s][d], Votes) =
                  Count(net[s][d], Votes) + (IF s = n /\ d = Parent[n] THEN 1 ELSE 0)
             /\ Count(net'[s][d], Restarts) = Count(net[s][d], Restarts)
  <2>1. Count(net[s][d], Votes) \in Nat /\ Count(net[s][d], Restarts) \in Nat
      BY NetCountType DEF VoteInv
  <2>. QED
      BY <1>3, <1>4, <2>1 DEF Gains
<1>6. ASSUME NEW c \in Node \ {Root} PROVE Accounted(c)'
  <2>1. /\ Voted(c)' = Voted(c) + (IF c = n THEN 1 ELSE 0)
        /\ Recalled(c)' = Recalled(c)
      BY <1>5, ParentType DEF Voted, Recalled
  <2>2. \A d \in Node : Noted(d)' = Noted(d)
      BY <1>1 DEF Noted
  <2>3. sentTerminateDetection'[c] = IF c = n THEN 1 ELSE sentTerminateDetection[c]
      BY <1>1 DEF VoteInv, TypeOK
  <2>4. \A d \in Children(n) : Noted(d) = 1
      BY <1>1 DEF AllVoted, Noted
  <2>5. \A d \in Children(c) : d \in Node
      BY DEF Children
  <2>. QED
      BY <1>1, <2>1, <2>2, <2>3, <2>4, <2>5, AccountedType DEF Accounted
<1>7. OnlyParentsRestart'
    BY <1>5 DEF VoteInv, OnlyParentsRestart
<1>8. VoteAccounting'
    BY <1>6, AccountedDefPrime
<1>. QED
    BY <1>7, <1>8

(* Noting a child's vote: it is no longer on its way. *)
LEMMA RecvVoteStep ==
    ASSUME VoteInv, NEW n \in Node, NEW s \in Node \ {n}, RecvVote(n, s)
    PROVE  VoteAccounting' /\ OnlyParentsRestart'
<1>1. /\ net[s][n] # << >> /\ Packet(n, s).type = "VOTE_TERMINATION"
      /\ net' = Consumed(n, s)
      /\ UNCHANGED sentTerminateDetection
    BY DEF RecvVote, Arrived, Packet
<1>2. /\ TypeOK
      /\ Packet(n, s).signal \in {1, 2}
    BY <1>1, ConsumedType DEF VoteInv, Message
<1>3. ASSUME NEW a \in Node, NEW b \in Node
      PROVE  /\ Count(net[a][b], Votes) =
                  Count(net'[a][b], Votes) + (IF a = s /\ b = n THEN 1 ELSE 0)
             /\ Count(net'[a][b], Restarts) = Count(net[a][b], Restarts)
             /\ Count(net'[a][b], Votes) \in Nat
  <2>1. /\ Loses(net, n, s, Packet(n, s), net', Votes)
        /\ Loses(net, n, s, Packet(n, s), net', Restarts)
      BY <1>1, <1>2, ConsumedCount
  <2>2. net' \in [Node -> Outputs]
      BY <1>1, <1>2, ConsumedType
  <2>3. Count(net'[a][b], Votes) \in Nat /\ Count(net'[a][b], Restarts) \in Nat
      BY <2>2, CountType DEF Outputs
  <2>. QED
      BY <1>1, <2>1, <2>3 DEF Loses, Votes, Restarts
<1>4. \A c \in Node : Noted(c)' = IF c = s /\ s \in Children(n) THEN 1 ELSE Noted(c)
    BY SMTT(30), <1>2 DEF RecvVote, Noted, TypeOK
<1>5. ASSUME NEW c \in Node \ {Root} PROVE Accounted(c)'
  <2>1. /\ Voted(c) = Voted(c)' + (IF c = s /\ s \in Children(n) THEN 1 ELSE 0)
        /\ Voted(c)' \in Nat
        /\ Recalled(c)' = Recalled(c)
      BY <1>3, ParentType DEF Voted, Recalled
  <2>2. sentTerminateDetection'[c] = sentTerminateDetection[c]
      BY <1>1
  <2>3. \A d \in Children(c) : d \in Node
      BY DEF Children
  <2>. QED
      BY <1>4, <2>1, <2>2, <2>3, AccountedType DEF Accounted
<1>6. OnlyParentsRestart'
    BY <1>3 DEF VoteInv, OnlyParentsRestart
<1>. QED
    BY <1>5, <1>6, AccountedDefPrime

(* Asking for a new round: every child's vote was noted, now it is called  *)
(* back.                                                                   *)
LEMMA RestartVoteStep ==
    ASSUME VoteInv, RestartVote
    PROVE  VoteAccounting' /\ OnlyParentsRestart'
<1>. DEFINE control == ToAll(Children(Root), Restart)
<1>1. /\ AllVoted(Root)
      /\ childSignal' = ForgetVotes(Root)
      /\ UNCHANGED sentTerminateDetection
      /\ AskForWork(Root, control)
    BY DEF RestartVote
<1>2. \A d \in Node : /\ Count(control[d], Votes) = 0
                      /\ Count(control[d], Restarts) = IF d \in Children(Root) THEN 1 ELSE 0
    BY MessageType, ToAllCount DEF Votes, Restarts, Restart
<1>3. control \in Outputs
    BY MessageType, ToAllType
<1>. HIDE DEF control
<1>4. TypeOK /\ Root \in Node
    BY ParentType DEF VoteInv
<1>5. Gains(net, Root, control, net', Votes) /\ Gains(net, Root, control, net', Restarts)
    BY <1>1, <1>3, <1>4, IdleCount
<1>6. ASSUME NEW s \in Node, NEW d \in Node
      PROVE  /\ Count(net'[s][d], Votes) = Count(net[s][d], Votes)
             /\ Count(net'[s][d], Restarts) = Count(net[s][d], Restarts)
                  + (IF s = Root /\ d \in Children(Root) THEN 1 ELSE 0)
    BY <1>2, <1>4, <1>5, NetCountType DEF Gains
<1>7. \A c \in Node : Noted(c)' = IF c \in Children(Root) THEN 0 ELSE Noted(c)
    BY <1>1 DEF ForgetVotes, Noted
<1>8. ASSUME NEW c \in Node \ {Root} PROVE Accounted(c)'
  <2>1. /\ Voted(c)' = Voted(c)
        /\ Recalled(c)' = Recalled(c) + (IF c \in Children(Root) THEN 1 ELSE 0)
      BY <1>6, ParentType DEF Voted, Recalled
  <2>2. sentTerminateDetection'[c] = sentTerminateDetection[c]
      BY <1>1
  <2>3. c \in Children(Root) => Noted(c) = 1
      BY <1>1 DEF AllVoted, Noted
  <2>4. \A d \in Children(c) : d \in Node /\ d \notin Children(Root)
      BY DEF Children
  <2>. QED
      BY <1>7, <2>1, <2>2, <2>3, <2>4, AccountedType DEF Accounted
<1>9. OnlyParentsRestart'
    BY <1>6 DEF VoteInv, OnlyParentsRestart, Children
<1>. QED
    BY <1>8, <1>9, AccountedDefPrime

(* Obeying a restart: the node had voted, so all its children had, and     *)
(* their votes are called back in turn.                                    *)
LEMMA RecvRestartStep ==
    ASSUME VoteInv, NEW n \in Node, NEW s \in Node \ {n}, RecvRestart(n, s)
    PROVE  VoteAccounting' /\ OnlyParentsRestart'
<1>. DEFINE control == ToAll(Children(n), Restart)
<1>1. /\ net[s][n] # << >> /\ Packet(n, s).type = "RESTART_VOTING_TERMINATION"
      /\ net' = Post(Consumed(n, s), n, control)
      /\ sentTerminateDetection' = [sentTerminateDetection EXCEPT ![n] = 0]
      /\ childSignal' = ForgetVotes(n)
    BY DEF RecvRestart, Arrived, Packet
<1>2. \A d \in Node : /\ Count(control[d], Votes) = 0
                      /\ Count(control[d], Restarts) = IF d \in Children(n) THEN 1 ELSE 0
    BY MessageType, ToAllCount DEF Votes, Restarts, Restart
<1>3. control \in Outputs
    BY MessageType, ToAllType
<1>. HIDE DEF control
<1>4. TypeOK
    BY DEF VoteInv
<1>5. ASSUME NEW a \in Node, NEW b \in Node
      PROVE  /\ Count(net'[a][b], Votes) = Count(net[a][b], Votes)
             /\ Count(net'[a][b], Restarts) + (IF a = s /\ b = n THEN 1 ELSE 0) =
                  Count(net[a][b], Restarts) + (IF a = n /\ b \in Children(n) THEN 1 ELSE 0)
             /\ Count(net'[a][b], Restarts) \in Nat
             /\ a = s /\ b = n => Count(net[a][b], Restarts) > 0
  <2>1. /\ Loses(net, n, s, Packet(n, s), Consumed(n, s), Votes)
        /\ Loses(net, n, s, Packet(n, s), Consumed(n, s), Restarts)
        /\ Gains(Consumed(n, s), n, control, net', Votes)
        /\ Gains(Consumed(n, s), n, control, net', Restarts)
      BY <1>1, <1>3, <1>4, ReceiveCount
  <2>2. Consumed(n, s) \in [Node -> Outputs]
      BY <1>1, <1>4, ConsumedType
  <2>3. /\ Count(Consumed(n, s)[a][b], Votes) \in Nat
        /\ Count(Consumed(n, s)[a][b], Restarts) \in Nat
      BY <2>2, CountType DEF Outputs
  <2>4. /\ Count(net[a][b], Votes) = Count(Consumed(n, s)[a][b], Votes)
        /\ Count(net[a][b], Restarts) =
              Count(Consumed(n, s)[a][b], Restarts) + (IF a = s /\ b = n THEN 1 ELSE 0)
      BY <1>1, <2>1, <2>3 DEF Loses, Votes, Restarts
  <2>5. /\ Count(net'[a][b], Votes) = Count(Consumed(n, s)[a][b], Votes)
        /\ Count(net'[a][b], Restarts) = Count(Consumed(n, s)[a][b], Restarts)
              + (IF a = n /\ b \in Children(n) THEN 1 ELSE 0)
      BY <1>2, <2>1, <2>3 DEF Gains
  <2>. QED
      BY <2>3, <2>4, <2>5
<1>6. n \in Node \ {Root} /\ s = Parent[n]
    BY <1>5 DEF VoteInv, OnlyParentsRestart
<1>7. /\ Recalled(n) = 1 /\ Noted(n) = 0 /\ Voted(n) = 0
      /\ \A d \in Children(n) : Noted(d) = 1
  <2>1. Recalled(n) > 0
      BY <1>5, <1>6 DEF Recalled
  <2>. QED
      BY <1>6, <2>1, AccountedType DEF Accounted
<1>8. \A c \in Node : Noted(c)' = IF c \in Children(n) THEN 0 ELSE Noted(c)
    BY <1>1 DEF ForgetVotes, Noted
<1>9. ASSUME NEW c \in Node \ {Root} PROVE Accounted(c)'
  <2>1. /\ Voted(c)' = Voted(c)
        /\ Recalled(c)' + (IF c = n THEN 1 ELSE 0) =
              Recalled(c) + (IF c \in Children(n) THEN 1 ELSE 0)
        /\ Recalled(c)' \in Nat
      BY <1>5, <1>6, ParentType DEF Voted, Recalled
  <2>2. sentTerminateDetection'[c] = IF c = n THEN 0 ELSE sentTerminateDetection[c]
      BY <1>1, <1>4 DEF TypeOK
  <2>3. n \notin Children(n)
      BY ParentType
  <2>4. \A d \in Children(c) : d \in Node /\ (d \in Children(n) => c = n)
      BY DEF Children
  <2>. QED
      BY <1>7, <1>8, <2>1, <2>2, <2>3, <2>4, AccountedType DEF Accounted
<1>10. OnlyParentsRestart'
  <2>. SUFFICES ASSUME NEW a \in Node, NEW b \in Node, b = Root \/ a # Parent[b]
                PROVE  Count(net'[a][b], Restarts) = 0
      BY DEF OnlyParentsRestart
  <2>1. Count(net[a][b], Restarts) = 0
      BY DEF VoteInv, OnlyParentsRestart
  <2>2. ~(a = n /\ b \in Children(n))
      BY DEF Children
  <2>. QED
      BY <1>5, <2>1, <2>2
<1>. QED
    BY <1>9, <1>10, AccountedDefPrime

LEMMA VoteStep == VoteInv /\ [Next]_vars => VoteInv'
<1>. SUFFICES ASSUME VoteInv, [Next]_vars PROVE VoteInv'
    OBVIOUS
<1>1. TypeOK /\ VoteAccounting /\ OnlyParentsRestart
    BY DEF VoteInv
<1>2. TypeOK'
    BY <1>1, TypeStep
<1>3. SUFFICES VoteAccounting' /\ OnlyParentsRestart'
    BY <1>2 DEF VoteInv
<1>4. Quiet => VoteAccounting' /\ OnlyParentsRestart'
    BY <1>1, QuietStep
<1>5. ASSUME NEW n \in Node, Trigger(n) PROVE Quiet
    BY <1>5 DEF Trigger, Quiet, voteVars
<1>6. ASSUME NEW n \in Node, Explore(n) PROVE Quiet
  <2>1. PICK out \in Outputs :
           /\ Sends(net, n, out, net')
           /\ Only(out, {"BB_PROBLEM_PACKET", "OPTIMAL_SOLUTION_FOUND"})
      BY <1>1, <1>6, ExploreType
  <2>2. UNCHANGED <<sentTerminateDetection, childSignal>>
      BY <1>1, <1>6, ExploreType
  <2>3. {"BB_PROBLEM_PACKET", "OPTIMAL_SOLUTION_FOUND"} \cap (Votes \cup Restarts) = {}
      BY DEF Votes, Restarts
  <2>. QED
      BY <1>1, <2>1, <2>2, <2>3, QuietSend
<1>7. ASSUME NEW n \in Node, IdleTurn(n) PROVE VoteAccounting' /\ OnlyParentsRestart'
  <2>1. ASSUME NEW m \in Node, NEW control \in Outputs, AskForWork(m, control),
               \A d \in Node : Count(control[d], Votes) = 0 /\ Count(control[d], Restarts) = 0,
               UNCHANGED <<sentTerminateDetection, childSignal>>
        PROVE  Quiet
    <3>1. Gains(net, m, control, net', Votes) /\ Gains(net, m, control, net', Restarts)
        BY <1>1, <2>1, IdleCount
    <3>. QED
        BY <1>1, <2>1, <3>1, NetCountType DEF Gains, Quiet
  <2>2. CASE KeepAsking(n)
    <3>1. Nothing \in Outputs
        BY MessageType, ToAllType
    <3>2. \A d \in Node : Count(Nothing[d], Votes) = 0 /\ Count(Nothing[d], Restarts) = 0
        BY MessageType, ToAllCount
    <3>. QED
        BY <1>4, <2>1, <2>2, <3>1, <3>2 DEF KeepAsking
  <2>3. CASE CastVote(n)
      BY <2>3, CastStep
  <2>4. CASE RestartVote
      BY <2>4, RestartVoteStep
  <2>5. CASE DetectTermination
    <3>1. ToAll(Children(Root), Terminate) \in Outputs
        BY MessageType, ToAllType
    <3>2. \A d \in Node : /\ Count(ToAll(Children(Root), Terminate)[d], Votes) = 0
                          /\ Count(ToAll(Children(Root), Terminate)[d], Restarts) = 0
        BY MessageType, ToAllCount DEF Votes, Restarts, Terminate
    <3>. QED
        BY <1>4, <2>1, <2>5, <3>1, <3>2, ParentType DEF DetectTermination
  <2>. QED
      BY <1>7, <2>2, <2>3, <2>4, <2>5 DEF IdleTurn
<1>8. ASSUME NEW n \in Node, NEW s \in Node \ {n}, Receive(n, s)
      PROVE  VoteAccounting' /\ OnlyParentsRestart'
  <2>1. CASE RecvVote(n, s)
      BY <2>1, RecvVoteStep
  <2>2. CASE RecvRestart(n, s)
      BY <2>2, RecvRestartStep
  <2>3. CASE RecvWork(n, s) \/ RecvReject(n, s) \/ RecvWorkRequest(n, s)
    <3>1. /\ net[s][n] # << >> /\ Packet(n, s).type \notin Votes \cup Restarts
          /\ net' = Consumed(n, s)
          /\ UNCHANGED <<sentTerminateDetection, childSignal>>
        BY <2>3 DEF RecvWork, RecvReject, RecvWorkRequest, Arrived, Packet, Votes, Restarts,
                    voteVars
    <3>. QED
        BY <1>1, <1>4, <3>1, QuietReceive
  <2>4. CASE RecvOptimalSolution(n, s)
    <3>. DEFINE known == IF Packet(n, s).cost < best[n] THEN Packet(n, s).cost ELSE best[n]
    <3>1. /\ net[s][n] # << >> /\ Packet(n, s).type = "OPTIMAL_SOLUTION_FOUND"
          /\ \/ net' = Consumed(n, s)
             \/ net' = Post(Consumed(n, s), n, ToAll(Neighbour(n), Optimal(known)))
          /\ UNCHANGED <<sentTerminateDetection, childSignal>>
        BY <2>4 DEF RecvOptimalSolution, Arrived, Packet, voteVars
    <3>2. Packet(n, s).cost \in Nat
        BY <1>1, <3>1, ConsumedType DEF Message
    <3>3. known \in Nat
        BY <1>1, <3>2 DEF TypeOK
    <3>4. Optimal(known) \in Message /\ Optimal(known).type \notin Votes \cup Restarts
        BY <3>3, MessageType DEF Optimal, Votes, Restarts
    <3>5. Packet(n, s).type \notin Votes \cup Restarts
        BY <3>1 DEF Votes, Restarts
    <3>. HIDE DEF known
    <3>. QED
        BY <1>1, <1>4, <3>1, <3>4, <3>5, QuietReceive
  <2>5. CASE RecvTermination(n, s)
    <3>1. /\ net[s][n] # << >> /\ Packet(n, s).type \notin Votes \cup Restarts
          /\ net' = Post(Consumed(n, s), n, ToAll(Children(n), Terminate))
          /\ UNCHANGED <<sentTerminateDetection, childSignal>>
        BY <2>5 DEF RecvTermination, Arrived, Packet, Votes, Restarts, voteVars
    <3>2. Terminate \in Message /\ Terminate.type \notin Votes \cup Restarts
        BY MessageType DEF Terminate, Votes, Restarts
    <3>. QED
        BY <1>1, <1>4, <3>1, <3>2, QuietReceive
  <2>. QED
      BY <1>8, <2>1, <2>2, <2>3, <2>4, <2>5 DEF Receive
<1>9. CASE UNCHANGED vars
    BY <1>4, <1>9 DEF Quiet, vars, voteVars
<1>. QED
    BY <1>4, <1>5, <1>6, <1>7, <1>8, <1>9 DEF Next, Finished

LEMMA VoteInit == Init => VoteInv
<1>. SUFFICES ASSUME Init PROVE VoteInv
    OBVIOUS
<1>1. TypeOK
    BY TypeInit
<1>2. ASSUME NEW s \in Node, NEW d \in Node
      PROVE  Count(net[s][d], Votes) = 0 /\ Count(net[s][d], Restarts) = 0
  <2>1. net[s][d] = << >>
      BY DEF Init
  <2>. QED
      BY <2>1, MessageType, CountShort
<1>3. ASSUME NEW c \in Node \ {Root} PROVE Accounted(c)
    BY <1>2, ParentType DEF Accounted, Voted, Recalled, Noted, Init
<1>. QED
    BY <1>1, <1>2, <1>3, AccountedDef DEF VoteInv, OnlyParentsRestart

(***************************************************************************)
(* Each vote is counted once per round: it is on its way, called back or   *)
(* noted exactly while its node has voted, and a node votes after its      *)
(* whole subtree.                                                          *)
(***************************************************************************)
THEOREM VotesAccounted == Spec => []VoteAccounting
<1>1. VoteInv => VoteAccounting
    BY DEF VoteInv
<1>. QED
    BY <1>1, VoteInit, VoteStep, PTL DEF Spec

-----------------------------------------------------------------------------
(* Positive votes.                                                         *)

PositiveIn(q) == \E i \in 1 .. Len(q) : q[i].type = "VOTE_TERMINATION" /\ q[i].signal = 1

(* A node whose positive vote is noted, or on its way, has only positive   *)
(* votes below it; a negative vote that is noted keeps its parent's vote   *)
(* negative.                                                               *)
Flying(c) == PositiveIn(net[c][Parent[c]])
PositiveSubtree(c) ==
    childSignal[c] = 1 \/ Flying(c)
        => \A d \in Children(c) : childSignal[d] = 1
NegativeSticks(c) == childSignal[c] = 2 => terminationSignal[Parent[c]] = 2
Deep == \A c \in Node \ {Root} : PositiveSubtree(c) /\ NegativeSticks(c)

DeepInv ==
    /\ VoteInv
    /\ Deep

LEMMA DeepInvImplies == DeepInv => PositiveVotesAreDeep
BY DEF DeepInv, Deep, PositiveSubtree, PositiveVotesAreDeep

(* A positive vote is a vote. *)
LEMMA PositiveCounted ==
    ASSUME NEW q \in Seq(Message), PositiveIn(q)
    PROVE  Count(q, Votes) \in Nat /\ Count(q, Votes) # 0
BY CountType, CountZero DEF PositiveIn, Votes

LEMMA PositiveSplit ==
    ASSUME NEW q \in Seq(Message), NEW r \in Seq(Message)
    PROVE  PositiveIn(q \o r) => PositiveIn(q) \/ PositiveIn(r)
<1>. SUFFICES ASSUME PositiveIn(q \o r) PROVE PositiveIn(q) \/ PositiveIn(r)
    OBVIOUS
<1>1. PICK i \in 1 .. Len(q \o r) :
         (q \o r)[i].type = "VOTE_TERMINATION" /\ (q \o r)[i].signal = 1
    BY DEF PositiveIn
<1>2. \/ \E j \in 1 .. Len(q) : (q \o r)[i] = q[j]
      \/ \E j \in 1 .. Len(r) : (q \o r)[i] = r[j]
    BY EitherPart
<1>. QED
    BY <1>1, <1>2 DEF PositiveIn

LEMMA PositiveTail ==
    ASSUME NEW q \in Seq(Message), q # << >>, PositiveIn(Tail(q))
    PROVE  PositiveIn(q)
<1>1. PICK i \in 1 .. Len(Tail(q)) :
         Tail(q)[i].type = "VOTE_TERMINATION" /\ Tail(q)[i].signal = 1
    BY DEF PositiveIn
<1>2. i + 1 \in 1 .. Len(q) /\ Tail(q)[i] = q[i + 1]
    BY HeadTailProperties
<1>. QED
    BY <1>1, <1>2 DEF PositiveIn

(* Every positive vote of after was one of nw, or is in what n sent. *)
Spreads(nw, n, out, after) ==
    \A s, d \in Node :
        PositiveIn(after[s][d]) => PositiveIn(nw[s][d]) \/ (s = n /\ PositiveIn(out[d]))

LEMMA SendsPositive ==
    ASSUME NEW nw \in [Node -> Outputs], NEW n \in Node, NEW out \in Outputs, NEW after,
           Sends(nw, n, out, after)
    PROVE  Spreads(nw, n, out, after)
<1>. SUFFICES ASSUME NEW s \in Node, NEW d \in Node
              PROVE  PositiveIn(after[s][d])
                        => PositiveIn(nw[s][d]) \/ (s = n /\ PositiveIn(out[d]))
    BY DEF Spreads
<1>. DEFINE q == nw[s][d]
            r == out[d]
<1>1. q \in Seq(Message) /\ r \in Seq(Message)
    BY DEF Outputs
<1>2. after[s][d] = IF s = n THEN q \o r ELSE q
    BY DEF Sends
<1>. HIDE DEF q, r
<1>3. PositiveIn(q \o r) => PositiveIn(q) \/ PositiveIn(r)
    BY <1>1, PositiveSplit
<1>4. PositiveIn(after[s][d]) => PositiveIn(q) \/ (s = n /\ PositiveIn(r))
    BY <1>2, <1>3
<1>. QED
    BY <1>4 DEF q, r

LEMMA ConsumedPositive ==
    ASSUME TypeOK, NEW n \in Node, NEW s \in Node, net[s][n] # << >>
    PROVE  \A a, b \in Node : PositiveIn(Consumed(n, s)[a][b]) => PositiveIn(net[a][b])
<1>. SUFFICES ASSUME NEW a \in Node, NEW b \in Node, PositiveIn(Consumed(n, s)[a][b])
              PROVE  PositiveIn(net[a][b])
    OBVIOUS
<1>. DEFINE q == net[a][b]
<1>1. q \in Seq(Message)
    BY DEF TypeOK
<1>2. Consumed(n, s)[a][b] = IF a = s /\ b = n THEN Tail(q) ELSE q
    BY ConsumedType
<1>3. a = s /\ b = n => q # << >>
    OBVIOUS
<1>. HIDE DEF q
<1>4. PositiveIn(q)
    BY <1>1, <1>2, <1>3, PositiveTail
<1>. QED
    BY <1>4 DEF q

(* No packet but a vote is a positive vote. *)
LEMMA OnlyPositive ==
    ASSUME NEW out \in Outputs, NEW types, Only(out, types), "VOTE_TERMINATION" \notin types,
           NEW d \in Node
    PROVE  ~PositiveIn(out[d])
BY DEF Only, PositiveIn

(* A step that notes no vote, withdraws no negative vote and casts no      *)
(* positive one.                                                           *)
Steady ==
    /\ UNCHANGED childSignal
    /\ \A m \in Node : terminationSignal[m] = 2 => terminationSignal'[m] = 2
    /\ \A s, d \in Node : PositiveIn(net'[s][d]) => PositiveIn(net[s][d])

LEMMA SteadyStep == Deep /\ Steady => Deep'
<1>. SUFFICES ASSUME Deep, Steady, NEW c \in Node \ {Root}
              PROVE  PositiveSubtree(c)' /\ NegativeSticks(c)'
    BY DEF Deep
<1>1. Flying(c)' => Flying(c)
    BY ParentType DEF Steady, Flying
<1>2. PositiveSubtree(c) /\ NegativeSticks(c) /\ UNCHANGED childSignal /\ Parent[c] \in Node
    BY ParentType DEF Deep, Steady
<1>3. PositiveSubtree(c)'
    BY <1>1, <1>2 DEF PositiveSubtree
<1>4. NegativeSticks(c)'
    BY <1>2 DEF Steady, NegativeSticks
<1>. QED
    BY <1>3, <1>4

(* The last packets of an idle turn decide what positive votes it casts. *)
LEMMA IdlePositive ==
    ASSUME TypeOK, NEW n \in Node, NEW control \in Outputs, AskForWork(n, control)
    PROVE  Spreads(net, n, control, net')
<1>1. PICK out \in Outputs :
         /\ Sends(net, n, Join(out, control), net')
         /\ Only(out, {"REJECT_WORK_REQUEST", "WORK_REQUEST"})
    BY AskForWorkType
<1>2. Join(out, control) \in Outputs /\ net \in [Node -> Outputs]
    BY JoinType DEF TypeOK, Outputs
<1>3. Spreads(net, n, Join(out, control), net')
    BY <1>1, <1>2, SendsPositive
<1>4. ASSUME NEW d \in Node
      PROVE  PositiveIn(Join(out, control)[d]) => PositiveIn(control[d])
  <2>. DEFINE q == out[d]
              r == control[d]
  <2>1. q \in Seq(Message) /\ r \in Seq(Message) /\ Join(out, control)[d] = q \o r
      BY DEF Outputs, Join
  <2>2. ~PositiveIn(q)
      BY <1>1, OnlyPositive
  <2>. HIDE DEF q, r
  <2>3. PositiveIn(Join(out, control)[d]) => PositiveIn(r)
      BY <2>1, <2>2, PositiveSplit
  <2>. QED
      BY <2>3 DEF r
<1>. QED
    BY <1>3, <1>4 DEF Spreads

(* The effect of a handler that sends no votes. *)
LEMMA ReceivePositive ==
    ASSUME TypeOK, NEW n \in Node, NEW s \in Node, net[s][n] # << >>,
           \/ net' = Consumed(n, s)
           \/ \E D, m : /\ m \in Message
                        /\ m.type # "VOTE_TERMINATION"
                        /\ net' = Post(Consumed(n, s), n, ToAll(D, m))
    PROVE  \A a, b \in Node : PositiveIn(net'[a][b]) => PositiveIn(net[a][b])
<1>1. CASE net' = Consumed(n, s)
    BY <1>1, ConsumedPositive
<1>2. ASSUME NEW D, NEW m \in Message, m.type # "VOTE_TERMINATION",
             net' = Post(Consumed(n, s), n, ToAll(D, m)),
             NEW a \in Node, NEW b \in Node, PositiveIn(net'[a][b])
      PROVE  PositiveIn(net[a][b])
  <2>1. /\ ToAll(D, m) \in Outputs
        /\ Only(ToAll(D, m), {m.type})
      BY ToAllType, ToAllOnly
  <2>2. Consumed(n, s) \in [Node -> Outputs]
      BY ConsumedType
  <2>3. Sends(Consumed(n, s), n, ToAll(D, m), Post(Consumed(n, s), n, ToAll(D, m)))
      BY <2>1, <2>2, PostType
  <2>4. Spreads(Consumed(n, s), n, ToAll(D, m), Post(Consumed(n, s), n, ToAll(D, m)))
      BY <2>1, <2>2, <2>3, SendsPositive
  <2>5. Spreads(Consumed(n, s), n, ToAll(D, m), net')
      BY <1>2, <2>4, Zenon
  <2>6. ~PositiveIn(ToAll(D, m)[b])
      BY <1>2, <2>1, OnlyPositive
  <2>7. PositiveIn(Consumed(n, s)[a][b])
      BY <1>2, <2>5, <2>6 DEF Spreads
  <2>. QED
      BY <2>7, ConsumedPositive
<1>. QED
    BY <1>1, <1>2

(* A positive vote is cast over positive votes only: a negative one would  *)
(* have made the node's own vote negative.                                 *)
LEMMA CastDeep ==
    ASSUME DeepInv, NEW n \in Node, CastVote(n)
    PROVE  Deep'
<1>. DEFINE control == ToAll({Parent[n]}, Vote(Stand(n)))
<1>1. /\ TypeOK /\ Deep /\ n \in Node \ {Root} /\ AllVoted(n)
      /\ UNCHANGED childSignal
      /\ terminationSignal' = [terminationSignal EXCEPT ![n] = Stand(n)]
      /\ AskForWork(n, control)
    BY DEF CastVote, DeepInv, VoteInv, Deep
<1>2. Stand(n) \in {1, 2}
    BY <1>1 DEF TypeOK, Stand
<1>3. Vote(Stand(n)) \in Message /\ Vote(Stand(n)).signal = Stand(n)
    BY <1>2, MessageType DEF Vote
<1>4. Spreads(net, n, control, net')
  <2>1. control \in Outputs
      BY <1>3, ToAllType
  <2>. HIDE DEF control
  <2>. QED
      BY <1>1, <2>1, IdlePositive
<1>5. \A d \in Node : PositiveIn(control[d]) => d = Parent[n] /\ Stand(n) = 1
  <2>1. \A d \in Node : control[d] = IF d = Parent[n] THEN <<Vote(Stand(n))>> ELSE << >>
      BY DEF ToAll
  <2>. HIDE DEF control
  <2>. QED
      BY <1>3, <2>1 DEF PositiveIn
<1>6. Stand(n) = 1 => \A d \in Children(n) : childSignal[d] = 1
  <2>. SUFFICES ASSUME Stand(n) = 1, NEW d \in Children(n) PROVE childSignal[d] = 1
      OBVIOUS
  <2>1. d \in Node \ {Root} /\ Parent[d] = n
      BY ParentType
  <2>2. childSignal[d] \in {0, 1, 2} /\ childSignal[d] # 0
      BY <1>1, <2>1 DEF TypeOK, AllVoted
  <2>3. terminationSignal[n] # 2
      BY <1>1 DEF Stand, TypeOK
  <2>. QED
      BY <1>1, <2>1, <2>2, <2>3 DEF Deep, NegativeSticks
<1>. HIDE DEF control
<1>7. ASSUME NEW c \in Node \ {Root} PROVE PositiveSubtree(c)' /\ NegativeSticks(c)'
  <2>1. Flying(c)' => Flying(c) \/ (c = n /\ Stand(n) = 1)
      BY <1>4, <1>5, ParentType DEF Spreads, Flying
  <2>2. PositiveSubtree(c) /\ NegativeSticks(c) /\ Parent[c] \in Node
      BY <1>1, ParentType DEF Deep
  <2>3. PositiveSubtree(c)'
      BY <1>1, <1>6, <2>1, <2>2 DEF PositiveSubtree
  <2>4. terminationSignal[n] = 2 => Stand(n) = 2
      BY DEF Stand
  <2>5. NegativeSticks(c)'
      BY <1>1, <2>2, <2>4 DEF NegativeSticks, TypeOK
  <2>. QED
      BY <2>3, <2>5
<1>. QED
    BY <1>7 DEF Deep

(* A node whose own vote is out has only noted votes below it, so a vote   *)
(* still arriving from below can unsettle nothing that was noted above.    *)
LEMMA LateVote ==
    ASSUME VoteInv, NEW c \in Node \ {Root}, NEW d \in Children(c),
           Noted(d) = 0
    PROVE  Noted(c) = 0 /\ Voted(c) = 0 /\ Recalled(c) = 0 /\ ~Flying(c)
<1>1. sentTerminateDetection[c] = 0
    BY AccountedType DEF Accounted
<1>2. Noted(c) = 0 /\ Voted(c) = 0 /\ Recalled(c) = 0
    BY <1>1, AccountedType DEF Accounted
<1>3. c \in Node /\ Parent[c] \in Node
    BY ParentType
<1>4. \A p \in Node : net[c][p] \in Seq(Message)
    BY <1>3 DEF VoteInv, TypeOK
<1>5. \A p \in Node : Count(net[c][p], Votes) = 0 => ~PositiveIn(net[c][p])
    BY <1>4, PositiveCounted
<1>6. ~Flying(c)
    BY <1>2, <1>3, <1>5 DEF Flying, Voted
<1>. QED
    BY <1>2, <1>6

LEMMA RecvVoteDeep ==
    ASSUME DeepInv, NEW n \in Node, NEW s \in Node \ {n}, RecvVote(n, s)
    PROVE  Deep'
<1>1. /\ TypeOK /\ VoteInv /\ Deep
      /\ net[s][n] # << >> /\ Packet(n, s).type = "VOTE_TERMINATION"
      /\ net' = Consumed(n, s)
    BY DEF DeepInv, VoteInv, RecvVote, Arrived, Packet
<1>2. Packet(n, s).signal \in {1, 2}
    BY <1>1, ConsumedType DEF Message
<1>3. \A a, b \in Node : PositiveIn(net'[a][b]) => PositiveIn(net[a][b])
    BY <1>1, ReceivePositive
<1>4. CASE s \notin Children(n)
  <2>1. UNCHANGED <<childSignal, terminationSignal>>
      BY <1>4 DEF RecvVote
  <2>. QED
      BY <1>1, <1>3, <2>1, SteadyStep DEF Steady
<1>5. CASE s \in Children(n)
  <2>1. /\ childSignal' = [childSignal EXCEPT ![s] = Packet(n, s).signal]
        /\ terminationSignal' =
              [terminationSignal EXCEPT ![n] = IF Packet(n, s).signal = 2 THEN 2 ELSE @]
      BY <1>5 DEF RecvVote
  <2>2. /\ s \in Node \ {Root} /\ Parent[s] = n
        /\ \A c \in Node \ {Root} : s \in Children(c) => c = n
      BY <1>5, ParentType DEF Children
  <2>3. Packet(n, s).signal = 1 => Flying(s)
    <3>1. net[s][n] \in Seq(Message) /\ Packet(n, s) = net[s][n][1] /\ 1 \in 1 .. Len(net[s][n])
        BY <1>1 DEF TypeOK, Packet
    <3>. QED
        BY <1>1, <2>2, <3>1 DEF Flying, PositiveIn
  <2>4. Noted(s) = 0
    <3>1. Loses(net, n, s, Packet(n, s), Consumed(n, s), Votes)
        BY <1>1, ConsumedCount
    <3>2. Consumed(n, s) \in [Node -> Outputs]
        BY <1>1, ConsumedType
    <3>3. Count(Consumed(n, s)[s][n], Votes) \in Nat
        BY <3>2, CountType DEF Outputs
    <3>4. Count(net[s][n], Votes) > 0
        BY <1>1, <3>1, <3>3 DEF Loses, Votes
    <3>5. Voted(s) > 0
        BY <2>2, <3>4 DEF Voted
    <3>. QED
        BY <1>1, <2>2, <3>5, AccountedType DEF Accounted
  <2>5. n # Root => childSignal[n] = 0 /\ ~Flying(n)
      BY <1>1, <1>5, <2>4, LateVote DEF Noted
  <2>6. ASSUME NEW c \in Node \ {Root} PROVE PositiveSubtree(c)' /\ NegativeSticks(c)'
    <3>1. Flying(c)' => Flying(c)
        BY <1>3, ParentType DEF Flying
    <3>2. /\ PositiveSubtree(c) /\ NegativeSticks(c) /\ Parent[c] \in Node
          /\ \A d \in Children(c) : d \in Node
        BY <1>1, ParentType DEF Deep
    <3>3. \A d \in Node : childSignal'[d] = IF d = s THEN Packet(n, s).signal ELSE childSignal[d]
        BY <1>1, <2>1 DEF TypeOK
    <3>4. PositiveSubtree(c)'
      <4>1. c = n => PositiveSubtree(c)'
          BY <2>5, <3>1, <3>3 DEF PositiveSubtree
      <4>2. c # n => PositiveSubtree(c)'
        <5>. SUFFICES ASSUME c # n PROVE PositiveSubtree(c)'
            OBVIOUS
        <5>1. \A d \in Children(c) : childSignal'[d] = childSignal[d]
            BY <2>2, <3>2, <3>3
        <5>2. childSignal'[c] = 1 => childSignal[c] = 1 \/ Flying(c)
            BY <2>3, <3>3
        <5>. QED
            BY <3>1, <3>2, <5>1, <5>2 DEF PositiveSubtree
      <4>. QED
          BY <4>1, <4>2
    <3>5. NegativeSticks(c)'
        BY <1>1, <1>2, <2>1, <2>2, <3>2 DEF NegativeSticks, TypeOK
    <3>. QED
        BY <3>4, <3>5
  <2>. QED
      BY <2>6 DEF Deep
<1>. QED
    BY <1>4, <1>5

(* A new round starts from nothing in the subtree that is told so far. *)
LEMMA ForgetDeep ==
    ASSUME TypeOK, Deep, NEW n \in Node,
           childSignal' = ForgetVotes(n),
           \A m \in Node \ {n} : terminationSignal'[m] = terminationSignal[m],
           n # Root => childSignal[n] = 0 /\ ~Flying(n),
           \A a, b \in Node : PositiveIn(net'[a][b]) => PositiveIn(net[a][b])
    PROVE  Deep'
<1>. SUFFICES ASSUME NEW c \in Node \ {Root}
              PROVE  PositiveSubtree(c)' /\ NegativeSticks(c)'
    BY DEF Deep
<1>1. /\ PositiveSubtree(c) /\ NegativeSticks(c)
      /\ Flying(c)' => Flying(c)
      /\ c \in Node /\ Parent[c] \in Node
      /\ \A d \in Children(c) : d \in Node
    BY ParentType DEF Deep, Flying
<1>2. \A d \in Node : childSignal'[d] = IF d \in Children(n) THEN 0 ELSE childSignal[d]
    BY DEF ForgetVotes
<1>3. PositiveSubtree(c)'
  <2>1. CASE c = n
    <3>1. n \notin Children(n)
        BY ParentType
    <3>. QED
        BY <1>1, <1>2, <2>1, <3>1 DEF PositiveSubtree
  <2>2. CASE c # n
    <3>1. \A d \in Children(c) : childSignal'[d] = childSignal[d]
        BY <1>1, <1>2, <2>2 DEF Children
    <3>2. childSignal'[c] = 1 => childSignal[c] = 1
        BY <1>1, <1>2
    <3>. QED
        BY <1>1, <3>1, <3>2 DEF PositiveSubtree
  <2>. QED
      BY <2>1, <2>2
<1>4. NegativeSticks(c)'
  <2>1. Parent[c] = n => c \in Children(n)
      BY ParentType
  <2>. QED
      BY <1>1, <1>2, <2>1 DEF NegativeSticks
<1>. QED
    BY <1>3, <1>4

LEMMA RecvRestartDeep ==
    ASSUME DeepInv, NEW n \in Node, NEW s \in Node \ {n}, RecvRestart(n, s)
    PROVE  Deep'
<1>1. /\ TypeOK /\ VoteInv /\ Deep
      /\ net[s][n] # << >> /\ Packet(n, s).type = "RESTART_VOTING_TERMINATION"
      /\ net' = Post(Consumed(n, s), n, ToAll(Children(n), Restart))
      /\ terminationSignal' = [terminationSignal EXCEPT ![n] = 0]
      /\ childSignal' = ForgetVotes(n)
    BY DEF DeepInv, VoteInv, RecvRestart, Arrived, Packet
<1>2. \A a, b \in Node : PositiveIn(net'[a][b]) => PositiveIn(net[a][b])
  <2>1. Restart \in Message /\ Restart.type # "VOTE_TERMINATION"
      BY MessageType DEF Restart
  <2>. QED
      BY <1>1, <2>1, ReceivePositive
<1>3. Count(net[s][n], Restarts) # 0
  <2>1. Loses(net, n, s, Packet(n, s), Consumed(n, s), Restarts)
      BY <1>1, ConsumedCount
  <2>2. Consumed(n, s) \in [Node -> Outputs]
      BY <1>1, ConsumedType
  <2>3. Count(Consumed(n, s)[s][n], Restarts) \in Nat
      BY <2>2, CountType DEF Outputs
  <2>. QED
      BY <1>1, <2>1, <2>3 DEF Loses, Restarts
<1>4. n \in Node \ {Root} /\ s = Parent[n]
    BY <1>1, <1>3 DEF VoteInv, OnlyParentsRestart
<1>5. Recalled(n) # 0
    BY <1>3, <1>4 DEF Recalled
<1>6. Noted(n) = 0 /\ Voted(n) = 0
    BY <1>1, <1>4, <1>5, AccountedType DEF Accounted
<1>7. \A p \in Node : Count(net[n][p], Votes) = 0 => ~PositiveIn(net[n][p])
  <2>1. \A p \in Node : net[n][p] \in Seq(Message)
      BY <1>1 DEF TypeOK
  <2>. QED
      BY <2>1, PositiveCounted
<1>8. childSignal[n] = 0 /\ ~Flying(n)
    BY <1>4, <1>6, <1>7, ParentType DEF Noted, Voted, Flying
<1>9. \A m \in Node \ {n} : terminationSignal'[m] = terminationSignal[m]
    BY <1>1 DEF TypeOK
<1>. QED
    BY <1>1, <1>2, <1>8, <1>9, ForgetDeep

LEMMA RestartVoteDeep ==
    ASSUME DeepInv, RestartVote
    PROVE  Deep'
<1>. DEFINE control == ToAll(Children(Root), Restart)
<1>1. /\ TypeOK /\ Deep /\ Root \in Node
      /\ AskForWork(Root, control)
      /\ terminationSignal' = [terminationSignal EXCEPT ![Root] = 0]
      /\ childSignal' = ForgetVotes(Root)
    BY ParentType DEF DeepInv, VoteInv, RestartVote
<1>2. /\ control \in Outputs
      /\ Only(control, {"RESTART_VOTING_TERMINATION"})
    BY MessageType, ToAllType, ToAllOnly DEF Restart
<1>. HIDE DEF control
<1>3. \A d \in Node : ~PositiveIn(control[d])
    BY <1>2, OnlyPositive
<1>4. Spreads(net, Root, control, net')
    BY <1>1, <1>2, IdlePositive
<1>5. \A a, b \in Node : PositiveIn(net'[a][b]) => PositiveIn(net[a][b])
    BY <1>3, <1>4 DEF Spreads
<1>6. \A m \in Node \ {Root} : terminationSignal'[m] = terminationSignal[m]
    BY <1>1 DEF TypeOK
<1>. QED
    BY <1>1, <1>5, <1>6, ForgetDeep

LEMMA DeepStep == DeepInv /\ [Next]_vars => DeepInv'
<1>. SUFFICES ASSUME DeepInv, [Next]_vars PROVE Deep'
    BY VoteStep DEF DeepInv
<1>1. TypeOK /\ VoteInv /\ Deep
    BY DEF DeepInv, VoteInv
<1>2. Steady => Deep'
    BY <1>1, SteadyStep
<1>3. ASSUME NEW n \in Node, Trigger(n) PROVE Deep'
    BY <1>2, <1>3 DEF Trigger, Steady, voteVars
<1>4. ASSUME NEW n \in Node, Explore(n) PROVE Deep'
  <2>1. PICK out \in Outputs :
           /\ Sends(net, n, out, net')
           /\ Only(out, {"BB_PROBLEM_PACKET", "OPTIMAL_SOLUTION_FOUND"})
      BY <1>1, <1>4, ExploreType
  <2>2. /\ UNCHANGED childSignal
        /\ \A m \in Node : terminationSignal'[m] \in {terminationSignal[m], 2}
      BY <1>1, <1>4, ExploreType
  <2>3. \A d \in Node : ~PositiveIn(out[d])
      BY <2>1, OnlyPositive
  <2>4. Spreads(net, n, out, net')
    <3>1. net \in [Node -> Outputs]
        BY <1>1 DEF TypeOK, Outputs
    <3>. QED
        BY <2>1, <3>1, SendsPositive
  <2>. QED
      BY <1>2, <2>2, <2>3, <2>4 DEF Steady, Spreads
<1>5. ASSUME NEW n \in Node, IdleTurn(n) PROVE Deep'
  <2>1. CASE KeepAsking(n)
    <3>1. Nothing \in Outputs /\ \A d \in Node : ~PositiveIn(Nothing[d])
        BY MessageType, ToAllType DEF Nothing, PositiveIn
    <3>2. Spreads(net, n, Nothing, net')
        BY <1>1, <2>1, <3>1, IdlePositive DEF KeepAsking
    <3>3. /\ UNCHANGED childSignal
          /\ \A m \in Node : terminationSignal[m] = 2 => terminationSignal'[m] = 2
        BY <1>1, <2>1 DEF KeepAsking, Stand, TypeOK
    <3>. QED
        BY <1>2, <3>1, <3>2, <3>3 DEF Steady, Spreads
  <2>2. CASE CastVote(n)
      BY <2>2, CastDeep
  <2>3. CASE RestartVote
      BY <2>3, RestartVoteDeep
  <2>4. CASE DetectTermination
    <3>. DEFINE control == ToAll(Children(Root), Terminate)
    <3>1. /\ control \in Outputs
          /\ Only(control, {"TERMINATION_SIGNAL"})
          /\ AskForWork(Root, control)
        BY <2>4, MessageType, ToAllType, ToAllOnly DEF Terminate, DetectTermination
    <3>. HIDE DEF control
    <3>2. \A d \in Node : ~PositiveIn(control[d])
        BY <3>1, OnlyPositive
    <3>3. Spreads(net, Root, control, net')
        BY <1>1, <3>1, IdlePositive, ParentType
    <3>4. /\ UNCHANGED childSignal
          /\ \A m \in Node : terminationSignal[m] = 2 => terminationSignal'[m] = 2
        BY <1>1, <2>4 DEF DetectTermination, Unanimous, Stand, TypeOK
    <3>. QED
        BY <1>2, <3>2, <3>3, <3>4 DEF Steady, Spreads
  <2>. QED
      BY <1>5, <2>1, <2>2, <2>3, <2>4 DEF IdleTurn
<1>6. ASSUME NEW n \in Node, NEW s \in Node \ {n}, Receive(n, s) PROVE Deep'
  <2>1. CASE RecvVote(n, s)
      BY <2>1, RecvVoteDeep
  <2>2. CASE RecvRestart(n, s)
      BY <2>2, RecvRestartDeep
  <2>3. CASE RecvWork(n, s) \/ RecvReject(n, s) \/ RecvWorkRequest(n, s)
    <3>1. /\ net[s][n] # << >> /\ net' = Consumed(n, s)
          /\ UNCHANGED voteVars
        BY <2>3 DEF RecvWork, RecvReject, RecvWorkRequest, Arrived, Packet
    <3>2. \A a, b \in Node : PositiveIn(net'[a][b]) => PositiveIn(net[a][b])
        BY <1>1, <3>1, ReceivePositive
    <3>. QED
        BY <1>2, <3>1, <3>2 DEF Steady, voteVars
  <2>4. CASE RecvOptimalSolution(n, s)
    <3>. DEFINE known == IF Packet(n, s).cost < best[n] THEN Packet(n, s).cost ELSE best[n]
    <3>1. /\ net[s][n] # << >> /\ Packet(n, s).type = "OPTIMAL_SOLUTION_FOUND"
          /\ \/ net' = Consumed(n, s)
             \/ net' = Post(Consumed(n, s), n, ToAll(Neighbour(n), Optimal(known)))
          /\ UNCHANGED voteVars
        BY <2>4 DEF RecvOptimalSolution, Arrived, Packet
    <3>2. Packet(n, s).cost \in Nat
        BY <1>1, <3>1, ConsumedType DEF Message
    <3>3. known \in Nat
        BY <1>1, <3>2 DEF TypeOK
    <3>4. Optimal(known) \in Message /\ Optimal(known).type # "VOTE_TERMINATION"
        BY <3>3, MessageType DEF Optimal
    <3>. HIDE DEF known
    <3>5. \A a, b \in Node : PositiveIn(net'[a][b]) => PositiveIn(net[a][b])
        BY <1>1, <3>1, <3>4, ReceivePositive
    <3>. QED
        BY <1>2, <3>1, <3>5 DEF Steady, voteVars
  <2>5. CASE RecvTermination(n, s)
    <3>1. /\ net[s][n] # << >>
          /\ net' = Post(Consumed(n, s), n, ToAll(Children(n), Terminate))
          /\ UNCHANGED voteVars
        BY <2>5 DEF RecvTermination, Arrived
    <3>2. Terminate \in Message /\ Terminate.type # "VOTE_TERMINATION"
        BY MessageType DEF Terminate
    <3>3. \A a, b \in Node : PositiveIn(net'[a][b]) => PositiveIn(net[a][b])
        BY <1>1, <3>1, <3>2, ReceivePositive
    <3>. QED
        BY <1>2, <3>1, <3>3 DEF Steady, voteVars
  <2>. QED
      BY <1>6, <2>1, <2>2, <2>3, <2>4, <2>5 DEF Receive
<1>7. CASE UNCHANGED vars
    BY <1>2, <1>7 DEF Steady, vars, voteVars
<1>. QED
    BY <1>3, <1>4, <1>5, <1>6, <1>7 DEF Next, Finished

LEMMA DeepInit == Init => DeepInv
<1>. SUFFICES ASSUME Init PROVE Deep
    BY VoteInit DEF DeepInv
<1>1. ASSUME NEW c \in Node \ {Root} PROVE PositiveSubtree(c) /\ NegativeSticks(c)
  <2>1. childSignal[c] = 0 /\ net[c][Parent[c]] = << >>
      BY ParentType DEF Init
  <2>. QED
      BY <2>1 DEF PositiveSubtree, NegativeSticks, Flying, PositiveIn
<1>. QED
    BY <1>1 DEF Deep

(***************************************************************************)
(* A negative vote is never outvoted on its way up: a positive vote that a *)
(* parent has noted stands for positive votes in the whole subtree.        *)
(***************************************************************************)
THEOREM NoOutvotedNegative == Spec => []PositiveVotesAreDeep
BY DeepInit, DeepStep, DeepInvImplies, PTL DEF Spec

-----------------------------------------------------------------------------
(* The work requests.                                                      *)

Requests == {"WORK_REQUEST"}
Answers == {"BB_PROBLEM_PACKET", "REJECT_WORK_REQUEST"}

(* The entries of a requester in a queue of pending requests. *)
Entries(q, x) == {i \in 1 .. Len(q) : q[i] = x}
Waiting(q, x) == Cardinality(Entries(q, x))

(* What stands for a request of n to d: asked, waiting at d, answered. *)
Asked(n, d) == Count(net[n][d], Requests)
Queued(n, d) == Waiting(pendingWorkRequest[d], n)
Answered(n, d) == Count(net[d][n], Answers)
Load(n, d) == Asked(n, d) + Queued(n, d) + Answered(n, d)

(* n owes its MTR to one victim, and has asked nobody else. *)
Owed(n) ==
    \/ MTR[n] = 0 /\ \A d \in Node : Load(n, d) = 0
    \/ MTR[n] = 1 /\ \E v \in Node : \A d \in Node : Load(n, d) = IF d = v THEN 1 ELSE 0

(* RequestAccounting counts over all peers at once; the inductive          *)
(* invariant says at which one the request is.                             *)
OneVictim == \A n \in Node : Owed(n)
RequestInv == TypeOK /\ OneVictim /\ ThiefHasNoWork

-----------------------------------------------------------------------------
(* Counting the entries of a queue.                                        *)

LEMMA EntriesType ==
    ASSUME NEW q \in Seq(Node), NEW x
    PROVE  /\ IsFiniteSet(Entries(q, x))
           /\ Waiting(q, x) \in Nat
           /\ Waiting(q, x) = 0 <=> \A i \in 1 .. Len(q) : q[i] # x
<1>1. Len(q) \in Nat
    OBVIOUS
<1>2. IsFiniteSet(1 .. Len(q))
    BY <1>1, FS_Interval
<1>3. Entries(q, x) \in SUBSET (1 .. Len(q))
    BY DEF Entries
<1>4. IsFiniteSet(Entries(q, x)) /\ Waiting(q, x) \in Nat
    BY <1>2, <1>3, FS_Subset, FS_CardinalityType DEF Waiting
<1>5. Waiting(q, x) = 0 <=> Entries(q, x) = {}
    BY <1>4, FS_EmptySet DEF Waiting
<1>. QED
    BY <1>4, <1>5 DEF Entries

(* An empty queue. *)
LEMMA EntriesNone == \A x : Waiting(<< >>, x) = 0
<1>1. \A x : Entries(<< >>, x) = {}
    BY DEF Entries
<1>. QED
    BY <1>1, FS_EmptySet DEF Waiting

(* A requester joins the queue. *)
LEMMA EntriesAppend ==
    ASSUME NEW q \in Seq(Node), NEW s \in Node, NEW x
    PROVE  Waiting(Append(q, s), x) = Waiting(q, x) + (IF s = x THEN 1 ELSE 0)
<1>2. /\ Len(q) \in Nat
      /\ Len(Append(q, s)) = Len(q) + 1
      /\ Append(q, s)[Len(q) + 1] = s
      /\ \A i \in 1 .. Len(q) : Append(q, s)[i] = q[i]
    OBVIOUS
<1>3. Entries(Append(q, s), x) =
         IF s = x THEN Entries(q, x) \cup {Len(q) + 1} ELSE Entries(q, x)
    BY <1>2 DEF Entries
<1>4. Len(q) + 1 \notin Entries(q, x)
    BY <1>2 DEF Entries
<1>5. Cardinality(Entries(q, x) \cup {Len(q) + 1}) = Cardinality(Entries(q, x)) + 1
    BY <1>4, EntriesType, FS_AddElement
<1>6. Waiting(q, x) \in Nat
    BY EntriesType
<1>. QED
    BY <1>3, <1>5, <1>6 DEF Waiting

(* A requester that stands in the queue once is among the first k or after *)
(* them.                                                                   *)
LEMMA EntriesServed ==
    ASSUME NEW q \in Seq(Node), NEW k \in 0 .. Len(q), NEW x, Waiting(q, x) \in {0, 1}
    PROVE  Waiting(q, x) = Waiting(SubSeq(q, k + 1, Len(q)), x)
                             + (IF \E i \in 1 .. k : q[i] = x THEN 1 ELSE 0)
<1>. DEFINE r == SubSeq(q, k + 1, Len(q))
<1>1. /\ Len(q) \in Nat /\ k \in Nat
      /\ r \in Seq(Node)
      /\ Len(r) = Len(q) - k
      /\ \A i \in 1 .. Len(r) : r[i] = q[k + i]
    OBVIOUS
<1>. HIDE DEF r
<1>2. CASE Waiting(q, x) = 0
  <2>1. \A i \in 1 .. Len(q) : q[i] # x
      BY <1>2, EntriesType
  <2>2. \A i \in 1 .. Len(r) : r[i] # x
      BY <1>1, <2>1
  <2>3. Waiting(r, x) = 0
      BY <1>1, <2>2, EntriesType
  <2>4. ~\E i \in 1 .. k : q[i] = x
      BY <1>1, <2>1
  <2>. QED
      BY <1>2, <2>3, <2>4 DEF r
<1>3. CASE Waiting(q, x) = 1
  <2>1. PICK j : Entries(q, x) = {j}
      BY <1>3, EntriesType, FS_Singleton DEF Waiting
  <2>2. j \in 1 .. Len(q) /\ q[j] = x /\ \A i \in 1 .. Len(q) : q[i] = x => i = j
      BY <2>1 DEF Entries
  <2>3. CASE j <= k
    <3>1. \A i \in 1 .. Len(r) : r[i] # x
        BY <1>1, <2>2, <2>3
    <3>2. Waiting(r, x) = 0
        BY <1>1, <3>1, EntriesType
    <3>3. \E i \in 1 .. k : q[i] = x
        BY <1>1, <2>2, <2>3
    <3>. QED
        BY <1>3, <3>2, <3>3 DEF r
  <2>4. CASE j > k
    <3>1. Entries(r, x) = {j - k}
      <4>1. j - k \in 1 .. Len(r) /\ r[j - k] = x
          BY <1>1, <2>2, <2>4
      <4>2. ASSUME NEW i \in 1 .. Len(r), r[i] = x PROVE i = j - k
        <5>1. k + i \in 1 .. Len(q) /\ q[k + i] = x
            BY <1>1, <4>2
        <5>2. k + i = j
            BY <2>2, <5>1
        <5>. QED
            BY <1>1, <2>2, <5>2
      <4>. QED
          BY <4>1, <4>2 DEF Entries
    <3>2. Waiting(r, x) = 1
        BY <3>1, FS_Singleton DEF Waiting
    <3>3. ~\E i \in 1 .. k : q[i] = x
        BY <1>1, <2>2, <2>4
    <3>. QED
        BY <1>3, <3>2, <3>3 DEF r
  <2>. QED
      BY <1>1, <2>2, <2>3, <2>4
<1>. QED
    BY <1>2, <1>3

-----------------------------------------------------------------------------
(* The load of a pair of nodes.                                            *)

LEMMA LoadType ==
    ASSUME TypeOK, NEW n \in Node, NEW d \in Node
    PROVE  /\ Asked(n, d) \in Nat /\ Queued(n, d) \in Nat /\ Answered(n, d) \in Nat
           /\ Load(n, d) \in Nat
<1>1. /\ net[n][d] \in Seq(Message) /\ net[d][n] \in Seq(Message)
      /\ pendingWorkRequest[d] \in Seq(Node)
    BY DEF TypeOK
<1>2. Asked(n, d) \in Nat /\ Queued(n, d) \in Nat /\ Answered(n, d) \in Nat
    BY <1>1, CountType, EntriesType DEF Asked, Queued, Answered
<1>. QED
    BY <1>2 DEF Load

(* Nobody's request stands for more than one at any victim. *)
LEMMA LoadSmall ==
    ASSUME TypeOK, OneVictim, NEW n \in Node, NEW d \in Node
    PROVE  Load(n, d) \in {0, 1} /\ Queued(n, d) \in {0, 1}
<1>1. Load(n, d) \in {0, 1}
    BY DEF OneVictim, Owed
<1>. QED
    BY <1>1, LoadType DEF Load

(* A step that leaves every load as it is. *)
LEMMA SameLoad ==
    ASSUME OneVictim, UNCHANGED MTR, \A n, d \in Node : Load(n, d)' = Load(n, d)
    PROVE  OneVictim'
BY DEF OneVictim, Owed

(* A step that sends out: what becomes of the loads. *)
LEMMA SendLoad ==
    ASSUME TypeOK, NEW n \in Node, NEW out \in Outputs, Sends(net, n, out, net'),
           NEW m \in Node, NEW d \in Node
    PROVE  /\ Asked(m, d)' = Asked(m, d) + (IF m = n THEN Count(out[d], Requests) ELSE 0)
           /\ Answered(m, d)' = Answered(m, d) + (IF d = n THEN Count(out[m], Answers) ELSE 0)
<1>1. net \in [Node -> Outputs]
    BY DEF TypeOK, Outputs
<1>2. Gains(net, n, out, net', Requests) /\ Gains(net, n, out, net', Answers)
    BY <1>1, SendsCount
<1>. QED
    BY <1>2 DEF Gains, Asked, Answered

(* Channels from nw to net' in which neither requests nor answers change.  *)
Passes(nw) ==
    \A a, b \in Node : /\ Count(net'[a][b], Requests) = Count(nw[a][b], Requests)
                       /\ Count(net'[a][b], Answers) = Count(nw[a][b], Answers)

(* A handler that takes a packet and sends nothing that counts. *)
LEMMA ReceiveLoad ==
    ASSUME TypeOK, NEW n \in Node, NEW s \in Node, net[s][n] # << >>,
           \/ net' = Consumed(n, s)
           \/ \E D, m : /\ m \in Message
                        /\ m.type \notin Requests \cup Answers
                        /\ net' = Post(Consumed(n, s), n, ToAll(D, m)),
           NEW a \in Node, NEW b \in Node
    PROVE  LET took(T) == IF a = s /\ b = n /\ Packet(n, s).type \in T THEN 1 ELSE 0
               gave(T) == IF b = s /\ a = n /\ Packet(n, s).type \in T THEN 1 ELSE 0
           IN  /\ Asked(a, b) = Asked(a, b)' + took(Requests)
               /\ Answered(a, b) = Answered(a, b)' + gave(Answers)
<1>1. Passes(Consumed(n, s))
  <2>1. CASE net' = Consumed(n, s)
      BY <2>1 DEF Passes
  <2>2. ASSUME NEW D, NEW m \in Message, m.type \notin Requests \cup Answers,
               net' = Post(Consumed(n, s), n, ToAll(D, m))
        PROVE  Passes(Consumed(n, s))
    <3>. DEFINE mid == Consumed(n, s)
                out == ToAll(D, m)
    <3>1. mid \in [Node -> Outputs] /\ out \in Outputs
        BY <2>2, ConsumedType, ToAllType
    <3>2. \A d \in Node : Count(out[d], Requests) = 0 /\ Count(out[d], Answers) = 0
        BY <2>2, ToAllCount
    <3>3. net' = Post(mid, n, out)
        BY <2>2
    <3>. HIDE DEF mid, out
    <3>4. Sends(mid, n, out, net')
        BY <3>1, <3>3, PostType, Zenon
    <3>5. Gains(mid, n, out, net', Requests) /\ Gains(mid, n, out, net', Answers)
        BY <3>1, <3>4, SendsCount
    <3>6. ASSUME NEW x \in Node, NEW y \in Node
          PROVE  /\ Count(net'[x][y], Requests) = Count(mid[x][y], Requests)
                 /\ Count(net'[x][y], Answers) = Count(mid[x][y], Answers)
      <4>1. Count(mid[x][y], Requests) \in Nat /\ Count(mid[x][y], Answers) \in Nat
          BY <3>1, CountType DEF Outputs
      <4>. QED
          BY <3>2, <3>5, <4>1 DEF Gains
    <3>7. Passes(mid)
        BY <3>6 DEF Passes
    <3>. QED
        BY <3>7 DEF mid
  <2>. QED
      BY <2>1, <2>2
<1>2. /\ Loses(net, n, s, Packet(n, s), Consumed(n, s), Requests)
      /\ Loses(net, n, s, Packet(n, s), Consumed(n, s), Answers)
    BY ConsumedCount
<1>. QED
    BY <1>1, <1>2 DEF Passes, Loses, Asked, Answered

-----------------------------------------------------------------------------
(* Serving: each requester that gets a share leaves the queue.             *)
LEMMA ServeLoad ==
    ASSUME RequestInv, NEW n \in Node, Explore(n)
    PROVE  \A m, d \in Node : Load(m, d)' = Load(m, d)
<1>0. TypeOK /\ OneVictim
    BY DEF RequestInv
<1>share. PICK share \in Sharings(n) : \E t \in Kept(n, share) :
         /\ Serve(n, share)
         /\ \/ net' = Post(net, n, Shared(n, share))
            \/ net' = Post(Post(net, n, Shared(n, share)), n,
                           ToAll(Neighbour(n), Optimal(Bound[t])))
    BY Zenon DEF Explore, ExploreLeaf, ExploreBranch, ExplorePrune
<1>1. PICK t \in Kept(n, share) :
         /\ Serve(n, share)
         /\ \/ net' = Post(net, n, Shared(n, share))
            \/ net' = Post(Post(net, n, Shared(n, share)), n,
                           ToAll(Neighbour(n), Optimal(Bound[t])))
    BY <1>share
<1>2. PICK k \in 0 .. Len(pendingWorkRequest[n]) :
         /\ share \in [1 .. k -> SUBSET tree[n]]
         /\ Cardinality(DOMAIN share) = k
    BY <1>0, SharingType
<1>3. /\ DOMAIN share = 1 .. k
      /\ pendingWorkRequest \in [Node -> Seq(Node)]
      /\ net \in [Node -> Outputs]
    BY <1>0, <1>2 DEF TypeOK, Outputs
<1>4. pendingWorkRequest' = [pendingWorkRequest EXCEPT ![n] =
                                SubSeq(pendingWorkRequest[n], k + 1, Len(pendingWorkRequest[n]))]
    BY <1>1, <1>2 DEF Serve
<1>5. t \in Task /\ Bound[t] \in Nat
  <2>1. Kept(n, share) \subseteq tree[n] /\ tree[n] \subseteq Task
      BY <1>0, SharingType DEF TypeOK
  <2>. QED
      BY <2>1, TaskAssumption
<1>. DEFINE gives == Shared(n, share)
            floods == ToAll(Neighbour(n), Optimal(Bound[t]))
            gets(m) == IF \E i \in 1 .. k : pendingWorkRequest[n][i] = m THEN 1 ELSE 0
<1>6. ASSUME NEW m \in Node
      PROVE  Count(gives[m], Requests) = 0 /\ Count(gives[m], Answers) = gets(m)
  <2>1. gives \in Outputs
      BY <1>0, SharingType
  <2>2. \A i \in 1 .. Len(gives[m]) : gives[m][i].type = "BB_PROBLEM_PACKET"
      BY <1>0, SharingType
  <2>3. Count(gives[m], Requests) = 0
    <3>1. gives[m] \in Seq(Message) /\ \A i \in 1 .. Len(gives[m]) : gives[m][i].type \notin Requests
        BY <2>1, <2>2 DEF Outputs, Requests
    <3>. HIDE DEF gives
    <3>. QED
        BY <3>1, CountZero
  <2>4. CASE \E i \in 1 .. k : pendingWorkRequest[n][i] = m
    <3>1. \E w : gives[m] = <<w>>
        BY <1>3, <2>4 DEF Shared
    <3>. HIDE DEF gives
    <3>2. PICK w \in Message : gives[m] = <<w>> /\ w.type = "BB_PROBLEM_PACKET"
      <4>1. PICK w : gives[m] = <<w>>
          BY <3>1
      <4>2. <<w>> \in Seq(Message) /\ Len(<<w>>) = 1 /\ <<w>>[1] = w
          BY <2>1, <4>1 DEF Outputs
      <4>3. w \in Message /\ w.type = "BB_PROBLEM_PACKET"
          BY <2>2, <4>1, <4>2
      <4>. QED
          BY <4>1, <4>3
    <3>3. Count(<<w>>, Answers) = 1
        BY <3>2, CountShort DEF Answers
    <3>. QED
        BY <2>3, <2>4, <3>2, <3>3
  <2>5. CASE ~\E i \in 1 .. k : pendingWorkRequest[n][i] = m
    <3>1. gives[m] = << >>
        BY <1>3, <2>5 DEF Shared
    <3>2. Count(<< >>, Answers) = 0
        BY MessageType, CountShort
    <3>. QED
        BY <2>3, <2>5, <3>1, <3>2
  <2>. QED
      BY <2>4, <2>5
<1>7. floods \in Outputs /\ \A m \in Node : Count(floods[m], Requests) = 0 /\ Count(floods[m], Answers) = 0
  <2>1. Optimal(Bound[t]) \in Message /\ Optimal(Bound[t]).type \notin Requests \cup Answers
      BY <1>5, MessageType DEF Optimal, Requests, Answers
  <2>. DEFINE o == Optimal(Bound[t])
  <2>2. o \in Message /\ o.type \notin Requests /\ o.type \notin Answers
      BY <2>1
  <2>3. floods = ToAll(Neighbour(n), o)
      OBVIOUS
  <2>. HIDE DEF o
  <2>. QED
      BY <2>2, <2>3, ToAllType, ToAllCount
<1>8. gives \in Outputs
    BY <1>0, SharingType
<1>. HIDE DEF gives, floods
<1>9. \E out \in Outputs :
         /\ Sends(net, n, out, net')
         /\ \A m \in Node : Count(out[m], Requests) = 0 /\ Count(out[m], Answers) = gets(m)
  <2>1. Sends(net, n, gives, Post(net, n, gives))
      BY <1>3, <1>8, PostType
  <2>2. Sends(net, n, Join(gives, floods), Post(Post(net, n, gives), n, floods))
    <3>1. Post(net, n, gives) \in [Node -> Outputs]
        BY <2>1 DEF Sends
    <3>2. Sends(Post(net, n, gives), n, floods, Post(Post(net, n, gives), n, floods))
        BY <1>7, <3>1, PostType
    <3>. QED
        BY <1>3, <1>7, <1>8, <2>1, <3>2, SendsTwice
  <2>3. Join(gives, floods) \in Outputs
      BY <1>7, <1>8, JoinType
  <2>4. ASSUME NEW m \in Node
        PROVE  Count(Join(gives, floods)[m], Requests) = 0 /\ Count(Join(gives, floods)[m], Answers) = gets(m)
    <3>1. /\ Count(Join(gives, floods)[m], Requests) = Count(gives[m], Requests) + Count(floods[m], Requests)
          /\ Count(Join(gives, floods)[m], Answers) = Count(gives[m], Answers) + Count(floods[m], Answers)
        BY ZenonT(60), <1>7, <1>8, JoinCount
    <3>. QED
        BY <1>6, <1>7, <3>1
  <2>5. net' = Post(net, n, gives) \/ net' = Post(Post(net, n, gives), n, floods)
      BY <1>1 DEF gives, floods
  <2>6. CASE net' = Post(net, n, gives)
      BY <1>6, <1>8, <2>1, <2>6, Zenon
  <2>7. CASE net' = Post(Post(net, n, gives), n, floods)
      BY <2>2, <2>3, <2>4, <2>7, Zenon
  <2>. QED
      BY <2>5, <2>6, <2>7
<1>10. PICK out \in Outputs :
         /\ Sends(net, n, out, net')
         /\ \A m \in Node : Count(out[m], Requests) = 0 /\ Count(out[m], Answers) = gets(m)
    BY <1>9
<1>11. ASSUME NEW m \in Node
       PROVE  Queued(m, n) = Queued(m, n)' + gets(m)
  <2>1. Queued(m, n) \in {0, 1}
      BY <1>0, LoadSmall
  <2>2. pendingWorkRequest'[n] = SubSeq(pendingWorkRequest[n], k + 1, Len(pendingWorkRequest[n]))
      BY <1>3, <1>4
  <2>. DEFINE q == pendingWorkRequest[n]
  <2>3. /\ q \in Seq(Node) /\ k \in 0 .. Len(q) /\ Waiting(q, m) \in {0, 1}
        /\ Queued(m, n) = Waiting(q, m)
        /\ Queued(m, n)' = Waiting(SubSeq(q, k + 1, Len(q)), m)
        /\ gets(m) = IF \E i \in 1 .. k : q[i] = m THEN 1 ELSE 0
      BY <1>3, <2>1, <2>2 DEF Queued
  <2>. HIDE DEF q, gets
  <2>4. Waiting(q, m) = Waiting(SubSeq(q, k + 1, Len(q)), m)
                          + (IF \E i \in 1 .. k : q[i] = m THEN 1 ELSE 0)
      BY <2>3, EntriesServed
  <2>. QED
      BY <2>3, <2>4
<1>12. ASSUME NEW m \in Node, NEW d \in Node
       PROVE  Load(m, d)' = Load(m, d)
  <2>1. /\ Asked(m, d)' = Asked(m, d)
        /\ Answered(m, d)' = Answered(m, d) + (IF d = n THEN gets(m) ELSE 0)
    <3>1. /\ Asked(m, d)' = Asked(m, d) + (IF m = n THEN Count(out[d], Requests) ELSE 0)
          /\ Answered(m, d)' = Answered(m, d) + (IF d = n THEN Count(out[m], Answers) ELSE 0)
        BY <1>0, <1>10, SendLoad
    <3>2. Asked(m, d) \in Nat
        BY <1>0, LoadType
    <3>. QED
        BY <1>10, <3>1, <3>2
  <2>2. d # n => Queued(m, d)' = Queued(m, d)
      BY <1>3, <1>4 DEF Queued
  <2>3. Asked(m, d) \in Nat /\ Queued(m, d) \in Nat /\ Answered(m, d) \in Nat
      BY <1>0, LoadType
  <2>4. Queued(m, d)' \in Nat
    <3>1. pendingWorkRequest' \in [Node -> Seq(Node)]
        BY <1>0, ExploreType
    <3>. QED
        BY <3>1, EntriesType DEF Queued
  <2>5. CASE d = n
    <3>1. Queued(m, d) = Queued(m, d)' + gets(m) /\ gets(m) \in {0, 1}
        BY <1>11, <2>5
    <3>. HIDE DEF gets
    <3>. QED
        BY <2>1, <2>3, <2>4, <2>5, <3>1 DEF Load
  <2>6. CASE d # n
      BY <2>1, <2>2, <2>3, <2>6 DEF Load
  <2>. QED
      BY <2>5, <2>6
<1>. QED
    BY <1>12

(* The rejects of an idle turn: one for every entry of the requester. *)
LEMMA RejectsCount ==
    ASSUME TypeOK, NEW n \in Node, NEW d \in Node
    PROVE  /\ Count(Rejects(n, d), Answers) = Queued(d, n)
           /\ Count(Rejects(n, d), Requests) = 0
<1>. DEFINE q == Rejects(n, d)
            k == Waiting(pendingWorkRequest[n], d)
<1>1. pendingWorkRequest[n] \in Seq(Node)
    BY DEF TypeOK
<1>2. k \in Nat
    BY <1>1, EntriesType
<1>3. q = [i \in 1 .. k |-> Reject]
    BY DEF Rejects, Waiting, Entries
<1>4. Queued(d, n) = k
    BY DEF Queued
<1>5. q \in Seq(Message)
    BY RejectsType
<1>. HIDE DEF q, k
<1>6. /\ Len(q) = k
      /\ \A i \in 1 .. k : q[i].type = "REJECT_WORK_REQUEST"
    BY <1>2, <1>3 DEF Reject
<1>7. Positions(q, Answers) = 1 .. k
    BY <1>6 DEF Positions, Answers
<1>8. Count(q, Answers) = k
    BY <1>2, <1>7, FS_Interval DEF Count
<1>9. Count(q, Requests) = 0
    BY <1>5, <1>6, CountZero DEF Requests
<1>. QED
    BY <1>4, <1>8, <1>9 DEF q

(* An idle turn: the waiting requests are answered, and a node that is     *)
(* owed nothing asks one victim.                                           *)
LEMMA AskLoad ==
    ASSUME RequestInv, NEW n \in Node, NEW control \in Outputs, AskForWork(n, control),
           \A d \in Node : Count(control[d], Requests) = 0 /\ Count(control[d], Answers) = 0
    PROVE  OneVictim'
<1>0. TypeOK /\ OneVictim
    BY DEF RequestInv
<1>1. PICK V \in Victims(n) :
         /\ MTR' = [MTR EXCEPT ![n] = IF V = {} THEN @ ELSE 1]
         /\ net' = Post(net, n, [d \in Node |->
                        Rejects(n, d) \o ToAll(V, Request)[d] \o control[d]])
    BY DEF AskForWork
<1>2. pendingWorkRequest' = [pendingWorkRequest EXCEPT ![n] = << >>]
    BY DEF AskForWork
<1>3. V = {} \/ (MTR[n] = 0 /\ \E v \in Node \ {n} : V = {v})
    BY DEF Victims
<1>. DEFINE rejects == [d \in Node |-> Rejects(n, d)]
            asks == ToAll(V, Request)
            first == Join(rejects, asks)
            out == Join(first, control)
<1>4. /\ rejects \in Outputs
      /\ \A d \in Node : /\ Count(rejects[d], Answers) = Queued(d, n)
                         /\ Count(rejects[d], Requests) = 0
    BY <1>0, RejectsType, RejectsCount DEF Outputs
<1>5. /\ asks \in Outputs
      /\ \A d \in Node : /\ Count(asks[d], Requests) = IF d \in V THEN 1 ELSE 0
                         /\ Count(asks[d], Answers) = 0
  <2>1. Request \in Message /\ Request.type \in Requests /\ Request.type \notin Answers
      BY MessageType DEF Request, Requests, Answers
  <2>. QED
      BY <2>1, ToAllType, ToAllCount
<1>6. net' = Post(net, n, out)
    BY <1>1 DEF Join
<1>. HIDE DEF rejects, asks
<1>7. first \in Outputs /\ \A d \in Node : /\ Count(first[d], Answers) = Queued(d, n)
                                           /\ Count(first[d], Requests) = IF d \in V THEN 1 ELSE 0
  <2>1. ASSUME NEW d \in Node
        PROVE  /\ Count(first[d], Answers) = Count(rejects[d], Answers) + Count(asks[d], Answers)
               /\ Count(first[d], Requests) = Count(rejects[d], Requests) + Count(asks[d], Requests)
      BY <1>4, <1>5, JoinCount
  <2>2. \A d \in Node : Queued(d, n) \in Nat
      BY <1>0, LoadType
  <2>. QED
      BY <1>4, <1>5, <2>1, <2>2, JoinType
<1>. HIDE DEF first
<1>8. out \in Outputs /\ \A d \in Node : /\ Count(out[d], Answers) = Queued(d, n)
                                         /\ Count(out[d], Requests) = IF d \in V THEN 1 ELSE 0
  <2>1. ASSUME NEW d \in Node
        PROVE  /\ Count(out[d], Answers) = Count(first[d], Answers) + Count(control[d], Answers)
               /\ Count(out[d], Requests) = Count(first[d], Requests) + Count(control[d], Requests)
      BY <1>7, JoinCount
  <2>2. \A d \in Node : Queued(d, n) \in Nat
      BY <1>0, LoadType
  <2>. QED
      BY <1>7, <2>1, <2>2, JoinType
<1>. HIDE DEF out
<1>9. Sends(net, n, out, net')
  <2>1. net \in [Node -> Outputs]
      BY <1>0 DEF TypeOK, Outputs
  <2>. QED
      BY <1>6, <1>8, <2>1, PostType, Zenon
<1>10. ASSUME NEW m \in Node, NEW d \in Node
       PROVE  Load(m, d)' = Load(m, d) + (IF m = n /\ d \in V THEN 1 ELSE 0)
  <2>1. /\ Asked(m, d)' = Asked(m, d) + (IF m = n THEN Count(out[d], Requests) ELSE 0)
        /\ Answered(m, d)' = Answered(m, d) + (IF d = n THEN Count(out[m], Answers) ELSE 0)
      BY <1>0, <1>8, <1>9, SendLoad
  <2>2. Queued(m, d)' = IF d = n THEN 0 ELSE Queued(m, d)
    <3>1. pendingWorkRequest \in [Node -> Seq(Node)]
        BY <1>0 DEF TypeOK
    <3>2. Waiting(<< >>, m) = 0
        BY EntriesNone
    <3>. QED
        BY <1>2, <3>1, <3>2 DEF Queued
  <2>3. Asked(m, d) \in Nat /\ Queued(m, d) \in Nat /\ Answered(m, d) \in Nat
      BY <1>0, LoadType
  <2>. QED
      BY <1>8, <2>1, <2>2, <2>3 DEF Load
<1>11. ASSUME NEW m \in Node PROVE Owed(m)'
  <2>1. Owed(m)
      BY <1>0 DEF OneVictim
  <2>2. MTR \in [Node -> {0, 1}]
      BY <1>0 DEF TypeOK
  <2>3. CASE m # n \/ V = {}
    <3>1. MTR'[m] = MTR[m]
        BY <1>1, <2>2, <2>3
    <3>2. \A d \in Node : Load(m, d)' = Load(m, d)
        BY <1>0, <1>10, <2>3, LoadType
    <3>. QED
        BY <2>1, <3>1, <3>2 DEF Owed
  <2>4. CASE m = n /\ V # {}
    <3>1. PICK v \in Node \ {n} : V = {v}
        BY <1>3, <2>4
    <3>2. MTR[m] = 0 /\ MTR'[m] = 1
        BY <1>1, <1>3, <2>2, <2>4
    <3>3. \A d \in Node : Load(m, d) = 0
        BY <2>1, <3>2 DEF Owed
    <3>4. \A d \in Node : Load(m, d)' = IF d = v THEN 1 ELSE 0
        BY <1>10, <2>4, <3>1, <3>3
    <3>. QED
        BY <3>2, <3>4 DEF Owed
  <2>. QED
      BY <2>3, <2>4
<1>. QED
    BY <1>11 DEF OneVictim

(* A request arrives: it is in the victim's queue instead of the channel. *)
LEMMA RequestLoad ==
    ASSUME RequestInv, NEW n \in Node, NEW s \in Node \ {n}, RecvWorkRequest(n, s)
    PROVE  OneVictim'
<1>0. TypeOK /\ OneVictim
    BY DEF RequestInv
<1>1. /\ net[s][n] # << >> /\ Packet(n, s).type = "WORK_REQUEST"
      /\ net' = Consumed(n, s)
      /\ pendingWorkRequest' = [pendingWorkRequest EXCEPT ![n] = Append(@, s)]
      /\ UNCHANGED MTR
    BY DEF RecvWorkRequest, Arrived, Packet
<1>2. ASSUME NEW m \in Node, NEW d \in Node
      PROVE  Load(m, d)' = Load(m, d)
  <2>1. /\ Asked(m, d) = Asked(m, d)' + (IF m = s /\ d = n THEN 1 ELSE 0)
        /\ Answered(m, d) = Answered(m, d)' + 0
      BY <1>0, <1>1, ReceiveLoad DEF Requests, Answers
  <2>2. Queued(m, d)' = Queued(m, d) + (IF m = s /\ d = n THEN 1 ELSE 0)
    <3>1. pendingWorkRequest \in [Node -> Seq(Node)]
        BY <1>0 DEF TypeOK
    <3>. DEFINE q == pendingWorkRequest[d]
    <3>2. q \in Seq(Node) /\ Queued(m, d) = Waiting(q, m) /\ Waiting(q, m) \in Nat
        BY <3>1, EntriesType DEF Queued
    <3>3. Queued(m, d)' = IF d = n THEN Waiting(Append(q, s), m) ELSE Waiting(q, m)
        BY <1>1, <3>1 DEF Queued
    <3>. HIDE DEF q
    <3>4. Waiting(Append(q, s), m) = Waiting(q, m) + (IF s = m THEN 1 ELSE 0)
        BY <3>2, EntriesAppend
    <3>. QED
        BY <3>2, <3>3, <3>4
  <2>3. net' \in [Node -> Outputs]
      BY <1>0, <1>1, ConsumedType
  <2>4. /\ Asked(m, d)' \in Nat /\ Answered(m, d)' \in Nat
        /\ Asked(m, d) \in Nat /\ Queued(m, d) \in Nat /\ Answered(m, d) \in Nat
      BY <1>0, <2>3, LoadType, CountType DEF Asked, Answered, Outputs
  <2>. QED
      BY <2>1, <2>2, <2>4 DEF Load
<1>. QED
    BY <1>0, <1>1, <1>2, SameLoad

(* An answer arrives: the node is owed nothing any more.                   *)
LEMMA AnswerLoad ==
    ASSUME RequestInv, NEW n \in Node, NEW s \in Node \ {n}, RecvWork(n, s) \/ RecvReject(n, s)
    PROVE  OneVictim'
<1>0. TypeOK /\ OneVictim
    BY DEF RequestInv
<1>1. /\ net[s][n] # << >> /\ Packet(n, s).type \in Answers /\ Packet(n, s).type \notin Requests
      /\ net' = Consumed(n, s)
      /\ MTR' = [MTR EXCEPT ![n] = 0]
      /\ UNCHANGED pendingWorkRequest
    BY DEF RecvWork, RecvReject, Arrived, Packet, Requests, Answers
<1>2. ASSUME NEW m \in Node, NEW d \in Node
      PROVE  /\ Load(m, d) = Load(m, d)' + (IF m = n /\ d = s THEN 1 ELSE 0)
             /\ Load(m, d)' \in Nat
  <2>1. /\ Asked(m, d) = Asked(m, d)' + 0
        /\ Answered(m, d) = Answered(m, d)' + (IF m = n /\ d = s THEN 1 ELSE 0)
      BY <1>0, <1>1, ReceiveLoad
  <2>2. Queued(m, d)' = Queued(m, d)
      BY <1>1 DEF Queued
  <2>3. net' \in [Node -> Outputs]
      BY <1>0, <1>1, ConsumedType
  <2>4. /\ Asked(m, d)' \in Nat /\ Answered(m, d)' \in Nat
        /\ Asked(m, d) \in Nat /\ Queued(m, d) \in Nat /\ Answered(m, d) \in Nat
      BY <1>0, <2>3, LoadType, CountType DEF Asked, Answered, Outputs
  <2>. QED
      BY <2>1, <2>2, <2>4 DEF Load
<1>3. ASSUME NEW m \in Node PROVE Owed(m)'
  <2>1. Owed(m)
      BY <1>0 DEF OneVictim
  <2>2. MTR \in [Node -> {0, 1}]
      BY <1>0 DEF TypeOK
  <2>3. CASE m # n
    <3>1. MTR'[m] = MTR[m] /\ \A d \in Node : Load(m, d)' = Load(m, d)
        BY <1>1, <1>2, <2>2, <2>3
    <3>. QED
        BY <2>1, <3>1 DEF Owed
  <2>4. CASE m = n
    <3>1. Load(m, s) # 0
        BY <1>2, <2>4
    <3>2. PICK v \in Node : \A d \in Node : Load(m, d) = IF d = v THEN 1 ELSE 0
        BY <2>1, <3>1 DEF Owed
    <3>3. v = s
        BY <3>1, <3>2
    <3>4. \A d \in Node : Load(m, d)' = 0
        BY <1>2, <2>4, <3>2, <3>3
    <3>5. MTR'[m] = 0
        BY <1>1, <2>2, <2>4
    <3>. QED
        BY <3>4, <3>5 DEF Owed
  <2>. QED
      BY <2>3, <2>4
<1>. QED
    BY <1>3 DEF OneVictim

(* Any other packet: a handler that answers no request and makes none.     *)
LEMMA OtherLoad ==
    ASSUME RequestInv, NEW n \in Node, NEW s \in Node \ {n}, net[s][n] # << >>,
           Packet(n, s).type \notin Requests \cup Answers,
           \/ net' = Consumed(n, s)
           \/ \E D, m : /\ m \in Message
                        /\ m.type \notin Requests \cup Answers
                        /\ net' = Post(Consumed(n, s), n, ToAll(D, m)),
           net' \in [Node -> Outputs], UNCHANGED stealVars
    PROVE  OneVictim'
<1>0. TypeOK /\ OneVictim
    BY DEF RequestInv
<1>1. ASSUME NEW m \in Node, NEW d \in Node
      PROVE  Load(m, d)' = Load(m, d)
  <2>1. Asked(m, d) = Asked(m, d)' + 0 /\ Answered(m, d) = Answered(m, d)' + 0
      BY <1>0, ReceiveLoad
  <2>2. Queued(m, d)' = Queued(m, d)
      BY DEF Queued, stealVars
  <2>3. /\ Asked(m, d)' \in Nat /\ Answered(m, d)' \in Nat
        /\ Asked(m, d) \in Nat /\ Queued(m, d) \in Nat /\ Answered(m, d) \in Nat
      BY <1>0, LoadType, CountType DEF Asked, Answered, Outputs
  <2>. QED
      BY <2>1, <2>2, <2>3 DEF Load
<1>. QED
    BY <1>0, <1>1, SameLoad DEF stealVars

-----------------------------------------------------------------------------
(* One step, action by action. *)
LEMMA VictimStep == RequestInv /\ [Next]_vars => OneVictim'
<1>. SUFFICES ASSUME RequestInv, [Next]_vars PROVE OneVictim'
    OBVIOUS
<1>0. TypeOK /\ TypeOK' /\ OneVictim
    BY TypeStep DEF RequestInv
<1>1. ASSUME UNCHANGED <<stealVars, net>> PROVE OneVictim'
    BY <1>0, <1>1 DEF OneVictim, Owed, Load, Asked, Queued, Answered, stealVars
<1>2. ASSUME NEW n \in Node, Explore(n) PROVE OneVictim'
  <2>1. UNCHANGED MTR
      BY <1>0, <1>2, ExploreType
  <2>. QED
      BY <1>0, <1>2, <2>1, ServeLoad, SameLoad
<1>3. ASSUME NEW n \in Node, IdleTurn(n) PROVE OneVictim'
  <2>1. Stand(n) \in {1, 2} /\ Root \in Node
      BY <1>0, OverlayAssumption DEF TypeOK, Stand, Node, Root
  <2>2. ASSUME NEW m \in Message, m.type \notin Requests, m.type \notin Answers, NEW D
        PROVE  /\ ToAll(D, m) \in Outputs
               /\ \A d \in Node : /\ Count(ToAll(D, m)[d], Requests) = 0
                                  /\ Count(ToAll(D, m)[d], Answers) = 0
    <3>1. ToAll(D, m) \in Outputs
        BY <2>2, ToAllType
    <3>2. ASSUME NEW T, m.type \notin T, NEW d \in Node
          PROVE  Count(ToAll(D, m)[d], T) = 0
        BY <2>2, <3>2, ToAllCount
    <3>. QED
        BY <2>2, <3>1, <3>2
  <2>3. CASE KeepAsking(n)
    <3>1. Nothing \in Outputs
        BY MessageType, ToAllType
    <3>2. \A d \in Node : Count(Nothing[d], Requests) = 0 /\ Count(Nothing[d], Answers) = 0
        BY MessageType, ToAllCount
    <3>. QED
        BY <2>3, <3>1, <3>2, AskLoad DEF KeepAsking
  <2>4. CASE CastVote(n)
    <3>1. /\ Vote(Stand(n)) \in Message
          /\ Vote(Stand(n)).type \notin Requests /\ Vote(Stand(n)).type \notin Answers
        BY <2>1, MessageType DEF Vote, Requests, Answers
    <3>. DEFINE control == ToAll({Parent[n]}, Vote(Stand(n)))
    <3>2. control \in Outputs /\ \A d \in Node : Count(control[d], Requests) = 0 /\ Count(control[d], Answers) = 0
        BY <2>2, <3>1
    <3>3. AskForWork(n, control)
        BY <2>4 DEF CastVote
    <3>. HIDE DEF control
    <3>. QED
        BY <3>2, <3>3, AskLoad
  <2>5. CASE n = Root /\ RestartVote
    <3>1. Restart \in Message /\ Restart.type \notin Requests /\ Restart.type \notin Answers
        BY MessageType DEF Restart, Requests, Answers
    <3>. DEFINE control == ToAll(Children(Root), Restart)
    <3>2. control \in Outputs /\ \A d \in Node : Count(control[d], Requests) = 0 /\ Count(control[d], Answers) = 0
        BY <2>2, <3>1
    <3>3. AskForWork(n, control)
        BY <2>5 DEF RestartVote
    <3>. HIDE DEF control
    <3>. QED
        BY <3>2, <3>3, AskLoad
  <2>6. CASE n = Root /\ DetectTermination
    <3>1. Terminate \in Message /\ Terminate.type \notin Requests /\ Terminate.type \notin Answers
        BY MessageType DEF Terminate, Requests, Answers
    <3>. DEFINE control == ToAll(Children(Root), Terminate)
    <3>2. control \in Outputs /\ \A d \in Node : Count(control[d], Requests) = 0 /\ Count(control[d], Answers) = 0
        BY <2>2, <3>1
    <3>3. AskForWork(n, control)
        BY <2>6 DEF DetectTermination
    <3>. HIDE DEF control
    <3>. QED
        BY <3>2, <3>3, AskLoad
  <2>. QED
      BY <1>3, <2>3, <2>4, <2>5, <2>6 DEF IdleTurn
<1>4. ASSUME NEW n \in Node, NEW s \in Node \ {n}, Receive(n, s) PROVE OneVictim'
  <2>1. net[s][n] # << >> /\ net' \in [Node -> Outputs]
      BY <1>0, <1>4 DEF TypeOK, Outputs, Receive, RecvWork, RecvReject, RecvWorkRequest,
                  RecvOptimalSolution, RecvVote, RecvRestart, RecvTermination, Arrived
  <2>2. CASE RecvWork(n, s) \/ RecvReject(n, s)
      BY <2>2, AnswerLoad
  <2>3. CASE RecvWorkRequest(n, s)
      BY <2>3, RequestLoad
  <2>4. CASE RecvOptimalSolution(n, s)
    <3>. DEFINE cost == Packet(n, s).cost
                known == IF cost < best[n] THEN cost ELSE best[n]
                m == Optimal(known)
    <3>1. cost \in Nat /\ Packet(n, s).type \notin Requests \cup Answers
        BY <1>0, <2>1, <2>4, ConsumedType DEF RecvOptimalSolution, Arrived, Packet, Message, Requests, Answers
    <3>2. known \in Nat
        BY <1>0, <3>1 DEF TypeOK
    <3>3. m \in Message /\ m.type \notin Requests \cup Answers
      <4>. HIDE DEF known
      <4>. QED
          BY <3>2, MessageType DEF Optimal, Requests, Answers
    <3>4. /\ net' = Consumed(n, s) \/ net' = Post(Consumed(n, s), n, ToAll(Neighbour(n), m))
          /\ UNCHANGED stealVars
        BY <2>4 DEF RecvOptimalSolution
    <3>. HIDE DEF m
    <3>5. \/ net' = Consumed(n, s)
          \/ \E D, x : /\ x \in Message
                       /\ x.type \notin Requests \cup Answers
                       /\ net' = Post(Consumed(n, s), n, ToAll(D, x))
        BY <3>3, <3>4, Zenon
    <3>. QED
        BY <2>1, <3>1, <3>4, <3>5, OtherLoad
  <2>5. CASE RecvVote(n, s)
    <3>1. /\ Packet(n, s).type \notin Requests \cup Answers
          /\ net' = Consumed(n, s) /\ UNCHANGED stealVars
        BY <2>5 DEF RecvVote, Arrived, Packet, Requests, Answers
    <3>. QED
        BY <2>1, <3>1, OtherLoad
  <2>6. CASE RecvRestart(n, s)
    <3>1. /\ Packet(n, s).type \notin Requests \cup Answers
          /\ net' = Post(Consumed(n, s), n, ToAll(Children(n), Restart)) /\ UNCHANGED stealVars
        BY <2>6 DEF RecvRestart, Arrived, Packet, Requests, Answers
    <3>2. Restart \in Message /\ Restart.type \notin Requests \cup Answers
        BY MessageType DEF Restart, Requests, Answers
    <3>3. \E D, x : /\ x \in Message
                    /\ x.type \notin Requests \cup Answers
                    /\ net' = Post(Consumed(n, s), n, ToAll(D, x))
        BY <3>1, <3>2, Zenon
    <3>. QED
        BY <2>1, <3>1, <3>3, OtherLoad
  <2>7. CASE RecvTermination(n, s)
    <3>1. /\ Packet(n, s).type \notin Requests \cup Answers
          /\ net' = Post(Consumed(n, s), n, ToAll(Children(n), Terminate)) /\ UNCHANGED stealVars
        BY <2>7 DEF RecvTermination, Arrived, Packet, Requests, Answers
    <3>2. Terminate \in Message /\ Terminate.type \notin Requests \cup Answers
        BY MessageType DEF Terminate, Requests, Answers
    <3>3. \E D, x : /\ x \in Message
                    /\ x.type \notin Requests \cup Answers
                    /\ net' = Post(Consumed(n, s), n, ToAll(D, x))
        BY <3>1, <3>2, Zenon
    <3>. QED
        BY <2>1, <3>1, <3>3, OtherLoad
  <2>. QED
      BY <1>4, <2>2, <2>3, <2>4, <2>5, <2>6, <2>7 DEF Receive
<1>5. ASSUME NEW n \in Node, Trigger(n) PROVE OneVictim'
    BY <1>1, <1>5 DEF Trigger
<1>6. CASE UNCHANGED vars
    BY <1>1, <1>6 DEF vars
<1>. QED
    BY <1>2, <1>3, <1>4, <1>5, <1>6 DEF Next, Finished

(* Work is taken in only with the answer it came as; a node explores only  *)
(* what it had, and asks only when it has none.                            *)
LEMMA ThiefStep == RequestInv /\ [Next]_vars => ThiefHasNoWork'
<1>. SUFFICES ASSUME RequestInv, [Next]_vars PROVE ThiefHasNoWork'
    OBVIOUS
<1>0. /\ TypeOK /\ ThiefHasNoWork
      /\ MTR \in [Node -> {0, 1}] /\ tree \in [Node -> SUBSET Task]
    BY DEF RequestInv, TypeOK
<1>1. ASSUME UNCHANGED <<MTR, tree>> PROVE ThiefHasNoWork'
    BY <1>0, <1>1 DEF ThiefHasNoWork
<1>2. ASSUME NEW n \in Node, Explore(n) PROVE ThiefHasNoWork'
  <2>1. tree[n] # {}
      BY <1>2 DEF Explore, ExploreLeaf, ExploreBranch, ExplorePrune, Working
  <2>2. MTR[n] # 1
      BY <1>0, <2>1 DEF ThiefHasNoWork
  <2>3. UNCHANGED MTR
      BY <1>0, <1>2, ExploreType
  <2>4. \E S : tree' = [tree EXCEPT ![n] = S]
    <3>1. \/ \E S : tree' = [tree EXCEPT ![n] = S]
          \/ \E t, share : \E D \in Branch[t] :
                tree' = [tree EXCEPT ![n] = (Kept(n, share) \ {t}) \cup D]
        BY <1>2, Zenon DEF Explore, ExploreLeaf, ExploreBranch, ExplorePrune
    <3>. QED
        BY <3>1, Zenon
  <2>. QED
      BY <1>0, <2>2, <2>3, <2>4 DEF ThiefHasNoWork
<1>3. ASSUME NEW n \in Node, NEW control, AskForWork(n, control) PROVE ThiefHasNoWork'
  <2>1. tree[n] = {} /\ UNCHANGED tree /\ \E x : MTR' = [MTR EXCEPT ![n] = x]
      BY <1>3 DEF AskForWork, Starving, searchVars
  <2>. QED
      BY <1>0, <2>1 DEF ThiefHasNoWork
<1>4. ASSUME NEW n \in Node, IdleTurn(n) PROVE ThiefHasNoWork'
  <2>1. Root \in Node
      BY OverlayAssumption DEF Node, Root
  <2>. QED
      BY <1>3, <1>4, <2>1 DEF IdleTurn, KeepAsking, CastVote, RestartVote, DetectTermination
<1>5. ASSUME NEW n \in Node, NEW s \in Node \ {n}, Receive(n, s) PROVE ThiefHasNoWork'
  <2>1. CASE RecvWork(n, s)
      BY <1>0, <2>1 DEF RecvWork, ThiefHasNoWork
  <2>2. CASE RecvReject(n, s)
      BY <1>0, <2>2 DEF RecvReject, ThiefHasNoWork, searchVars
  <2>3. CASE UNCHANGED <<MTR, tree>>
      BY <1>1, <2>3
  <2>. QED
      BY <1>5, <2>1, <2>2, <2>3
      DEF Receive, RecvWorkRequest, RecvOptimalSolution, RecvVote, RecvRestart, RecvTermination,
          searchVars, stealVars
<1>6. ASSUME NEW n \in Node, Trigger(n) PROVE ThiefHasNoWork'
    BY <1>1, <1>6 DEF Trigger, searchVars, stealVars
<1>7. CASE UNCHANGED vars
    BY <1>1, <1>7 DEF vars, searchVars, stealVars
<1>. QED
    BY <1>2, <1>4, <1>5, <1>6, <1>7 DEF Next, Finished

(* Nobody has asked in the beginning. *)
LEMMA RequestInit == Init => RequestInv
<1>. SUFFICES ASSUME Init PROVE RequestInv
    OBVIOUS
<1>1. TypeOK
    BY TypeInit
<1>2. ASSUME NEW n \in Node, NEW d \in Node PROVE Load(n, d) = 0
  <2>1. net[n][d] = << >> /\ net[d][n] = << >> /\ pendingWorkRequest[d] = << >>
      BY DEF Init
  <2>2. Count(<< >>, Requests) = 0 /\ Count(<< >>, Answers) = 0 /\ Waiting(<< >>, n) = 0
      BY MessageType, CountShort, EntriesNone
  <2>. QED
      BY <2>1, <2>2 DEF Load, Asked, Queued, Answered
<1>3. \A n \in Node : MTR[n] = 0
    BY DEF Init
<1>. QED
    BY <1>1, <1>2, <1>3 DEF RequestInv, OneVictim, Owed, ThiefHasNoWork

THEOREM RequestInvariant == Spec => []RequestInv
<1>1. RequestInv /\ [Next]_vars => RequestInv'
    BY TypeStep, VictimStep, ThiefStep DEF RequestInv
<1>. QED
    BY <1>1, RequestInit, PTL DEF Spec

(***************************************************************************)
(* A node waits for work only while it has none.                           *)
(***************************************************************************)
THEOREM ThiefsAreIdle == Spec => []ThiefHasNoWork
<1>1. RequestInv => ThiefHasNoWork
    BY DEF RequestInv
<1>. QED
    BY <1>1, RequestInvariant, PTL

-----------------------------------------------------------------------------
(* What is outstanding, collected over all peers.                          *)

AskedAt(n, d) == {<<"asked", d, i>> : i \in Positions(net[n][d], Requests)}
WaitsAt(n, d) == {<<"waits", d, i>> : i \in Entries(pendingWorkRequest[d], n)}
AnswerFrom(n, d) == {<<"answer", d, i>> : i \in Positions(net[d][n], Answers)}
Owing(n, d) == AskedAt(n, d) \cup WaitsAt(n, d) \cup AnswerFrom(n, d)

LEMMA OutstandingAt ==
    ASSUME NEW n \in Node
    PROVE  Outstanding(n) = UNION {Owing(n, d) : d \in Node}
<1>2. ASSUME NEW x PROVE x \in Outstanding(n) <=> \E d \in Node : x \in Owing(n, d)
  <2>. DEFINE A == UNION {AskedAt(n, d) : d \in Node}
              W == UNION {WaitsAt(n, d) : d \in Node}
              B == UNION {AnswerFrom(n, d) : d \in Node}
  <2>0. Outstanding(n) = A \cup W \cup B
      BY DEF Outstanding, AskedAt, WaitsAt, AnswerFrom, Entries, Requests, Answers
  <2>1. x \in A <=> \E d \in Node : x \in AskedAt(n, d)
      BY Zenon
  <2>2. x \in W <=> \E d \in Node : x \in WaitsAt(n, d)
      BY Zenon
  <2>3. x \in B <=> \E d \in Node : x \in AnswerFrom(n, d)
      BY Zenon
  <2>4. \A d \in Node : x \in Owing(n, d) <=> \/ x \in AskedAt(n, d)
                                           \/ x \in WaitsAt(n, d)
                                           \/ x \in AnswerFrom(n, d)
      BY Zenon DEF Owing
  <2>. HIDE DEF A, W, B
  <2>5. x \in Outstanding(n) <=> x \in A \/ x \in W \/ x \in B
      BY <2>0, Zenon
  <2>. QED
      BY <2>1, <2>2, <2>3, <2>4, <2>5, Zenon
<1>. QED
    BY <1>2

(* No load, nothing outstanding there; a load of one, one thing. *)
LEMMA AtLoad ==
    ASSUME TypeOK, NEW n \in Node, NEW d \in Node
    PROVE  /\ Load(n, d) = 0 => Owing(n, d) = {}
           /\ Load(n, d) = 1 => \E x : Owing(n, d) = {x}
<1>1. /\ net[n][d] \in Seq(Message) /\ net[d][n] \in Seq(Message)
      /\ pendingWorkRequest[d] \in Seq(Node)
    BY DEF TypeOK
<1>. DEFINE P == Positions(net[n][d], Requests)
            Q == Entries(pendingWorkRequest[d], n)
            R == Positions(net[d][n], Answers)
<1>2. IsFiniteSet(P) /\ IsFiniteSet(Q) /\ IsFiniteSet(R)
    BY <1>1, CountType, EntriesType
<1>3. /\ Asked(n, d) = Cardinality(P) /\ Queued(n, d) = Cardinality(Q)
      /\ Answered(n, d) = Cardinality(R)
    BY DEF Asked, Queued, Answered, Count, Waiting
<1>4. Owing(n, d) = {<<"asked", d, i>> : i \in P} \cup {<<"waits", d, i>> : i \in Q}
                    \cup {<<"answer", d, i>> : i \in R}
    BY DEF Owing, AskedAt, WaitsAt, AnswerFrom
<1>. HIDE DEF P, Q, R
<1>5. ASSUME NEW S, IsFiniteSet(S)
      PROVE  /\ Cardinality(S) \in Nat
             /\ Cardinality(S) = 0 => S = {}
             /\ Cardinality(S) = 1 => \E i : S = {i}
    BY <1>5, FS_CardinalityType, FS_EmptySet, FS_Singleton
<1>6. Load(n, d) = 0 => P = {} /\ Q = {} /\ R = {}
    BY <1>2, <1>3, <1>5 DEF Load
<1>7. Load(n, d) = 1 =>
         \/ Q = {} /\ R = {} /\ \E i : P = {i}
         \/ P = {} /\ R = {} /\ \E i : Q = {i}
         \/ P = {} /\ Q = {} /\ \E i : R = {i}
  <2>1. Cardinality(P) \in Nat /\ Cardinality(Q) \in Nat /\ Cardinality(R) \in Nat
      BY <1>2, <1>5
  <2>2. Load(n, d) = 1 =>
           \/ Cardinality(Q) = 0 /\ Cardinality(R) = 0 /\ Cardinality(P) = 1
           \/ Cardinality(P) = 0 /\ Cardinality(R) = 0 /\ Cardinality(Q) = 1
           \/ Cardinality(P) = 0 /\ Cardinality(Q) = 0 /\ Cardinality(R) = 1
      BY <1>3, <2>1 DEF Load
  <2>. QED
      BY <1>2, <1>5, <2>2
<1>8. Load(n, d) = 0 => Owing(n, d) = {}
    BY <1>4, <1>6
<1>9. Load(n, d) = 1 => \E x : Owing(n, d) = {x}
  <2>1. ASSUME NEW i, Q = {}, R = {}, P = {i} PROVE Owing(n, d) = {<<"asked", d, i>>}
      BY <1>4, <2>1
  <2>2. ASSUME NEW i, P = {}, R = {}, Q = {i} PROVE Owing(n, d) = {<<"waits", d, i>>}
      BY <1>4, <2>2
  <2>3. ASSUME NEW i, P = {}, Q = {}, R = {i} PROVE Owing(n, d) = {<<"answer", d, i>>}
      BY <1>4, <2>3
  <2>. QED
      BY <1>7, <2>1, <2>2, <2>3
<1>. QED
    BY <1>8, <1>9

(***************************************************************************)
(* A node that has asked is owed exactly one answer, one that has not is   *)
(* owed none.                                                              *)
(***************************************************************************)
THEOREM RequestsAccounted == Spec => []RequestAccounting
<1>1. RequestInv => RequestAccounting
  <2>. SUFFICES ASSUME RequestInv, NEW n \in Node
                PROVE  Cardinality(Outstanding(n)) = MTR[n]
      BY DEF RequestAccounting
  <2>1. TypeOK /\ Owed(n)
      BY DEF RequestInv, OneVictim
  <2>2. CASE MTR[n] = 0 /\ \A d \in Node : Load(n, d) = 0
    <3>1. Outstanding(n) = {}
        BY <2>1, <2>2, OutstandingAt, AtLoad
    <3>. QED
        BY <2>2, <3>1, FS_EmptySet
  <2>3. ASSUME MTR[n] = 1, NEW v \in Node, \A d \in Node : Load(n, d) = IF d = v THEN 1 ELSE 0
        PROVE  Cardinality(Outstanding(n)) = MTR[n]
    <3>1. PICK x : Owing(n, v) = {x}
        BY <2>1, <2>3, AtLoad
    <3>2. \A d \in Node \ {v} : Owing(n, d) = {}
        BY <2>1, <2>3, AtLoad
    <3>3. Outstanding(n) = {x}
        BY <3>1, <3>2, OutstandingAt
    <3>. QED
        BY <2>3, <3>3, FS_Singleton
  <2>. QED
      BY <2>1, <2>2, <2>3 DEF Owed
<1>. QED
    BY <1>1, RequestInvariant, PTL

-----------------------------------------------------------------------------
(* The end of the search, with two nodes.  What a queue holds behind what. *)

WorkAt(q, i) == q[i].type = "BB_PROBLEM_PACKET"
PositiveAt(q, i) == q[i].type = "VOTE_TERMINATION" /\ q[i].signal = 1
RestartAt(q, i) == q[i].type = "RESTART_VOTING_TERMINATION"

NoWork(q) == \A i \in 1 .. Len(q) : ~WorkAt(q, i)
NoEnd(q) == \A i \in 1 .. Len(q) : q[i].type # "TERMINATION_SIGNAL"
(* A restart follows the work; no work follows a positive vote. *)
WorkRecalled(q) ==
    \A i \in 1 .. Len(q) : WorkAt(q, i) => \E j \in 1 .. Len(q) : j > i /\ RestartAt(q, j)
VoteLast(q) == \A i, j \in 1 .. Len(q) : PositiveAt(q, i) /\ i < j => ~WorkAt(q, j)

(* What holds of a queue and still holds of what becomes of it. *)
Keeps(q, q2) ==
    /\ NoWork(q) => NoWork(q2)
    /\ NoEnd(q) => NoEnd(q2)
    /\ WorkRecalled(q) => WorkRecalled(q2)
    /\ VoteLast(q) => VoteLast(q2)
    /\ PositiveIn(q2) => PositiveIn(q)

LEMMA AppendedAt ==
    ASSUME NEW q \in Seq(Message), NEW r \in Seq(Message)
    PROVE  /\ Len(q) \in Nat /\ Len(r) \in Nat /\ Len(q \o r) = Len(q) + Len(r)
           /\ \A i \in 1 .. Len(q) : i \in 1 .. Len(q \o r) /\ (q \o r)[i] = q[i]
           /\ \A i \in 1 .. Len(q \o r) :
                 \/ i \in 1 .. Len(q)
                 \/ /\ i > Len(q) /\ i - Len(q) \in 1 .. Len(r)
                    /\ (q \o r)[i] = r[i - Len(q)]
           /\ \A i \in 1 .. Len(r) :
                 Len(q) + i \in 1 .. Len(q \o r) /\ (q \o r)[Len(q) + i] = r[i]
<1>1. /\ Len(q) \in Nat /\ Len(r) \in Nat /\ Len(q \o r) = Len(q) + Len(r)
      /\ \A i \in 1 .. Len(q) + Len(r) :
            (q \o r)[i] = IF i <= Len(q) THEN q[i] ELSE r[i - Len(q)]
    BY ConcatProperties
<1>. QED
    BY <1>1

LEMMA TailAt ==
    ASSUME NEW q \in Seq(Message), q # << >>
    PROVE  /\ Len(q) \in Nat \ {0} /\ Len(Tail(q)) = Len(q) - 1 /\ Head(q) = q[1]
           /\ \A i \in 1 .. Len(Tail(q)) : i + 1 \in 1 .. Len(q) /\ Tail(q)[i] = q[i + 1]
           /\ \A i \in 2 .. Len(q) : i - 1 \in 1 .. Len(Tail(q)) /\ Tail(q)[i - 1] = q[i]
<1>1. /\ Len(q) \in Nat \ {0} /\ Len(Tail(q)) = Len(q) - 1
      /\ \A i \in 1 .. Len(q) - 1 : Tail(q)[i] = q[i + 1]
    BY HeadTailProperties
<1>. QED
    BY <1>1

LEMMA NeitherPart ==
    ASSUME NEW q \in Seq(Message), NEW r \in Seq(Message)
    PROVE  /\ NoWork(q) /\ NoWork(r) => NoWork(q \o r)
           /\ NoEnd(q) /\ NoEnd(r) => NoEnd(q \o r)
<1>1. NoWork(q) /\ NoWork(r) => NoWork(q \o r)
    BY AppendedAt DEF NoWork, WorkAt
<1>2. NoEnd(q) /\ NoEnd(r) => NoEnd(q \o r)
    BY AppendedAt DEF NoEnd
<1>. QED
    BY <1>1, <1>2

LEMMA Grouped ==
    ASSUME NEW q \in Seq(Message), NEW r \in Seq(Message), NEW u \in Seq(Message)
    PROVE  q \o (r \o u) = (q \o r) \o u
BY ConcatAssociative, SMTT(60)

(* Sending neither work, votes nor the end disturbs nothing; receiving     *)
(* never does.                                                             *)
LEMMA KeepsSend ==
    ASSUME NEW q \in Seq(Message), NEW r \in Seq(Message), NoWork(r), NoEnd(r), ~PositiveIn(r)
    PROVE  Keeps(q, q \o r)
<1>1. NoWork(q) => NoWork(q \o r)
    BY NeitherPart
<1>2. NoEnd(q) => NoEnd(q \o r)
    BY NeitherPart
<1>3. WorkRecalled(q) => WorkRecalled(q \o r)
  <2>. SUFFICES ASSUME WorkRecalled(q), NEW i \in 1 .. Len(q \o r), WorkAt(q \o r, i)
                PROVE  \E j \in 1 .. Len(q \o r) : j > i /\ RestartAt(q \o r, j)
      BY DEF WorkRecalled
  <2>1. i \in 1 .. Len(q) /\ WorkAt(q, i)
      BY AppendedAt DEF NoWork, WorkAt
  <2>2. PICK j \in 1 .. Len(q) : j > i /\ RestartAt(q, j)
      BY <2>1 DEF WorkRecalled
  <2>3. j \in 1 .. Len(q \o r) /\ RestartAt(q \o r, j)
      BY <2>2, AppendedAt DEF RestartAt
  <2>. QED
      BY <2>2, <2>3
<1>4. VoteLast(q) => VoteLast(q \o r)
  <2>. SUFFICES ASSUME VoteLast(q), NEW i \in 1 .. Len(q \o r), NEW j \in 1 .. Len(q \o r),
                       PositiveAt(q \o r, i), i < j, WorkAt(q \o r, j)
                PROVE  FALSE
      BY DEF VoteLast
  <2>1. j \in 1 .. Len(q) /\ WorkAt(q, j)
      BY AppendedAt DEF NoWork, WorkAt
  <2>2. i \in 1 .. Len(q) /\ PositiveAt(q, i)
      BY <2>1, AppendedAt DEF PositiveAt
  <2>. QED
      BY <2>1, <2>2 DEF VoteLast
<1>5. PositiveIn(q \o r) => PositiveIn(q)
    BY PositiveSplit
<1>. QED
    BY <1>1, <1>2, <1>3, <1>4, <1>5 DEF Keeps

LEMMA KeepsTail ==
    ASSUME NEW q \in Seq(Message), q # << >>
    PROVE  Keeps(q, Tail(q))
<1>1. NoWork(q) => NoWork(Tail(q))
    BY TailAt DEF NoWork, WorkAt
<1>2. NoEnd(q) => NoEnd(Tail(q))
    BY TailAt DEF NoEnd
<1>3. WorkRecalled(q) => WorkRecalled(Tail(q))
  <2>. SUFFICES ASSUME WorkRecalled(q), NEW i \in 1 .. Len(Tail(q)), WorkAt(Tail(q), i)
                PROVE  \E j \in 1 .. Len(Tail(q)) : j > i /\ RestartAt(Tail(q), j)
      BY DEF WorkRecalled
  <2>1. i + 1 \in 1 .. Len(q) /\ WorkAt(q, i + 1)
      BY TailAt DEF WorkAt
  <2>2. PICK j \in 1 .. Len(q) : j > i + 1 /\ RestartAt(q, j)
      BY <2>1 DEF WorkRecalled
  <2>3. j \in 2 .. Len(q)
      BY <2>2
  <2>4. j - 1 \in 1 .. Len(Tail(q)) /\ RestartAt(Tail(q), j - 1) /\ j - 1 > i
      BY <2>2, <2>3, TailAt DEF RestartAt
  <2>. QED
      BY <2>4
<1>4. VoteLast(q) => VoteLast(Tail(q))
  <2>. SUFFICES ASSUME VoteLast(q), NEW i \in 1 .. Len(Tail(q)), NEW j \in 1 .. Len(Tail(q)),
                       PositiveAt(Tail(q), i), i < j, WorkAt(Tail(q), j)
                PROVE  FALSE
      BY DEF VoteLast
  <2>1. /\ i + 1 \in 1 .. Len(q) /\ PositiveAt(q, i + 1)
        /\ j + 1 \in 1 .. Len(q) /\ WorkAt(q, j + 1)
      BY TailAt DEF PositiveAt, WorkAt
  <2>. QED
      BY <2>1 DEF VoteLast
<1>5. PositiveIn(Tail(q)) => PositiveIn(q)
    BY PositiveTail
<1>. QED
    BY <1>1, <1>2, <1>3, <1>4, <1>5 DEF Keeps

(* A restart recalls all the work before it; a positive vote is behind all *)
(* the work; what is behind a positive vote is no work.                    *)
LEMMA RestartRecalls ==
    ASSUME NEW q \in Seq(Message)
    PROVE  /\ WorkRecalled(q \o <<Restart>>)
           /\ WorkRecalled(q) /\ Count(q, Restarts) = 0 => NoWork(q)
<1>. DEFINE r == <<Restart>>
<1>1. r \in Seq(Message) /\ Len(r) = 1 /\ r[1] = Restart
    BY MessageType
<1>. HIDE DEF r
<1>2. WorkRecalled(q \o r)
  <2>. SUFFICES ASSUME NEW i \in 1 .. Len(q \o r), WorkAt(q \o r, i)
                PROVE  \E j \in 1 .. Len(q \o r) : j > i /\ RestartAt(q \o r, j)
      BY DEF WorkRecalled
  <2>1. (q \o r)[Len(q) + 1] = Restart /\ Len(q) + 1 \in 1 .. Len(q \o r)
    <3>1. 1 \in 1 .. Len(r)
        BY <1>1
    <3>. QED
        BY <1>1, <3>1, AppendedAt
  <2>2. i \in 1 .. Len(q)
    <3>1. i > Len(q) /\ i - Len(q) \in 1 .. Len(r) /\ (q \o r)[i] = r[i - Len(q)] => FALSE
        BY <1>1, AppendedAt DEF WorkAt, Restart
    <3>. QED
        BY <3>1, AppendedAt
  <2>. QED
      BY <2>1, <2>2, AppendedAt DEF RestartAt, Restart
<1>3. WorkRecalled(q) /\ Count(q, Restarts) = 0 => NoWork(q)
  <2>1. Count(q, Restarts) = 0 => \A i \in 1 .. Len(q) : q[i].type \notin Restarts
      BY CountZero
  <2>. QED
      BY <2>1 DEF WorkRecalled, NoWork, RestartAt, Restarts
<1>. QED
    BY <1>2, <1>3 DEF r

LEMMA VoteIsLast ==
    ASSUME NEW q \in Seq(Message), ~PositiveIn(q), NEW r \in Seq(Message), Len(r) = 1
    PROVE  VoteLast(q \o r)
<1>. SUFFICES ASSUME NEW i \in 1 .. Len(q \o r), NEW j \in 1 .. Len(q \o r),
                     PositiveAt(q \o r, i), i < j
              PROVE  FALSE
    BY DEF VoteLast
<1>1. ~(i \in 1 .. Len(q))
  <2>1. i \in 1 .. Len(q) => PositiveAt(q, i)
      BY AppendedAt DEF PositiveAt
  <2>. QED
      BY <2>1 DEF PositiveIn, PositiveAt
<1>2. Len(q) \in Nat /\ Len(q \o r) = Len(q) + Len(r)
    BY Zenon, AppendedAt
<1>. QED
    BY <1>1, <1>2

LEMMA BehindVote ==
    ASSUME NEW q \in Seq(Message), q # << >>, PositiveAt(q, 1), VoteLast(q)
    PROVE  NoWork(Tail(q))
BY TailAt DEF NoWork, VoteLast, WorkAt

(* Only a few types of packet matter to the end of the search. *)
Calm == {"WORK_REQUEST", "REJECT_WORK_REQUEST", "OPTIMAL_SOLUTION_FOUND",
         "RESTART_VOTING_TERMINATION"}

LEMMA CalmOutput ==
    ASSUME NEW out \in Outputs, NEW types, types \subseteq Calm, Only(out, types), NEW d \in Node
    PROVE  out[d] \in Seq(Message) /\ NoWork(out[d]) /\ NoEnd(out[d]) /\ ~PositiveIn(out[d])
<1>1. out[d] \in Seq(Message) /\ \A i \in 1 .. Len(out[d]) : out[d][i].type \in Calm
    BY DEF Outputs, Only
<1>. QED
    BY <1>1 DEF NoWork, WorkAt, NoEnd, PositiveIn, Calm

LEMMA KeepsSame ==
    /\ \A q : Keeps(q, q)
    /\ \A q, q1, q2 : Keeps(q, q1) /\ Keeps(q1, q2) => Keeps(q, q2)
BY DEF Keeps

(* Every channel keeps what it had: nothing that matters is sent. *)
Undisturbed == \A a, b \in Node : Keeps(net[a][b], net'[a][b])

LEMMA SentKeeps ==
    ASSUME TypeOK, NEW n \in Node, NEW out \in Outputs, NEW types, types \subseteq Calm,
           Only(out, types), Sends(net, n, out, net')
    PROVE  Undisturbed
<1>. SUFFICES ASSUME NEW a \in Node, NEW b \in Node PROVE Keeps(net[a][b], net'[a][b])
    BY DEF Undisturbed
<1>1. net[a][b] \in Seq(Message) /\ net'[a][b] = IF a = n THEN net[a][b] \o out[b] ELSE net[a][b]
    BY DEF TypeOK, Sends
<1>2. Keeps(net[a][b], net[a][b] \o out[b])
    BY <1>1, CalmOutput, KeepsSend
<1>. QED
    BY <1>1, <1>2, KeepsSame

LEMMA ConsumedKeeps ==
    ASSUME TypeOK, NEW n \in Node, NEW s \in Node, net[s][n] # << >>, NEW a \in Node, NEW b \in Node
    PROVE  Keeps(net[a][b], Consumed(n, s)[a][b])
<1>1. Consumed(n, s)[a][b] = IF a = s /\ b = n THEN Tail(net[a][b]) ELSE net[a][b]
    BY ConsumedType
<1>2. net[a][b] \in Seq(Message)
    BY DEF TypeOK
<1>. QED
    BY <1>1, <1>2, KeepsSame, KeepsTail

LEMMA ReceivedKeeps ==
    ASSUME TypeOK, NEW n \in Node, NEW s \in Node, net[s][n] # << >>, NEW out \in Outputs,
           NEW types, types \subseteq Calm, Only(out, types),
           net' = Consumed(n, s) \/ net' = Post(Consumed(n, s), n, out)
    PROVE  Undisturbed
<1>. SUFFICES ASSUME NEW a \in Node, NEW b \in Node PROVE Keeps(net[a][b], net'[a][b])
    BY DEF Undisturbed
<1>1. Consumed(n, s) \in [Node -> Outputs] /\ Keeps(net[a][b], Consumed(n, s)[a][b])
    BY ConsumedType, ConsumedKeeps
<1>2. CASE net' = Consumed(n, s)
    BY <1>1, <1>2
<1>3. CASE net' = Post(Consumed(n, s), n, out)
  <2>1. Sends(Consumed(n, s), n, out, net')
      BY <1>1, <1>3, PostType
  <2>2. /\ Consumed(n, s)[a][b] \in Seq(Message)
        /\ \/ net'[a][b] = Consumed(n, s)[a][b] \o out[b]
           \/ net'[a][b] = Consumed(n, s)[a][b]
      BY <1>1, <2>1 DEF Sends, Outputs
  <2>3. Keeps(Consumed(n, s)[a][b], Consumed(n, s)[a][b] \o out[b])
      BY <2>2, CalmOutput, KeepsSend
  <2>. QED
      BY <1>1, <2>2, <2>3, KeepsSame
<1>. QED
    BY <1>2, <1>3

(* A turn that gives no work away leaves no mark on the vote, and sends    *)
(* schedules only.                                                         *)
LEMMA ExploreGives ==
    ASSUME TypeOK, NEW n \in Node, Explore(n)
    PROVE  \/ terminationSignal'[n] = 2
           \/ \E out \in Outputs : /\ Sends(net, n, out, net')
                                   /\ Only(out, {"OPTIMAL_SOLUTION_FOUND"})
<1>0. PICK share \in Sharings(n) : \E t \in Kept(n, share) :
         /\ Serve(n, share)
         /\ \/ net' = Post(net, n, Shared(n, share))
            \/ net' = Post(Post(net, n, Shared(n, share)), n,
                           ToAll(Neighbour(n), Optimal(Bound[t])))
    BY Zenon DEF Explore, ExploreLeaf, ExploreBranch, ExplorePrune
<1>1. PICK t \in Kept(n, share) :
         /\ Serve(n, share)
         /\ \/ net' = Post(net, n, Shared(n, share))
            \/ net' = Post(Post(net, n, Shared(n, share)), n,
                           ToAll(Neighbour(n), Optimal(Bound[t])))
    BY <1>0
<1>2. CASE DOMAIN share # {}
    BY <1>1, <1>2 DEF Serve, TypeOK
<1>3. CASE DOMAIN share = {}
  <2>. DEFINE gives == Shared(n, share)
              floods == ToAll(Neighbour(n), Optimal(Bound[t]))
  <2>1. gives \in Outputs /\ \A d \in Node : gives[d] = << >>
      BY <1>3 DEF Shared, Outputs
  <2>2. Only(gives, {"OPTIMAL_SOLUTION_FOUND"})
      BY <2>1 DEF Only
  <2>3. Bound[t] \in Nat
      BY SharingType, TaskAssumption DEF TypeOK
  <2>4. floods \in Outputs /\ Only(floods, {"OPTIMAL_SOLUTION_FOUND"})
      BY <2>3, MessageType, ToAllType, ToAllOnly DEF Optimal
  <2>5. net \in [Node -> Outputs]
      BY DEF TypeOK, Outputs
  <2>6. net' = Post(net, n, gives) \/ net' = Post(Post(net, n, gives), n, floods)
      BY <1>1
  <2>. HIDE DEF gives, floods
  <2>7. Sends(net, n, gives, Post(net, n, gives))
      BY <2>1, <2>5, PostType
  <2>8. Sends(net, n, Join(gives, floods), Post(Post(net, n, gives), n, floods))
    <3>1. Post(net, n, gives) \in [Node -> Outputs]
        BY <2>7 DEF Sends
    <3>2. Sends(Post(net, n, gives), n, floods, Post(Post(net, n, gives), n, floods))
        BY <2>4, <3>1, PostType
    <3>. QED
        BY <2>1, <2>4, <2>5, <2>7, <3>2, SendsTwice
  <2>9. Join(gives, floods) \in Outputs /\ Only(Join(gives, floods), {"OPTIMAL_SOLUTION_FOUND"})
      BY <2>1, <2>2, <2>4, JoinType
  <2>10. Sends(net, n, gives, net') \/ Sends(net, n, Join(gives, floods), net')
      BY <2>6, <2>7, <2>8, Zenon
  <2>. QED
      BY <2>1, <2>2, <2>9, <2>10
<1>. QED
    BY <1>2, <1>3

(* Nobody asks itself, and nobody sends itself a packet. *)
ToOthers ==
    \A n \in Node : /\ net[n][n] = << >>
                    /\ \A i \in 1 .. Len(pendingWorkRequest[n]) : pendingWorkRequest[n][i] # n

LEMMA NeighboursApart ==
    ASSUME NEW n \in Node
    PROVE  n \notin Neighbour(n) /\ n \notin Children(n) /\ (n # Root => Parent[n] # n)
BY ParentType DEF Neighbour

LEMMA NothingMore == << >> \o << >> = << >>
<1>1. << >> \in Seq(Message)
    OBVIOUS
<1>. QED
    BY <1>1, ConcatEmptySeq

LEMMA NoneToSelf ==
    ASSUME TypeOK, ToOthers, NEW n \in Node, NEW out \in Outputs, out[n] = << >>,
           \/ Sends(net, n, out, net')
           \/ \E s \in Node \ {n} : net[s][n] # << >> /\ Sends(Consumed(n, s), n, out, net')
    PROVE  \A m \in Node : net'[m][m] = << >>
<1>. SUFFICES ASSUME NEW m \in Node PROVE net'[m][m] = << >>
    OBVIOUS
<1>1. net[m][m] = << >>
    BY DEF ToOthers
<1>2. CASE Sends(net, n, out, net')
    BY <1>1, <1>2, NothingMore DEF Sends
<1>3. ASSUME NEW s \in Node \ {n}, net[s][n] # << >>, Sends(Consumed(n, s), n, out, net')
      PROVE  net'[m][m] = << >>
  <2>1. Consumed(n, s)[m][m] = << >>
      BY <1>1, <1>3, ConsumedType
  <2>2. net'[m][m] = IF m = n THEN Consumed(n, s)[m][m] \o out[m] ELSE Consumed(n, s)[m][m]
    <3>. HIDE DEF Consumed
    <3>. QED
        BY <1>3 DEF Sends
  <2>. QED
      BY <2>1, <2>2, NothingMore
<1>. QED
    BY <1>2, <1>3

LEMMA ExploreOthers ==
    ASSUME TypeOK, ToOthers, NEW n \in Node, Explore(n)
    PROVE  ToOthers'
<1>0. PICK share \in Sharings(n) : \E t \in Kept(n, share) :
         /\ Serve(n, share)
         /\ \/ net' = Post(net, n, Shared(n, share))
            \/ net' = Post(Post(net, n, Shared(n, share)), n,
                           ToAll(Neighbour(n), Optimal(Bound[t])))
    BY Zenon DEF Explore, ExploreLeaf, ExploreBranch, ExplorePrune
<1>1. PICK t \in Kept(n, share) :
         /\ Serve(n, share)
         /\ \/ net' = Post(net, n, Shared(n, share))
            \/ net' = Post(Post(net, n, Shared(n, share)), n,
                           ToAll(Neighbour(n), Optimal(Bound[t])))
    BY <1>0
<1>2. PICK k \in 0 .. Len(pendingWorkRequest[n]) :
         share \in [1 .. k -> SUBSET tree[n]] /\ Cardinality(DOMAIN share) = k
    BY SharingType
<1>3. /\ pendingWorkRequest \in [Node -> Seq(Node)]
      /\ pendingWorkRequest' = [pendingWorkRequest EXCEPT ![n] =
                                SubSeq(pendingWorkRequest[n], k + 1, Len(pendingWorkRequest[n]))]
    BY <1>1, <1>2 DEF Serve, TypeOK
<1>. DEFINE gives == Shared(n, share)
            floods == ToAll(Neighbour(n), Optimal(Bound[t]))
<1>4. gives \in Outputs /\ gives[n] = << >>
  <2>1. \A i \in DOMAIN share : pendingWorkRequest[n][i] # n
      BY <1>2, <1>3 DEF ToOthers
  <2>. QED
      BY <2>1, SharingType DEF Shared
<1>5. floods \in Outputs /\ floods[n] = << >>
  <2>1. Bound[t] \in Nat
      BY SharingType, TaskAssumption DEF TypeOK
  <2>2. floods \in Outputs
      BY <2>1, MessageType, ToAllType DEF Optimal
  <2>. QED
      BY <2>2, NeighboursApart DEF ToAll
<1>6. net' = Post(net, n, gives) \/ net' = Post(Post(net, n, gives), n, floods)
    BY <1>1
<1>. HIDE DEF gives, floods
<1>7. net \in [Node -> Outputs]
    BY DEF TypeOK, Outputs
<1>8. Sends(net, n, gives, Post(net, n, gives))
    BY <1>4, <1>7, PostType
<1>9. Sends(net, n, Join(gives, floods), Post(Post(net, n, gives), n, floods))
  <2>1. Post(net, n, gives) \in [Node -> Outputs]
      BY <1>8 DEF Sends
  <2>2. Sends(Post(net, n, gives), n, floods, Post(Post(net, n, gives), n, floods))
      BY <1>5, <2>1, PostType
  <2>. QED
      BY <1>4, <1>5, <1>7, <1>8, <2>2, SendsTwice
<1>10. Join(gives, floods) \in Outputs /\ Join(gives, floods)[n] = << >>
    BY <1>4, <1>5, JoinType, NothingMore DEF Join
<1>11. \A m \in Node : net'[m][m] = << >>
  <2>1. Sends(net, n, gives, net') \/ Sends(net, n, Join(gives, floods), net')
      BY <1>6, <1>8, <1>9, Zenon
  <2>. QED
      BY <1>4, <1>10, <2>1, NoneToSelf
<1>12. ASSUME NEW m \in Node, NEW i \in 1 .. Len(pendingWorkRequest'[m])
       PROVE  pendingWorkRequest'[m][i] # m
  <2>1. CASE m # n
      BY <1>3, <1>12, <2>1 DEF ToOthers
  <2>2. CASE m = n
    <3>. DEFINE q == pendingWorkRequest[n]
    <3>1. q \in Seq(Node) /\ Len(q) \in Nat /\ k \in 0 .. Len(q)
        BY <1>2, <1>3
    <3>2. pendingWorkRequest'[m] = SubSeq(q, k + 1, Len(q))
        BY <1>3, <2>2
    <3>3. i \in 1 .. Len(q) - k /\ SubSeq(q, k + 1, Len(q))[i] = q[k + i]
      <4>. HIDE DEF q
      <4>. QED
          BY <1>12, <3>1, <3>2
    <3>4. q[k + i] # n
        BY <3>1, <3>3 DEF ToOthers
    <3>. QED
        BY <2>2, <3>2, <3>3, <3>4
  <2>. QED
      BY <2>1, <2>2
<1>. QED
    BY <1>11, <1>12 DEF ToOthers

LEMMA AskOthers ==
    ASSUME TypeOK, ToOthers, NEW n \in Node, NEW control \in Outputs, control[n] = << >>,
           AskForWork(n, control)
    PROVE  ToOthers'
<1>1. PICK V \in Victims(n) :
         net' = Post(net, n, [d \in Node |->
                        Rejects(n, d) \o ToAll(V, Request)[d] \o control[d]])
    BY DEF AskForWork
<1>. DEFINE rejects == [d \in Node |-> Rejects(n, d)]
            asks == ToAll(V, Request)
            out == Join(Join(rejects, asks), control)
<1>2. rejects \in Outputs /\ rejects[n] = << >>
  <2>1. rejects \in Outputs
      BY RejectsType DEF Outputs
  <2>2. {i \in 1 .. Len(pendingWorkRequest[n]) : pendingWorkRequest[n][i] = n} = {}
      BY DEF ToOthers
  <2>3. Rejects(n, n) = << >>
    <3>1. Rejects(n, n) \in Seq(Message) /\ DOMAIN Rejects(n, n) = 1 .. Cardinality({})
        BY <2>2, RejectsType DEF Rejects
    <3>2. Cardinality({}) = 0
        BY FS_EmptySet
    <3>3. Len(Rejects(n, n)) = 0
        BY <3>1, <3>2
    <3>. QED
        BY <3>1, <3>3
  <2>. QED
      BY <2>1, <2>3
<1>3. asks \in Outputs /\ asks[n] = << >>
  <2>1. asks \in Outputs
      BY MessageType, ToAllType DEF Request
  <2>2. n \notin V
      BY DEF Victims
  <2>. QED
      BY <2>1, <2>2 DEF ToAll
<1>4. net' = Post(net, n, out)
    BY <1>1 DEF Join
<1>. HIDE DEF rejects, asks
<1>5. Join(rejects, asks) \in Outputs /\ Join(rejects, asks)[n] = << >>
    BY <1>2, <1>3, JoinType, NothingMore DEF Join
<1>6. out \in Outputs /\ out[n] = << >>
    BY <1>5, JoinType, NothingMore DEF Join
<1>. HIDE DEF out
<1>7. \A m \in Node : net'[m][m] = << >>
  <2>1. net \in [Node -> Outputs]
      BY DEF TypeOK, Outputs
  <2>2. Sends(net, n, out, net')
      BY <1>4, <1>6, <2>1, PostType, Zenon
  <2>. QED
      BY <1>6, <2>2, NoneToSelf
<1>8. pendingWorkRequest' = [pendingWorkRequest EXCEPT ![n] = << >>]
    BY DEF AskForWork
<1>9. \A m \in Node : \A i \in 1 .. Len(pendingWorkRequest'[m]) : pendingWorkRequest'[m][i] # m
  <2>1. \A m \in Node :
           pendingWorkRequest'[m] = IF m = n THEN << >> ELSE pendingWorkRequest[m]
      BY <1>8 DEF TypeOK
  <2>2. 1 .. Len(<< >>) = {}
      OBVIOUS
  <2>. QED
      BY <2>1, <2>2 DEF ToOthers
<1>. QED
    BY <1>7, <1>9 DEF ToOthers

LEMMA IdleOthers ==
    ASSUME TypeOK, ToOthers, NEW n \in Node, IdleTurn(n)
    PROVE  ToOthers'
<1>1. Nothing \in Outputs /\ Nothing[n] = << >>
    BY MessageType, ToAllType DEF Nothing
<1>2. ASSUME NEW D, n \notin D, NEW m \in Message
      PROVE  ToAll(D, m) \in Outputs /\ ToAll(D, m)[n] = << >>
    BY <1>2, ToAllType DEF ToAll
<1>3. Stand(n) \in {1, 2}
    BY DEF TypeOK, Stand
<1>4. CASE KeepAsking(n)
    BY <1>1, <1>4, AskOthers DEF KeepAsking
<1>5. CASE CastVote(n)
  <2>1. AskForWork(n, ToAll({Parent[n]}, Vote(Stand(n)))) /\ n \notin {Parent[n]}
      BY <1>5, NeighboursApart DEF CastVote
  <2>2. Vote(Stand(n)) \in Message
      BY <1>3, MessageType DEF Vote
  <2>. QED
      BY <1>2, <2>1, <2>2, AskOthers
<1>6. CASE n = Root /\ RestartVote
  <2>1. AskForWork(n, ToAll(Children(n), Restart)) /\ n \notin Children(n)
      BY <1>6, NeighboursApart DEF RestartVote
  <2>2. Restart \in Message
      BY MessageType
  <2>. QED
      BY <1>2, <2>1, <2>2, AskOthers
<1>7. CASE n = Root /\ DetectTermination
  <2>1. AskForWork(n, ToAll(Children(n), Terminate)) /\ n \notin Children(n)
      BY <1>7, NeighboursApart DEF DetectTermination
  <2>2. Terminate \in Message
      BY MessageType
  <2>. QED
      BY <1>2, <2>1, <2>2, AskOthers
<1>. QED
    BY <1>4, <1>5, <1>6, <1>7 DEF IdleTurn

LEMMA ReceiveOthers ==
    ASSUME TypeOK, ToOthers, NEW n \in Node, NEW s \in Node \ {n}, Receive(n, s)
    PROVE  ToOthers'
<1>1. net[s][n] # << >>
    BY DEF Receive, RecvWork, RecvReject, RecvWorkRequest, RecvOptimalSolution, RecvVote,
           RecvRestart, RecvTermination, Arrived
<1>2. \A m \in Node : \A i \in 1 .. Len(pendingWorkRequest'[m]) : pendingWorkRequest'[m][i] # m
  <2>1. CASE RecvWorkRequest(n, s)
    <3>. DEFINE q == pendingWorkRequest[n]
    <3>1. /\ pendingWorkRequest' = [pendingWorkRequest EXCEPT ![n] = Append(q, s)]
          /\ pendingWorkRequest \in [Node -> Seq(Node)]
        BY <2>1 DEF RecvWorkRequest, TypeOK
    <3>2. ASSUME NEW i \in 1 .. Len(Append(q, s)) PROVE Append(q, s)[i] # n
      <4>1. q \in Seq(Node) /\ \A j \in 1 .. Len(q) : q[j] # n
          BY <3>1 DEF ToOthers
      <4>. HIDE DEF q
      <4>. QED
          BY <3>2, <4>1
    <3>. QED
        BY <3>1, <3>2 DEF ToOthers
  <2>2. CASE UNCHANGED pendingWorkRequest
      BY <2>2 DEF ToOthers
  <2>. QED
      BY <2>1, <2>2
         DEF Receive, RecvWork, RecvReject, RecvOptimalSolution, RecvVote, RecvRestart,
             RecvTermination, stealVars
<1>3. Consumed(n, s) \in [Node -> Outputs]
    BY <1>1, ConsumedType
<1>4. ASSUME NEW D, n \notin D, NEW m \in Message, net' = Post(Consumed(n, s), n, ToAll(D, m))
      PROVE  \A a \in Node : net'[a][a] = << >>
  <2>. DEFINE out == ToAll(D, m)
  <2>1. out \in Outputs /\ out[n] = << >>
      BY <1>4, ToAllType DEF ToAll
  <2>2. net' = Post(Consumed(n, s), n, out)
      BY <1>4
  <2>. HIDE DEF out
  <2>3. Sends(Consumed(n, s), n, out, net')
      BY <1>3, <2>1, <2>2, PostType
  <2>. QED
      BY <1>1, <2>1, <2>3, NoneToSelf
<1>5. ASSUME net' = Consumed(n, s) PROVE \A a \in Node : net'[a][a] = << >>
    BY <1>1, <1>5, ConsumedType DEF ToOthers
<1>6. CASE RecvOptimalSolution(n, s)
  <2>. DEFINE known == IF Packet(n, s).cost < best[n] THEN Packet(n, s).cost ELSE best[n]
  <2>1. /\ Packet(n, s).type = "OPTIMAL_SOLUTION_FOUND"
        /\ \/ net' = Consumed(n, s)
           \/ net' = Post(Consumed(n, s), n, ToAll(Neighbour(n), Optimal(known)))
      BY <1>6 DEF RecvOptimalSolution, Arrived, Packet
  <2>2. known \in Nat
    <3>1. Packet(n, s).cost \in Nat
        BY <1>1, <2>1, ConsumedType DEF Message
    <3>. QED
        BY <3>1 DEF TypeOK
  <2>. HIDE DEF known
  <2>3. Optimal(known) \in Message
      BY <2>2, MessageType DEF Optimal
  <2>. QED
      BY <1>2, <1>4, <1>5, <2>1, <2>3, NeighboursApart DEF ToOthers
<1>7. CASE RecvRestart(n, s)
  <2>1. net' = Post(Consumed(n, s), n, ToAll(Children(n), Restart)) /\ Restart \in Message
      BY <1>7, MessageType DEF RecvRestart
  <2>. QED
      BY <1>2, <1>4, <2>1, NeighboursApart DEF ToOthers
<1>8. CASE RecvTermination(n, s)
  <2>1. net' = Post(Consumed(n, s), n, ToAll(Children(n), Terminate)) /\ Terminate \in Message
      BY <1>8, MessageType DEF RecvTermination
  <2>. QED
      BY <1>2, <1>4, <2>1, NeighboursApart DEF ToOthers
<1>9. CASE RecvWork(n, s) \/ RecvReject(n, s) \/ RecvWorkRequest(n, s) \/ RecvVote(n, s)
  <2>1. net' = Consumed(n, s)
      BY <1>9 DEF RecvWork, RecvReject, RecvWorkRequest, RecvVote
  <2>. QED
      BY <1>2, <1>5, <2>1 DEF ToOthers
<1>. QED
    BY <1>6, <1>7, <1>8, <1>9 DEF Receive

LEMMA OthersInvariant == Spec => []ToOthers
<1>1. Init => ToOthers
    BY DEF Init, ToOthers
<1>2. TypeOK /\ ToOthers /\ [Next]_vars => ToOthers'
  <2>. SUFFICES ASSUME TypeOK, ToOthers, [Next]_vars PROVE ToOthers'
      OBVIOUS
  <2>1. ASSUME UNCHANGED <<net, pendingWorkRequest>> PROVE ToOthers'
      BY <2>1 DEF ToOthers
  <2>2. ASSUME NEW n \in Node, Trigger(n) PROVE ToOthers'
      BY <2>1, <2>2 DEF Trigger, stealVars
  <2>3. CASE UNCHANGED vars
      BY <2>1, <2>3 DEF vars, stealVars
  <2>. QED
      BY <2>2, <2>3, ExploreOthers, IdleOthers, ReceiveOthers DEF Next, Finished
<1>. QED
    BY <1>1, <1>2, TypeCorrect, PTL DEF Spec

(***************************************************************************)
(* The invariant.  Up carries the child's votes and Down the root's work   *)
(* and restarts.  Unless the root's own vote is negative, and a            *)
(* negative vote stays until the round ends, a restart follows all the     *)
(* work on its way to the child, and a positive vote of the child stands   *)
(* for an idle child that gets no work: what it gave away before is ahead  *)
(* of its vote.                                                            *)
(***************************************************************************)
Up == net[1][0]
Down == net[0][1]
Still == tree[1] = {} /\ NoWork(Down)
Pending ==
    terminationSignal[0] # 2 =>
        /\ WorkRecalled(Down)
        /\ PositiveIn(Up) => Still /\ VoteLast(Up)
        /\ childSignal[1] = 1 => Still /\ NoWork(Up)
Ends ==
    /\ NoEnd(Up)
    /\ ~jobFinished[0] => NoEnd(Down) /\ ~jobFinished[1]
    /\ jobFinished[0] => tree[0] = {} /\ Still /\ NoWork(Up)
TwoInv == VoteInv /\ Pending /\ Ends

LEMMA TwoNodes ==
    ASSUME N = 2
    PROVE  /\ Node = {0, 1} /\ Root = 0 /\ 0 \in Node /\ 1 \in Node
           /\ Children(0) = {1} /\ Children(1) = {} /\ Parent[1] = 0
<1>1. Node = {0, 1} /\ Root = 0
    BY DEF Node, Root
<1>2. Parent[1] = 0
    BY <1>1, OverlayAssumption
<1>. QED
    BY <1>1, <1>2 DEF Children

(* The channels are well formed, and a vote, a restart and a noted vote of *)
(* the child exclude each other.                                           *)
LEMMA TwoChannels ==
    ASSUME N = 2, VoteInv
    PROVE  /\ Up \in Seq(Message) /\ Down \in Seq(Message)
           /\ PositiveIn(Up) => childSignal[1] = 0 /\ Count(Down, Restarts) = 0
           /\ Count(Down, Restarts) # 0 => ~PositiveIn(Up) /\ childSignal[1] = 0
           /\ childSignal[1] # 0 => ~PositiveIn(Up)
           /\ sentTerminateDetection[1] = 0 =>
                 ~PositiveIn(Up) /\ childSignal[1] = 0 /\ Count(Down, Restarts) = 0
<1>1. Up \in Seq(Message) /\ Down \in Seq(Message)
    BY TwoNodes DEF VoteInv, TypeOK, Up, Down
<1>2. 1 \in Node \ {Root}
    BY TwoNodes
<1>3. /\ Voted(1) + Recalled(1) + Noted(1) = sentTerminateDetection[1]
      /\ Voted(1) \in Nat /\ Recalled(1) \in Nat /\ Noted(1) \in {0, 1}
      /\ sentTerminateDetection[1] \in {0, 1}
    BY <1>2, AccountedType DEF Accounted
<1>4. /\ Voted(1) = Count(Up, Votes) /\ Recalled(1) = Count(Down, Restarts)
      /\ Noted(1) = IF childSignal[1] = 0 THEN 0 ELSE 1
    BY TwoNodes DEF Voted, Recalled, Noted, Up, Down
<1>5. PositiveIn(Up) => Voted(1) # 0
    BY <1>1, <1>4, PositiveCounted
<1>. QED
    BY <1>1, <1>3, <1>4, <1>5

(* A step that sends nothing that matters, gives no idle node work, and    *)
(* withdraws no negative vote.                                             *)
LEMMA KeepPending ==
    ASSUME N = 2, Pending, Undisturbed, childSignal'[1] = childSignal[1],
           terminationSignal'[0] # 2 => terminationSignal[0] # 2,
           tree[1] = {} /\ NoWork(Down) => tree'[1] = {}
    PROVE  Pending'
<1>1. Keeps(Up, Up') /\ Keeps(Down, Down')
    BY TwoNodes DEF Undisturbed, Up, Down
<1>2. Still => Still'
    BY <1>1 DEF Keeps, Still
<1>. QED
    BY <1>1, <1>2 DEF Pending, Keeps

LEMMA KeepEnds ==
    ASSUME N = 2, Ends, UNCHANGED jobFinished,
           NoEnd(Up) => NoEnd(Up'), NoEnd(Down) => NoEnd(Down'),
           jobFinished[0] => /\ NoWork(Up) => NoWork(Up')
                             /\ NoWork(Down) => NoWork(Down')
                             /\ Still => tree'[1] = {}
                             /\ Still /\ NoWork(Up) /\ tree[0] = {} => tree'[0] = {}
    PROVE  Ends'
BY DEF Ends, Still

LEMMA TwoExplore ==
    ASSUME N = 2, TwoInv, NEW n \in Node, Explore(n)
    PROVE  Pending' /\ Ends'
<1>1. TypeOK /\ VoteInv
    BY DEF TwoInv, VoteInv
<1>2. tree[n] # {} /\ ~jobFinished[n]
    BY DEF Explore, ExploreLeaf, ExploreBranch, ExplorePrune, Working
<1>3. PICK out \in Outputs :
         /\ Sends(net, n, out, net')
         /\ Only(out, {"BB_PROBLEM_PACKET", "OPTIMAL_SOLUTION_FOUND"})
    BY <1>1, ExploreType
<1>4. /\ UNCHANGED <<childSignal, jobFinished>>
      /\ \A m \in Node : terminationSignal'[m] \in {terminationSignal[m], 2}
    BY <1>1, ExploreType
<1>5. \A m \in Node \ {n} : tree'[m] = tree[m]
  <2>1. \E S : tree' = [tree EXCEPT ![n] = S]
      BY Zenon DEF Explore, ExploreLeaf, ExploreBranch, ExplorePrune
  <2>. QED
      BY <1>1, <2>1 DEF TypeOK
<1>6. ASSUME NEW d \in Node
      PROVE  out[d] \in Seq(Message) /\ NoEnd(out[d]) /\ ~PositiveIn(out[d])
    BY <1>3 DEF Only, Outputs, NoEnd, PositiveIn
<1>7. \A a, b \in Node : net[a][b] \in Seq(Message)
                         /\ net'[a][b] = IF a = n THEN net[a][b] \o out[b] ELSE net[a][b]
    BY <1>1, <1>3 DEF TypeOK, Sends
<1>8. ASSUME NEW a \in Node, NEW b \in Node
      PROVE  /\ NoEnd(net[a][b]) => NoEnd(net'[a][b])
             /\ PositiveIn(net'[a][b]) => PositiveIn(net[a][b])
  <2>1. /\ NoEnd(net[a][b]) => NoEnd(net[a][b] \o out[b])
        /\ PositiveIn(net[a][b] \o out[b]) => PositiveIn(net[a][b])
    <3>1. net[a][b] \in Seq(Message) /\ out[b] \in Seq(Message)
        BY <1>6, <1>7
    <3>2. NoEnd(net[a][b]) => NoEnd(net[a][b] \o out[b])
        BY <1>6, <3>1, NeitherPart
    <3>. QED
        BY <1>6, <3>1, <3>2, PositiveSplit
  <2>. QED
      BY <1>7, <2>1
<1>9. ~jobFinished[0]
    BY <1>2, TwoNodes DEF TwoInv, Ends, Still
<1>10. Ends'
    BY <1>4, <1>8, <1>9, KeepEnds, TwoNodes DEF TwoInv, Up, Down
<1>11. CASE n = 0
  <2>1. terminationSignal'[0] = 2 => Pending'
      BY DEF Pending
  <2>2. ASSUME NEW less \in Outputs, Sends(net, n, less, net'),
               Only(less, {"OPTIMAL_SOLUTION_FOUND"})
        PROVE  Pending'
    <3>1. Undisturbed
        BY <1>1, <2>2, SentKeeps DEF Calm
    <3>. QED
        BY <1>4, <1>5, <1>11, <3>1, KeepPending, TwoNodes DEF TwoInv
  <2>. QED
      BY <1>1, <1>10, <1>11, <2>1, <2>2, ExploreGives
<1>12. CASE n = 1
  <2>1. Down' = Down /\ (PositiveIn(Up') => PositiveIn(Up))
      BY <1>7, <1>8, <1>12, TwoNodes DEF Up, Down
  <2>2. terminationSignal'[0] # 2 => terminationSignal[0] # 2
      BY <1>4, TwoNodes
  <2>3. ~Still
      BY <1>2, <1>12 DEF Still
  <2>. QED
      BY <1>4, <1>10, <2>1, <2>2, <2>3 DEF TwoInv, Pending
<1>. QED
    BY <1>11, <1>12, TwoNodes

(* The child casts its vote: no restart is on its way, so that all the     *)
(* work that may be has made the root's vote negative.                     *)
LEMMA TwoCast ==
    ASSUME N = 2, TwoInv, NEW n \in Node, CastVote(n)
    PROVE  Pending' /\ Ends'
<1>. DEFINE m == Vote(Stand(n))
            control == ToAll({Parent[n]}, m)
<1>1. TypeOK /\ VoteInv /\ n = 1 /\ Parent[1] = 0
    BY TwoNodes DEF TwoInv, VoteInv, CastVote
<1>2. /\ sentTerminateDetection[1] = 0 /\ tree[1] = {} /\ ~jobFinished[1]
      /\ AskForWork(n, control)
      /\ UNCHANGED <<childSignal, jobFinished, tree>>
      /\ terminationSignal'[0] = terminationSignal[0]
  <2>1. /\ AskForWork(n, control) /\ sentTerminateDetection[1] = 0
        /\ terminationSignal' = [terminationSignal EXCEPT ![n] = Stand(n)]
        /\ UNCHANGED <<childSignal, jobFinished>>
      BY <1>1 DEF CastVote
  <2>2. tree[1] = {} /\ ~jobFinished[1] /\ UNCHANGED tree
      BY <1>1, <2>1 DEF AskForWork, Starving, searchVars
  <2>3. terminationSignal'[0] = terminationSignal[0]
      BY <1>1, <2>1, TwoNodes DEF TypeOK
  <2>. QED
      BY <2>1, <2>2, <2>3
<1>3. m \in Message /\ m.type = "VOTE_TERMINATION" /\ control \in Outputs
  <2>1. Stand(n) \in {1, 2}
      BY <1>1 DEF TypeOK, Stand
  <2>. QED
      BY <2>1, MessageType, ToAllType DEF Vote
<1>4. control[0] = <<m>> /\ control[1] = << >>
    BY <1>1, TwoNodes DEF ToAll
<1>. HIDE DEF control, m
<1>5. PICK out \in Outputs :
         /\ Sends(net, n, Join(out, control), net')
         /\ Only(out, {"REJECT_WORK_REQUEST", "WORK_REQUEST"})
    BY <1>1, <1>2, <1>3, AskForWorkType
<1>6. /\ out[0] \in Seq(Message) /\ NoWork(out[0]) /\ NoEnd(out[0]) /\ ~PositiveIn(out[0])
    BY <1>5, CalmOutput, TwoNodes DEF Calm
<1>7. Down' = Down /\ Up' = Up \o (out[0] \o <<m>>)
    BY <1>1, <1>4, <1>5, TwoNodes DEF Sends, Join, Up, Down
<1>8. /\ Up \in Seq(Message) /\ Down \in Seq(Message)
      /\ ~PositiveIn(Up) /\ childSignal[1] = 0 /\ Count(Down, Restarts) = 0
    BY <1>1, <1>2, TwoChannels
<1>. DEFINE q == Up \o out[0]
            r == <<m>>
<1>9. q \in Seq(Message) /\ r \in Seq(Message) /\ Len(r) = 1 /\ r[1] = m /\ Up' = q \o r
  <2>1. r \in Seq(Message) /\ Len(r) = 1 /\ r[1] = m
      BY <1>3
  <2>. HIDE DEF r
  <2>2. q \in Seq(Message)
      BY <1>6, <1>8
  <2>3. Up \o (out[0] \o r) = (Up \o out[0]) \o r
      BY ZenonT(30), <1>6, <1>8, <2>1, Grouped
  <2>. QED
      BY <1>7, <2>1, <2>2, <2>3 DEF r
<1>10. Keeps(Up, q)
    BY <1>6, <1>8, KeepsSend
<1>. HIDE DEF q, r
<1>11. VoteLast(Up') /\ (NoEnd(Up) => NoEnd(Up')) /\ (NoWork(Up) => NoWork(Up'))
  <2>1. ~PositiveIn(q)
      BY <1>8, <1>10 DEF Keeps
  <2>2. NoEnd(r) /\ NoWork(r)
      BY <1>3, <1>9 DEF NoEnd, NoWork, WorkAt
  <2>3. VoteLast(q \o r)
      BY <1>9, <2>1, VoteIsLast
  <2>4. (NoEnd(q) => NoEnd(q \o r)) /\ (NoWork(q) => NoWork(q \o r))
      BY <1>9, <2>2, NeitherPart
  <2>. QED
      BY <1>9, <1>10, <2>3, <2>4 DEF Keeps
<1>12. terminationSignal[0] # 2 => NoWork(Down)
    BY <1>8, RestartRecalls DEF TwoInv, Pending
<1>13. Pending'
    BY <1>2, <1>7, <1>8, <1>11, <1>12 DEF TwoInv, Pending, Still
<1>14. Ends'
    BY <1>2, <1>7, <1>11, KeepEnds DEF TwoInv
<1>. QED
    BY <1>13, <1>14

LEMMA NoWorkIsCalm ==
    \A q : NoWork(q) => WorkRecalled(q) /\ VoteLast(q)
BY DEF NoWork, WorkRecalled, VoteLast

(* What the root sends last to the child when its idle turn ends a round.  *)
LEMMA TwoRootSends ==
    ASSUME N = 2, TypeOK, NEW m \in Message, AskForWork(0, ToAll(Children(0), m))
    PROVE  /\ Up' = Up /\ UNCHANGED tree
           /\ \E q \in Seq(Message) : Keeps(Down, q) /\ Down' = q \o <<m>>
<1>. DEFINE control == ToAll(Children(0), m)
<1>1. control \in Outputs /\ control[0] = << >> /\ control[1] = <<m>> /\ <<m>> \in Seq(Message)
  <2>1. control \in Outputs
      BY ToAllType
  <2>2. control[0] = << >> /\ control[1] = <<m>>
      BY TwoNodes DEF ToAll
  <2>. QED
      BY <2>1, <2>2
<1>2. AskForWork(0, control) /\ UNCHANGED tree
    BY DEF AskForWork, searchVars
<1>. HIDE DEF control
<1>3. PICK out \in Outputs :
         /\ Sends(net, 0, Join(out, control), net')
         /\ Only(out, {"REJECT_WORK_REQUEST", "WORK_REQUEST"})
    BY <1>1, <1>2, AskForWorkType, TwoNodes
<1>4. /\ out[1] \in Seq(Message) /\ NoWork(out[1]) /\ NoEnd(out[1]) /\ ~PositiveIn(out[1])
    BY <1>3, CalmOutput, TwoNodes DEF Calm
<1>5. Up' = Up /\ Down' = Down \o (out[1] \o <<m>>)
  <2>1. /\ net'[1][0] = net[1][0]
        /\ net'[0][1] = net[0][1] \o Join(out, control)[1]
      BY <1>3, TwoNodes DEF Sends
  <2>2. Join(out, control)[1] = out[1] \o <<m>>
      BY <1>1, TwoNodes DEF Join
  <2>. QED
      BY <2>1, <2>2 DEF Up, Down
<1>6. Down \in Seq(Message)
    BY TwoNodes DEF TypeOK, Down
<1>7. Down \o (out[1] \o <<m>>) = (Down \o out[1]) \o <<m>>
    BY Zenon, <1>1, <1>4, <1>6, Grouped
<1>8. Keeps(Down, Down \o out[1]) /\ Down \o out[1] \in Seq(Message)
    BY <1>4, <1>6, KeepsSend
<1>. QED
    BY <1>2, <1>5, <1>7, <1>8

LEMMA TwoIdle ==
    ASSUME N = 2, TwoInv, NEW n \in Node, IdleTurn(n)
    PROVE  Pending' /\ Ends'
<1>1. TypeOK /\ VoteInv /\ Pending /\ Ends
    BY DEF TwoInv, VoteInv
<1>2. CASE KeepAsking(n)
  <2>1. AskForWork(n, Nothing) /\ UNCHANGED <<childSignal, jobFinished, tree>>
      BY <1>2 DEF KeepAsking, AskForWork, searchVars
  <2>2. Nothing \in Outputs /\ Only(Nothing, Calm)
      BY MessageType, ToAllType DEF Nothing, Only
  <2>3. PICK out \in Outputs :
           /\ Sends(net, n, Join(out, Nothing), net')
           /\ Only(out, {"REJECT_WORK_REQUEST", "WORK_REQUEST"})
      BY <1>1, <2>1, <2>2, AskForWorkType
  <2>4. Join(out, Nothing) \in Outputs /\ Only(Join(out, Nothing), Calm)
    <3>1. Only(out, Calm)
        BY <2>3 DEF Only, Calm
    <3>. QED
        BY <2>2, <3>1, JoinType
  <2>5. Undisturbed
      BY <1>1, <2>3, <2>4, SentKeeps
  <2>6. terminationSignal'[0] # 2 => terminationSignal[0] # 2
      BY <1>1, <1>2, TwoNodes DEF KeepAsking, Stand, TypeOK
  <2>7. Pending'
      BY <1>1, <2>1, <2>5, <2>6, KeepPending
  <2>8. Ends'
    <3>1. Keeps(Up, Up') /\ Keeps(Down, Down')
        BY <2>5, TwoNodes DEF Undisturbed, Up, Down
    <3>. QED
        BY <1>1, <2>1, <3>1, KeepEnds DEF Keeps, Still
  <2>. QED
      BY <2>7, <2>8
<1>3. CASE CastVote(n)
    BY <1>3, TwoCast
<1>4. CASE RestartVote
  <2>1. /\ AskForWork(0, ToAll(Children(0), Restart)) /\ childSignal[1] # 0 /\ ~jobFinished[0]
        /\ childSignal'[1] = 0 /\ UNCHANGED jobFinished
    <3>1. /\ AskForWork(Root, ToAll(Children(Root), Restart)) /\ UNCHANGED jobFinished
          /\ AllVoted(Root) /\ childSignal' = ForgetVotes(Root)
        BY <1>4 DEF RestartVote
    <3>2. childSignal[1] # 0 /\ childSignal'[1] = 0
        BY <3>1, TwoNodes DEF AllVoted, ForgetVotes
    <3>3. ~jobFinished[Root]
        BY <3>1 DEF AskForWork, Starving
    <3>. QED
        BY <3>1, <3>2, <3>3, TwoNodes
  <2>2. PICK q \in Seq(Message) : Keeps(Down, q) /\ Down' = q \o <<Restart>>
      BY <1>1, <2>1, MessageType, TwoRootSends
  <2>3. Up' = Up
      BY <1>1, <2>1, MessageType, TwoRootSends
  <2>4. WorkRecalled(Down') /\ ~PositiveIn(Up)
      BY <1>1, <2>1, <2>2, RestartRecalls, TwoChannels
  <2>5. NoEnd(Down) => NoEnd(Down')
    <3>1. NoEnd(<<Restart>>) /\ <<Restart>> \in Seq(Message)
        BY MessageType DEF NoEnd, Restart
    <3>. QED
        BY <2>2, <3>1, NeitherPart DEF Keeps
  <2>6. Pending'
      BY <2>1, <2>3, <2>4 DEF Pending
  <2>7. Ends'
      BY <1>1, <2>1, <2>3, <2>5, KeepEnds
  <2>. QED
      BY <2>6, <2>7
<1>5. CASE DetectTermination
  <2>1. /\ AskForWork(0, ToAll(Children(0), Terminate)) /\ tree[0] = {} /\ jobFinished'[0]
        /\ childSignal[1] = 1 /\ terminationSignal[0] # 2
    <3>1. /\ AskForWork(Root, ToAll(Children(Root), Terminate)) /\ Unanimous
          /\ jobFinished' = [jobFinished EXCEPT ![Root] = TRUE]
        BY <1>5 DEF DetectTermination
    <3>2. childSignal[1] = 1 /\ terminationSignal[0] # 2
        BY <3>1, TwoNodes DEF Unanimous, Stand
    <3>3. jobFinished'[0] = TRUE
        BY <1>1, <3>1, TwoNodes DEF TypeOK
    <3>4. tree[Root] = {}
        BY <3>1 DEF AskForWork, Starving
    <3>. QED
        BY <3>1, <3>2, <3>3, <3>4, TwoNodes
  <2>2. PICK q \in Seq(Message) : Keeps(Down, q) /\ Down' = q \o <<Terminate>>
      BY <1>1, <2>1, MessageType, TwoRootSends
  <2>3. Up' = Up /\ UNCHANGED tree
      BY <1>1, <2>1, MessageType, TwoRootSends
  <2>4. Still /\ NoWork(Up)
      BY <1>1, <2>1 DEF Pending
  <2>5. NoWork(Down')
    <3>1. NoWork(<<Terminate>>) /\ <<Terminate>> \in Seq(Message)
        BY MessageType DEF NoWork, WorkAt, Terminate
    <3>. QED
        BY <2>2, <2>4, <3>1, NeitherPart DEF Keeps, Still
  <2>6. Still' /\ NoWork(Up') /\ tree'[0] = {}
      BY <2>1, <2>3, <2>4, <2>5 DEF Still
  <2>7. Pending'
      BY <2>6, NoWorkIsCalm DEF Pending, Still
  <2>8. Ends'
      BY <1>1, <2>1, <2>3, <2>6 DEF Ends
  <2>. QED
      BY <2>7, <2>8
<1>. QED
    BY <1>2, <1>3, <1>4, <1>5 DEF IdleTurn

(* The root notes the child's vote: what the vote was sent behind has been *)
(* handled.                                                                *)
LEMMA TwoRecvVote ==
    ASSUME N = 2, TwoInv, NEW n \in Node, NEW s \in Node \ {n}, RecvVote(n, s)
    PROVE  Pending' /\ Ends'
<1>1. TypeOK /\ VoteInv /\ Pending /\ Ends
    BY DEF TwoInv, VoteInv
<1>2. /\ net[s][n] # << >> /\ Packet(n, s).type = "VOTE_TERMINATION"
      /\ net' = Consumed(n, s) /\ UNCHANGED <<tree, jobFinished>>
    BY DEF RecvVote, Arrived, Packet, searchVars
<1>3. Undisturbed
    BY <1>1, <1>2, ConsumedKeeps DEF Undisturbed
<1>4. Keeps(Up, Up') /\ Keeps(Down, Down')
    BY <1>3, TwoNodes DEF Undisturbed, Up, Down
<1>5. Ends'
    BY <1>1, <1>2, <1>4, KeepEnds DEF Keeps, Still
<1>6. CASE n = 1
  <2>1. childSignal'[1] = childSignal[1] /\ terminationSignal'[0] = terminationSignal[0]
      BY <1>6, TwoNodes DEF RecvVote
  <2>. QED
      BY <1>1, <1>2, <1>3, <1>5, <2>1, KeepPending
<1>7. CASE n = 0
  <2>1. s = 1 /\ s \in Children(n)
      BY <1>7, TwoNodes
  <2>2. /\ childSignal'[1] = Packet(n, s).signal
        /\ terminationSignal'[0] = IF Packet(n, s).signal = 2 THEN 2 ELSE terminationSignal[0]
      BY <1>1, <1>7, <2>1, TwoNodes DEF RecvVote, TypeOK
  <2>3. Up \in Seq(Message) /\ Up # << >> /\ Packet(n, s) = Up[1] /\ Up' = Tail(Up) /\ Down' = Down
    <3>1. net[1][0] # << >> /\ net' = Consumed(0, 1) /\ 0 \in Node /\ 1 \in Node
        BY <1>2, <1>7, <2>1, TwoNodes
    <3>2. net'[1][0] = Tail(net[1][0]) /\ net'[0][1] = net[0][1]
        BY <1>1, <3>1, ConsumedType
    <3>3. net[1][0] \in Seq(Message) /\ Head(net[1][0]) = net[1][0][1]
        BY <1>1, <3>1 DEF TypeOK
    <3>. QED
        BY <1>7, <2>1, <3>1, <3>2, <3>3 DEF Up, Down, Packet
  <2>4. CASE Packet(n, s).signal = 1 /\ terminationSignal[0] # 2
    <3>1. PositiveAt(Up, 1) /\ PositiveIn(Up)
        BY <1>2, <2>3, <2>4 DEF PositiveAt, PositiveIn
    <3>2. Still /\ VoteLast(Up)
        BY <1>1, <2>4, <3>1 DEF Pending
    <3>3. NoWork(Up')
        BY <2>3, <3>1, <3>2, BehindVote
    <3>4. Still'
        BY <1>2, <2>3, <3>2 DEF Still
    <3>. QED
        BY <1>5, <3>3, <3>4, NoWorkIsCalm DEF Pending, Still
  <2>5. CASE ~(Packet(n, s).signal = 1 /\ terminationSignal[0] # 2)
    <3>1. Packet(n, s).signal \in {1, 2}
        BY <1>1, <1>2, ConsumedType DEF Message
    <3>. QED
        BY <1>5, <2>2, <2>5, <3>1 DEF Pending
  <2>. QED
      BY <2>4, <2>5
<1>. QED
    BY <1>6, <1>7, TwoNodes

(* The other handlers.  Work that the root takes was ahead of any vote;    *)
(* the child gets none after a positive vote, nor does anybody after the   *)
(* end.                                                                    *)
LEMMA TwoReceive ==
    ASSUME N = 2, TwoInv, NEW n \in Node, NEW s \in Node \ {n}, Receive(n, s)
    PROVE  Pending' /\ Ends'
<1>1. TypeOK /\ VoteInv /\ Pending /\ Ends
    BY DEF TwoInv, VoteInv
<1>2. \/ n = 0 /\ s = 1 /\ net[s][n] = Up
      \/ n = 1 /\ s = 0 /\ net[s][n] = Down
    BY TwoNodes DEF Up, Down
<1>3. ASSUME Undisturbed, childSignal'[1] = childSignal[1], UNCHANGED <<tree, jobFinished>>,
             terminationSignal'[0] # 2 => terminationSignal[0] # 2
      PROVE  Pending' /\ Ends'
  <2>1. Keeps(Up, Up') /\ Keeps(Down, Down')
      BY <1>3, TwoNodes DEF Undisturbed, Up, Down
  <2>. QED
      BY <1>1, <1>3, <2>1, KeepPending, KeepEnds DEF Keeps, Still
<1>4. CASE RecvWork(n, s)
  <2>1. /\ net[s][n] # << >> /\ Packet(n, s).type = "BB_PROBLEM_PACKET"
        /\ net' = Consumed(n, s) /\ tree' = [tree EXCEPT ![n] = Unpacked(n, s)]
        /\ UNCHANGED <<voteVars, jobFinished>>
      BY <1>4 DEF RecvWork, Arrived, Packet
  <2>2. Undisturbed
      BY <1>1, <2>1, ConsumedKeeps DEF Undisturbed
  <2>3. Keeps(Up, Up') /\ Keeps(Down, Down')
      BY <2>2, TwoNodes DEF Undisturbed, Up, Down
  <2>4. ~NoWork(net[s][n])
    <3>1. net[s][n] \in Seq(Message)
        BY <1>1 DEF TypeOK
    <3>2. 1 \in 1 .. Len(net[s][n]) /\ Packet(n, s) = net[s][n][1]
        BY <2>1, <3>1 DEF Packet
    <3>. QED
        BY <2>1, <3>2 DEF NoWork, WorkAt
  <2>5. ~jobFinished[0]
      BY <1>1, <1>2, <2>4 DEF Ends, Still
  <2>6. Ends'
      BY <1>1, <2>1, <2>3, <2>5, KeepEnds DEF Keeps
  <2>7. tree[1] = {} /\ NoWork(Down) => tree'[1] = {}
      BY <1>1, <1>2, <2>1, <2>4, TwoNodes DEF TypeOK
  <2>. QED
      BY <1>1, <2>1, <2>2, <2>6, <2>7, KeepPending DEF voteVars
<1>5. CASE RecvReject(n, s) \/ RecvWorkRequest(n, s)
  <2>1. net[s][n] # << >> /\ net' = Consumed(n, s) /\ UNCHANGED <<tree, voteVars, jobFinished>>
      BY <1>5 DEF RecvReject, RecvWorkRequest, Arrived, searchVars
  <2>2. Undisturbed
      BY <1>1, <2>1, ConsumedKeeps DEF Undisturbed
  <2>. QED
      BY <1>3, <2>1, <2>2 DEF voteVars
<1>6. CASE RecvOptimalSolution(n, s)
  <2>. DEFINE known == IF Packet(n, s).cost < best[n] THEN Packet(n, s).cost ELSE best[n]
              flood == ToAll(Neighbour(n), Optimal(known))
  <2>1. /\ net[s][n] # << >> /\ Packet(n, s).type = "OPTIMAL_SOLUTION_FOUND"
        /\ net' = Consumed(n, s) \/ net' = Post(Consumed(n, s), n, flood)
        /\ UNCHANGED <<tree, voteVars, jobFinished>>
      BY <1>6 DEF RecvOptimalSolution, Arrived, Packet
  <2>2. known \in Nat
    <3>1. Packet(n, s).cost \in Nat
        BY <1>1, <2>1, ConsumedType DEF Message
    <3>. QED
        BY <1>1, <3>1 DEF TypeOK
  <2>3. flood \in Outputs /\ Only(flood, {"OPTIMAL_SOLUTION_FOUND"})
    <3>. HIDE DEF known
    <3>. QED
        BY <2>2, MessageType, ToAllType, ToAllOnly DEF Optimal
  <2>. HIDE DEF flood
  <2>4. Undisturbed
      BY <1>1, <2>1, <2>3, ReceivedKeeps DEF Calm
  <2>. QED
      BY <1>3, <2>1, <2>4 DEF voteVars
<1>7. CASE RecvVote(n, s)
    BY <1>7, TwoRecvVote
<1>8. CASE RecvRestart(n, s)
  <2>. DEFINE out == ToAll(Children(n), Restart)
  <2>1. /\ net[s][n] # << >> /\ Packet(n, s).type = "RESTART_VOTING_TERMINATION"
        /\ net' = Post(Consumed(n, s), n, out) /\ UNCHANGED <<tree, jobFinished>>
        /\ childSignal' = ForgetVotes(n)
        /\ terminationSignal' = [terminationSignal EXCEPT ![n] = 0]
      BY <1>8 DEF RecvRestart, Arrived, Packet, searchVars
  <2>2. n = 1
    <3>1. net[s][n] \in Seq(Message) /\ Head(net[s][n]).type \in Restarts
        BY <1>1, <2>1 DEF TypeOK, Packet, Restarts
    <3>2. Count(net[s][n], Restarts) # 0
      <4>1. /\ Count(Tail(net[s][n]), Restarts) \in Nat
            /\ Count(net[s][n], Restarts) = 1 + Count(Tail(net[s][n]), Restarts)
        <5>1. Tail(net[s][n]) \in Seq(Message)
            BY <2>1, <3>1
        <5>2. Count(Tail(net[s][n]), Restarts) \in Nat
            BY <5>1, CountType
        <5>. QED
            BY <2>1, <3>1, <5>2, CountTail
      <4>. QED
          BY <4>1
    <3>3. s \in Node /\ n # Root
        BY <1>1, <3>2 DEF VoteInv, OnlyParentsRestart
    <3>. QED
        BY <1>2, <3>3, TwoNodes
  <2>3. out \in Outputs /\ Only(out, Calm)
      BY MessageType, ToAllType, ToAllOnly DEF Restart, Calm
  <2>. HIDE DEF out
  <2>4. Undisturbed
      BY <1>1, <2>1, <2>3, ReceivedKeeps
  <2>5. childSignal'[1] = childSignal[1] /\ terminationSignal'[0] = terminationSignal[0]
      BY <1>1, <2>1, <2>2, TwoNodes DEF ForgetVotes, TypeOK
  <2>. QED
      BY <1>3, <2>1, <2>4, <2>5
<1>9. CASE RecvTermination(n, s)
  <2>. DEFINE out == ToAll(Children(n), Terminate)
  <2>1. /\ net[s][n] # << >> /\ Packet(n, s).type = "TERMINATION_SIGNAL"
        /\ net' = Post(Consumed(n, s), n, out) /\ UNCHANGED <<tree, voteVars>>
        /\ jobFinished' = [jobFinished EXCEPT ![n] = TRUE]
      BY <1>9 DEF RecvTermination, Arrived, Packet, searchVars
  <2>2. ~NoEnd(net[s][n])
    <3>1. net[s][n] \in Seq(Message)
        BY <1>1 DEF TypeOK
    <3>2. 1 \in 1 .. Len(net[s][n]) /\ Packet(n, s) = net[s][n][1]
        BY <2>1, <3>1 DEF Packet
    <3>. QED
        BY <2>1, <3>2 DEF NoEnd
  <2>3. n = 1 /\ jobFinished[0]
      BY <1>1, <1>2, <2>2 DEF Ends
  <2>4. out \in Outputs /\ Only(out, Calm)
    <3>1. \A d \in Node : out[d] = << >>
        BY <2>3, TwoNodes DEF ToAll
    <3>. QED
        BY <3>1, MessageType, ToAllType DEF Only
  <2>. HIDE DEF out
  <2>5. Undisturbed
      BY <1>1, <2>1, <2>4, ReceivedKeeps
  <2>6. Keeps(Up, Up') /\ Keeps(Down, Down')
      BY <2>5, TwoNodes DEF Undisturbed, Up, Down
  <2>7. jobFinished'[0]
      BY <1>1, <2>1, <2>3, TwoNodes DEF TypeOK
  <2>8. Pending'
      BY <1>1, <2>1, <2>5, KeepPending DEF voteVars
  <2>9. Ends'
      BY <1>1, <2>1, <2>3, <2>6, <2>7 DEF Ends, Still, Keeps
  <2>. QED
      BY <2>8, <2>9
<1>. QED
    BY <1>4, <1>5, <1>6, <1>7, <1>8, <1>9 DEF Receive

LEMMA TwoStep == N = 2 /\ TwoInv /\ [Next]_vars => TwoInv'
<1>. SUFFICES ASSUME N = 2, TwoInv, [Next]_vars PROVE Pending' /\ Ends'
    BY VoteStep DEF TwoInv
<1>1. ASSUME UNCHANGED <<tree, voteVars, jobFinished, net>> PROVE Pending' /\ Ends'
    BY <1>1 DEF TwoInv, Pending, Ends, Still, Up, Down, voteVars
<1>2. ASSUME NEW n \in Node, Trigger(n) PROVE Pending' /\ Ends'
    BY <1>1, <1>2 DEF Trigger, searchVars
<1>3. CASE UNCHANGED vars
    BY <1>1, <1>3 DEF vars, searchVars
<1>. QED
    BY <1>2, <1>3, TwoExplore, TwoIdle, TwoReceive DEF Next, Finished

LEMMA TwoInit == N = 2 /\ Init => TwoInv
<1>. SUFFICES ASSUME N = 2, Init PROVE TwoInv
    OBVIOUS
<1>1. Up = << >> /\ Down = << >> /\ childSignal[1] = 0 /\ ~jobFinished[0] /\ ~jobFinished[1]
    BY TwoNodes DEF Init, Up, Down
<1>. QED
    BY <1>1, VoteInit
       DEF TwoInv, Pending, Ends, WorkRecalled, PositiveIn, NoEnd

(* With two nodes, and any search tree, the root announces the end only    *)
(* when no subproblem is open, in a packet neither.  With three nodes it   *)
(* does not: a restart of the last round may reach a node after it has     *)
(* given work away and take back the mark that this left on its vote.      *)
THEOREM TwoEndSound ==
    ASSUME N = 2
    PROVE  Spec => []TerminationSound
<1>1. TwoInv /\ ToOthers => TerminationSound
  <2>. SUFFICES ASSUME TwoInv, ToOthers, jobFinished[0] PROVE OpenTasks = {}
      BY TwoNodes DEF TerminationSound
  <2>1. tree[0] = {} /\ tree[1] = {} /\ NoWork(Up) /\ NoWork(Down)
      BY DEF TwoInv, Ends, Still
  <2>2. ASSUME NEW a \in Node, NEW b \in Node PROVE NoWork(net[a][b])
    <3>1. net[0][0] = << >> /\ net[1][1] = << >>
        BY TwoNodes DEF ToOthers
    <3>. QED
        BY <2>1, <3>1, TwoNodes DEF NoWork, Up, Down
  <2>3. ASSUME NEW a \in Node, NEW b \in Node PROVE Shares(net[a][b]) = {}
      BY <2>2 DEF Shares, Positions, NoWork, WorkAt
  <2>4. \A n \in Node : tree[n] = {}
      BY <2>1, TwoNodes
  <2>. QED
      BY <2>3, <2>4 DEF OpenTasks
<1>2. Init => TwoInv
    BY TwoInit
<1>3. TwoInv /\ [Next]_vars => TwoInv'
    BY TwoStep
<1>. QED
    BY <1>1, <1>2, <1>3, OthersInvariant, PTL DEF Spec

-----------------------------------------------------------------------------
(* The refinement.  What a packet holds, and what nodes hold.              *)

Works == "BB_PROBLEM_PACKET"
Schedules == "OPTIMAL_SOLUTION_FOUND"
Controls == {"WORK_REQUEST", "REJECT_WORK_REQUEST", "VOTE_TERMINATION",
             "RESTART_VOTING_TERMINATION", "TERMINATION_SIGNAL"}

(* What place i of channel q holds, and what place i from s to d holds:    *)
(* place 0 of a node to itself is its pool.                                *)
Parcel(q, i) == IF i \in 1 .. Len(q) /\ q[i].type = Works THEN q[i].tasks ELSE {}
Held(tr, nw, s, d, i) ==
    IF i = 0 THEN (IF s = d THEN tr[s] ELSE {}) ELSE Parcel(nw[s][d], i)

Open(tr, nw) == {t \in Task : \E s, d \in Node : \E i \in Nat : t \in Held(tr, nw, s, d, i)}

(* Some schedule lies below both. *)
Overlap(t, u) == Below[t] \cap Below[u] # {}

(* Two subproblems that are open, here or on their way, have no schedule   *)
(* in common.                                                              *)
Alone(tr, nw, s, d, i, t) ==
    \A x, y \in Node : \A j \in Nat : \A u \in Held(tr, nw, x, y, j) :
        Overlap(t, u) => x = s /\ y = d /\ j = i /\ u = t
Apart(tr, nw) ==
    \A s, d \in Node : \A i \in Nat : \A t \in Held(tr, nw, s, d, i) :
        Alone(tr, nw, s, d, i, t)

Pools == [Node -> SUBSET Task]
Nets == [Node -> Outputs]

-----------------------------------------------------------------------------
(* Places of a channel.                                                    *)

LEMMA ParcelAppend ==
    ASSUME NEW q \in Seq(Message), NEW r \in Seq(Message), NEW i \in Nat \ {0}
    PROVE  Parcel(q \o r, i) = IF i <= Len(q) THEN Parcel(q, i) ELSE Parcel(r, i - Len(q))
<1>1. /\ Len(q) \in Nat /\ Len(r) \in Nat /\ Len(q \o r) = Len(q) + Len(r)
      /\ \A j \in 1 .. Len(q) + Len(r) :
            (q \o r)[j] = IF j <= Len(q) THEN q[j] ELSE r[j - Len(q)]
    BY ConcatProperties
<1>2. CASE i <= Len(q)
    BY <1>1, <1>2 DEF Parcel
<1>3. CASE ~(i <= Len(q)) /\ i <= Len(q) + Len(r)
    BY <1>1, <1>3 DEF Parcel
<1>4. CASE ~(i <= Len(q) + Len(r))
    BY <1>1, <1>4 DEF Parcel
<1>. QED
    BY <1>1, <1>2, <1>3, <1>4

LEMMA ParcelTail ==
    ASSUME NEW q \in Seq(Message), q # << >>, NEW i \in Nat \ {0}
    PROVE  Parcel(Tail(q), i) = Parcel(q, i + 1)
<1>1. /\ Len(q) \in Nat \ {0} /\ Len(Tail(q)) = Len(q) - 1
      /\ \A j \in 1 .. Len(q) - 1 : Tail(q)[j] = q[j + 1]
    BY HeadTailProperties
<1>. QED
    BY <1>1 DEF Parcel

LEMMA ParcelType ==
    ASSUME NEW q \in Seq(Message), NEW i
    PROVE  Parcel(q, i) \subseteq Task
<1>1. ASSUME i \in 1 .. Len(q) PROVE q[i] \in Message
    BY <1>1
<1>. QED
    BY <1>1 DEF Parcel, Message, Works

LEMMA HeldType ==
    ASSUME NEW tr \in Pools, NEW nw \in Nets, NEW s \in Node, NEW d \in Node, NEW i
    PROVE  Held(tr, nw, s, d, i) \subseteq Task
<1>1. tr[s] \subseteq Task /\ nw[s][d] \in Seq(Message)
    BY DEF Pools, Nets, Outputs
<1>. QED
    BY <1>1, ParcelType DEF Held

LEMMA OnePlace ==
    ASSUME NEW tr, NEW nw, Apart(tr, nw),
           NEW s1 \in Node, NEW d1 \in Node, NEW i1 \in Nat,
           NEW s2 \in Node, NEW d2 \in Node, NEW i2 \in Nat,
           NEW t \in Held(tr, nw, s1, d1, i1), NEW u \in Held(tr, nw, s2, d2, i2),
           Overlap(t, u)
    PROVE  s1 = s2 /\ d1 = d2 /\ i1 = i2 /\ t = u
<1>1. Alone(tr, nw, s1, d1, i1, t)
    BY DEF Apart
<1>. QED
    BY <1>1 DEF Alone

(* Packets without work make no difference. *)
LEMMA QuietPlaces ==
    ASSUME NEW tr \in Pools, NEW nw \in Nets, NEW n \in Node, NEW out \in Outputs,
           NEW types, Only(out, types), Works \notin types,
           NEW after, Sends(nw, n, out, after)
    PROVE  \A s, d \in Node : \A i \in Nat : Held(tr, after, s, d, i) = Held(tr, nw, s, d, i)
<1>. SUFFICES ASSUME NEW s \in Node, NEW d \in Node, NEW i \in Nat \ {0}
              PROVE  Parcel(after[s][d], i) = Parcel(nw[s][d], i)
    BY DEF Held
<1>. DEFINE q == nw[s][d]
            r == out[d]
<1>1. q \in Seq(Message) /\ r \in Seq(Message)
    BY DEF Nets, Outputs
<1>2. \A j \in 1 .. Len(r) : r[j].type # Works
    BY DEF Only
<1>3. after[s][d] = IF s = n THEN q \o r ELSE q
    BY DEF Sends
<1>. HIDE DEF q, r
<1>4. Len(q) \in Nat
    BY <1>1
<1>5. \A j : Parcel(r, j) = {}
    BY <1>2 DEF Parcel
<1>6. ~(i <= Len(q)) => Parcel(q, i) = {}
    BY <1>4 DEF Parcel
<1>7. Parcel(q \o r, i) = Parcel(q, i)
    BY <1>1, <1>5, <1>6, ParcelAppend
<1>8. Parcel(after[s][d], i) = Parcel(q, i)
    BY <1>3, <1>7
<1>. QED
    BY <1>8 DEF q

(* Pools and networks that hold the same at every place. *)
LEMMA SameHeld ==
    ASSUME NEW tr, NEW nw, NEW tr2, NEW nw2,
           \A s, d \in Node : \A i \in Nat : Held(tr2, nw2, s, d, i) = Held(tr, nw, s, d, i)
    PROVE  /\ Apart(tr, nw) => Apart(tr2, nw2)
           /\ Open(tr2, nw2) = Open(tr, nw)
<1>1. Open(tr2, nw2) = Open(tr, nw)
    BY DEF Open
<1>2. Apart(tr, nw) => Apart(tr2, nw2)
    BY DEF Apart, Alone
<1>. QED
    BY <1>1, <1>2

(* A packet leaves its channel and the others move up by one place. *)
LEMMA ConsumedHeld ==
    ASSUME TypeOK, NEW n \in Node, NEW s \in Node, net[s][n] # << >>, NEW tr
    PROVE  \A a, b \in Node : \A i \in Nat :
              Held(tr, Consumed(n, s), a, b, i) =
                 Held(tr, net, a, b, IF a = s /\ b = n /\ i # 0 THEN i + 1 ELSE i)
<1>. SUFFICES ASSUME NEW a \in Node, NEW b \in Node, NEW i \in Nat \ {0}
              PROVE  Parcel(Consumed(n, s)[a][b], i) =
                        Parcel(net[a][b], IF a = s /\ b = n THEN i + 1 ELSE i)
    BY DEF Held
<1>. DEFINE q == net[a][b]
<1>1. q \in Seq(Message)
    BY DEF TypeOK
<1>2. Consumed(n, s)[a][b] = IF a = s /\ b = n THEN Tail(q) ELSE q
    BY ConsumedType
<1>3. a = s /\ b = n => q # << >>
    OBVIOUS
<1>. HIDE DEF q
<1>4. q # << >> => Parcel(Tail(q), i) = Parcel(q, i + 1)
    BY <1>1, ParcelTail
<1>5. Parcel(Consumed(n, s)[a][b], i) = Parcel(q, IF a = s /\ b = n THEN i + 1 ELSE i)
    BY <1>2, <1>3, <1>4
<1>. QED
    BY <1>5 DEF q

(* The pools once n has unpacked what its first packet from s carries.     *)
Unpack(n, s) == [tree EXCEPT ![n] = @ \cup Parcel(net[s][n], 1)]

(* Where a subproblem was before: in the packet, one place further, or     *)
(* where it is.                                                            *)
CameFrom(n, s, a, b, i, t) == IF i = 0 /\ a = n /\ b = n /\ t \notin tree[n] THEN s ELSE a
CameAt(n, s, a, b, i, t) ==
    CASE i = 0 /\ a = n /\ b = n /\ t \notin tree[n] -> 1
      [] i # 0 /\ a = s /\ b = n -> i + 1
      [] OTHER -> i

LEMMA UnpackedFrom ==
    ASSUME TypeOK, NEW n \in Node, NEW s \in Node, net[s][n] # << >>,
           NEW a \in Node, NEW b \in Node, NEW i \in Nat,
           NEW t \in Held(Unpack(n, s), Consumed(n, s), a, b, i)
    PROVE  t \in Held(tree, net, CameFrom(n, s, a, b, i, t), b, CameAt(n, s, a, b, i, t))
<1>1. CASE i # 0
  <2>1. Held(Unpack(n, s), Consumed(n, s), a, b, i) = Held(tree, Consumed(n, s), a, b, i)
      BY <1>1 DEF Held
  <2>2. Held(tree, Consumed(n, s), a, b, i)
           = Held(tree, net, a, b, IF a = s /\ b = n /\ i # 0 THEN i + 1 ELSE i)
      BY ConsumedHeld
  <2>. QED
      BY <1>1, <2>1, <2>2 DEF CameFrom, CameAt
<1>2. CASE i = 0
  <2>1. a = b /\ t \in Unpack(n, s)[a]
      BY <1>2 DEF Held
  <2>2. Unpack(n, s)[a] = IF a = n THEN tree[n] \cup Parcel(net[s][n], 1) ELSE tree[a]
      BY DEF Unpack, TypeOK
  <2>. QED
      BY <1>2, <2>1, <2>2 DEF CameFrom, CameAt, Held
<1>. QED
    BY <1>1, <1>2

LEMMA UnpackHeld ==
    ASSUME TypeOK, NEW n \in Node, NEW s \in Node, net[s][n] # << >>
    PROVE  /\ Apart(tree, net) => Apart(Unpack(n, s), Consumed(n, s))
           /\ Open(Unpack(n, s), Consumed(n, s)) = Open(tree, net)
<1>1. ASSUME Apart(tree, net),
             NEW s1 \in Node, NEW d1 \in Node, NEW s2 \in Node, NEW d2 \in Node,
             NEW i1 \in Nat, NEW i2 \in Nat,
             NEW t \in Held(Unpack(n, s), Consumed(n, s), s1, d1, i1),
             NEW u \in Held(Unpack(n, s), Consumed(n, s), s2, d2, i2),
             Overlap(t, u)
      PROVE  s1 = s2 /\ d1 = d2 /\ i1 = i2 /\ t = u
  <2>. DEFINE x1 == CameFrom(n, s, s1, d1, i1, t)
              x2 == CameFrom(n, s, s2, d2, i2, u)
              j1 == CameAt(n, s, s1, d1, i1, t)
              j2 == CameAt(n, s, s2, d2, i2, u)
  <2>1. t \in Held(tree, net, x1, d1, j1) /\ u \in Held(tree, net, x2, d2, j2)
      BY UnpackedFrom
  <2>2. x1 \in Node /\ x2 \in Node /\ j1 \in Nat /\ j2 \in Nat
      BY DEF CameFrom, CameAt
  <2>3. x1 = x2 /\ j1 = j2 /\ d1 = d2 /\ t = u
    <3>. HIDE DEF x1, x2, j1, j2
    <3>1. Alone(tree, net, x1, d1, j1, t)
        BY <1>1, <2>1, <2>2 DEF Apart
    <3>. QED
        BY <1>1, <2>1, <2>2, <3>1 DEF Alone
  <2>4. (i1 = 0 => s1 = d1) /\ (i2 = 0 => s2 = d2)
      BY DEF Held
  <2>. QED
      BY <2>3, <2>4 DEF CameFrom, CameAt
<1>2. Open(Unpack(n, s), Consumed(n, s)) \subseteq Open(tree, net)
  <2>. SUFFICES ASSUME NEW a \in Node, NEW b \in Node, NEW i \in Nat,
                       NEW t \in Held(Unpack(n, s), Consumed(n, s), a, b, i)
                PROVE  \E x, y \in Node : \E j \in Nat : t \in Held(tree, net, x, y, j)
      BY DEF Open
  <2>1. t \in Held(tree, net, CameFrom(n, s, a, b, i, t), b, CameAt(n, s, a, b, i, t))
      BY UnpackedFrom
  <2>2. CameFrom(n, s, a, b, i, t) \in Node /\ CameAt(n, s, a, b, i, t) \in Nat
      BY DEF CameFrom, CameAt
  <2>. QED
      BY <2>1, <2>2
<1>3. Open(tree, net) \subseteq Open(Unpack(n, s), Consumed(n, s))
  <2>. SUFFICES ASSUME NEW a \in Node, NEW b \in Node, NEW i \in Nat,
                       NEW t \in Held(tree, net, a, b, i)
                PROVE  \E x, y \in Node : \E j \in Nat :
                           t \in Held(Unpack(n, s), Consumed(n, s), x, y, j)
      BY DEF Open
  <2>1. CASE i = 0
    <3>1. a = b /\ t \in Unpack(n, s)[a]
        BY <2>1 DEF Held, Unpack, TypeOK
    <3>. QED
        BY <2>1, <3>1 DEF Held
  <2>2. CASE i = 1 /\ a = s /\ b = n
    <3>1. t \in Unpack(n, s)[n]
        BY <2>2 DEF Held, Unpack, TypeOK
    <3>2. t \in Held(Unpack(n, s), Consumed(n, s), n, n, 0)
        BY <3>1 DEF Held
    <3>. QED
        BY <3>2
  <2>3. CASE i # 0 /\ ~(i = 1 /\ a = s /\ b = n)
    <3>. DEFINE j == IF a = s /\ b = n THEN i - 1 ELSE i
    <3>1. /\ j \in Nat \ {0}
          /\ i = IF a = s /\ b = n /\ j # 0 THEN j + 1 ELSE j
        BY <2>3
    <3>. HIDE DEF j
    <3>2. Held(tree, Consumed(n, s), a, b, j)
             = Held(tree, net, a, b, IF a = s /\ b = n /\ j # 0 THEN j + 1 ELSE j)
        BY <3>1, ConsumedHeld
    <3>3. t \in Held(Unpack(n, s), Consumed(n, s), a, b, j)
        BY <3>1, <3>2 DEF Held
    <3>. QED
        BY <3>1, <3>3
  <2>. QED
      BY <2>1, <2>2, <2>3
<1>. QED
    BY <1>1, <1>2, <1>3 DEF Apart, Alone

-----------------------------------------------------------------------------
(* Sharing: what n gives to d travels in one new packet.                   *)

Given(n, share, d) ==
    UNION {share[i] : i \in {j \in DOMAIN share : pendingWorkRequest[n][j] = d}}

(* The requesters and the donor divide the donor's pool between them.      *)
LEMMA GivenParts ==
    ASSUME TypeOK, NEW n \in Node, NEW share \in Sharings(n)
    PROVE  /\ \A d \in Node : Given(n, share, d) \subseteq tree[n]
           /\ \A d \in Node : Given(n, share, d) \cap Kept(n, share) = {}
           /\ \A d, e \in Node : d # e => Given(n, share, d) \cap Given(n, share, e) = {}
           /\ \A t \in tree[n] : t \in Kept(n, share) \/ \E d \in Node : t \in Given(n, share, d)
<1>1. PICK k \in 0 .. Len(pendingWorkRequest[n]) :
         /\ share \in [1 .. k -> SUBSET tree[n]]
         /\ \A i, j \in DOMAIN share : i # j => share[i] \cap share[j] = {}
    BY ZenonT(30) DEF Sharings
<1>2. /\ pendingWorkRequest[n] \in Seq(Node)
      /\ \A i \in 1 .. k : pendingWorkRequest[n][i] \in Node
      /\ DOMAIN share = 1 .. k
    BY <1>1 DEF TypeOK
<1>3. \A t \in tree[n] : t \in Kept(n, share) \/ \E d \in Node : t \in Given(n, share, d)
  <2>. SUFFICES ASSUME NEW t \in tree[n], NEW i \in 1 .. k, t \in share[i]
                PROVE  \E d \in Node : t \in Given(n, share, d)
      BY <1>2 DEF Kept
  <2>1. t \in Given(n, share, pendingWorkRequest[n][i])
      BY <1>2 DEF Given
  <2>. QED
      BY <1>2, <2>1
<1>4. \A d, e \in Node : d # e => Given(n, share, d) \cap Given(n, share, e) = {}
    BY <1>1 DEF Given
<1>5. \A d \in Node : /\ Given(n, share, d) \subseteq tree[n]
                       /\ Given(n, share, d) \cap Kept(n, share) = {}
    BY <1>1, <1>2 DEF Given, Kept
<1>. QED
    BY <1>3, <1>4, <1>5

LEMMA SharedParcels ==
    ASSUME TypeOK, NEW n \in Node, NEW share \in Sharings(n), NEW d \in Node, NEW i \in Nat \ {0}
    PROVE  Parcel(Shared(n, share)[d], i) = IF i = 1 THEN Given(n, share, d) ELSE {}
<1>1. CASE \E j \in DOMAIN share : pendingWorkRequest[n][j] = d
  <2>1. Shared(n, share)[d] = <<Work(Given(n, share, d))>>
      BY <1>1 DEF Shared, Given
  <2>2. /\ Work(Given(n, share, d)).type = Works
        /\ Work(Given(n, share, d)).tasks = Given(n, share, d)
      BY DEF Work, Works
  <2>. QED
      BY <2>1, <2>2 DEF Parcel
<1>2. CASE ~\E j \in DOMAIN share : pendingWorkRequest[n][j] = d
  <2>1. Shared(n, share)[d] = << >> /\ Given(n, share, d) = {}
      BY <1>2 DEF Shared, Given
  <2>. QED
      BY <2>1 DEF Parcel
<1>. QED
    BY <1>1, <1>2

(* The pools and the network once n has served share. *)
Keep(n, share) == [tree EXCEPT ![n] = Kept(n, share)]
Serving(n, share) == Post(net, n, Shared(n, share))
NewPlace(n, s, d, i) == s = n /\ i = Len(net[n][d]) + 1

LEMMA ServedHeld ==
    ASSUME TypeOK, NEW n \in Node, NEW share \in Sharings(n),
           NEW s \in Node, NEW d \in Node, NEW i \in Nat
    PROVE  Held(Keep(n, share), Serving(n, share), s, d, i) =
              IF NewPlace(n, s, d, i) THEN Given(n, share, d)
              ELSE IF i = 0 /\ s = n /\ d = n THEN Kept(n, share)
              ELSE Held(tree, net, s, d, i)
<1>1. net \in Nets /\ net[n][d] \in Seq(Message) /\ Len(net[n][d]) \in Nat
    BY SMTT(30) DEF TypeOK, Nets, Outputs
<1>2. CASE i = 0
  <2>1. ~NewPlace(n, s, d, i)
      BY <1>1, <1>2 DEF NewPlace
  <2>. QED
      BY <1>2, <2>1 DEF Held, Keep, TypeOK
<1>3. CASE i # 0
  <2>1. Shared(n, share) \in Outputs
      BY SharingType
  <2>2. Sends(net, n, Shared(n, share), Serving(n, share))
      BY <1>1, <2>1, PostType DEF Serving, Nets
  <2>3. CASE s # n
      BY <1>3, <2>2, <2>3 DEF Held, NewPlace, Sends
  <2>4. CASE s = n
    <3>. DEFINE q == net[n][d]
                r == Shared(n, share)[d]
    <3>1. q \in Seq(Message) /\ r \in Seq(Message) /\ Serving(n, share)[n][d] = q \o r
        BY <1>1, <2>1, <2>2 DEF Sends, Outputs
    <3>2. Held(Keep(n, share), Serving(n, share), s, d, i) = Parcel(q \o r, i)
        BY <1>3, <2>4, <3>1 DEF Held
    <3>3. Held(tree, net, s, d, i) = Parcel(q, i)
        BY <1>3, <2>4 DEF Held
    <3>4. \A j \in Nat \ {0} : Parcel(r, j) = IF j = 1 THEN Given(n, share, d) ELSE {}
        BY SharedParcels
    <3>5. NewPlace(n, s, d, i) <=> i = Len(q) + 1
        BY <2>4 DEF NewPlace
    <3>. HIDE DEF q, r
    <3>6. Parcel(q \o r, i) = IF i <= Len(q) THEN Parcel(q, i) ELSE Parcel(r, i - Len(q))
        BY <1>3, <3>1, ParcelAppend
    <3>7. Len(q) \in Nat /\ (~(i <= Len(q)) => Parcel(q, i) = {})
        BY <3>1 DEF Parcel
    <3>8. Parcel(q \o r, i) = IF i = Len(q) + 1 THEN Given(n, share, d) ELSE Parcel(q, i)
      <4>1. CASE i <= Len(q)
          BY <3>6, <3>7, <4>1
      <4>2. CASE ~(i <= Len(q))
        <5>1. i - Len(q) \in Nat \ {0} /\ (i - Len(q) = 1 <=> i = Len(q) + 1)
            BY <3>7, <4>2
        <5>2. Parcel(r, i - Len(q)) = IF i - Len(q) = 1 THEN Given(n, share, d) ELSE {}
            BY <3>4, <5>1
        <5>. QED
            BY <3>6, <3>7, <4>2, <5>1, <5>2
      <4>. QED
          BY <4>1, <4>2
    <3>. QED
        BY <1>3, <3>2, <3>3, <3>5, <3>8
  <2>. QED
      BY <2>3, <2>4
<1>. QED
    BY <1>2, <1>3

LEMMA ServeHeld ==
    ASSUME TypeOK, NEW n \in Node, NEW share \in Sharings(n)
    PROVE  /\ Apart(tree, net) => Apart(Keep(n, share), Serving(n, share))
           /\ Open(Keep(n, share), Serving(n, share)) = Open(tree, net)
<1>. DEFINE tr == Keep(n, share)
            nw == Serving(n, share)
            Moves(s, d, i) == NewPlace(n, s, d, i)
            From(s, d, i) == IF Moves(s, d, i) THEN n ELSE d
            At(s, d, i) == IF Moves(s, d, i) THEN 0 ELSE i
<1>1. ASSUME NEW s \in Node, NEW d \in Node, NEW i \in Nat, NEW t \in Held(tr, nw, s, d, i)
      PROVE  /\ t \in Held(tree, net, s, From(s, d, i), At(s, d, i))
             /\ From(s, d, i) \in Node /\ At(s, d, i) \in Nat
             /\ IF Moves(s, d, i) THEN t \in Given(n, share, d)
                ELSE i = 0 /\ s = n /\ d = n => t \in Kept(n, share)
  <2>1. Held(tr, nw, s, d, i) =
              IF NewPlace(n, s, d, i) THEN Given(n, share, d)
              ELSE IF i = 0 /\ s = n /\ d = n THEN Kept(n, share)
              ELSE Held(tree, net, s, d, i)
      BY ServedHeld
  <2>2. CASE Moves(s, d, i)
    <3>1. t \in Given(n, share, d) /\ t \in tree[n] /\ s = n
        BY <2>1, <2>2, GivenParts DEF NewPlace
    <3>. QED
        BY <2>2, <3>1 DEF Held
  <2>3. CASE ~Moves(s, d, i)
    <3>1. i = 0 /\ s = n /\ d = n => t \in Kept(n, share) /\ t \in Held(tree, net, s, d, i)
        BY <2>1, <2>3, SharingType DEF Held
    <3>. QED
        BY <2>1, <2>3, <3>1
  <2>. QED
      BY <2>2, <2>3
<1>2. ASSUME Apart(tree, net),
             NEW s \in Node, NEW d \in Node, NEW i \in Nat, NEW t \in Held(tr, nw, s, d, i),
             NEW x \in Node, NEW y \in Node, NEW j \in Nat, NEW u \in Held(tr, nw, x, y, j),
             Overlap(t, u)
      PROVE  x = s /\ y = d /\ j = i /\ u = t
  <2>. DEFINE d1 == From(s, d, i)
              d2 == From(x, y, j)
              i1 == At(s, d, i)
              i2 == At(x, y, j)
  <2>1. t \in Held(tree, net, s, d1, i1) /\ u \in Held(tree, net, x, d2, i2)
      BY <1>1
  <2>2. d1 \in Node /\ d2 \in Node /\ i1 \in Nat /\ i2 \in Nat
      BY <1>1
  <2>3. s = x /\ d1 = d2 /\ i1 = i2 /\ t = u
    <3>. HIDE DEF d1, d2, i1, i2, tr, nw
    <3>1. Alone(tree, net, s, d1, i1, t)
        BY <1>2, <2>1, <2>2 DEF Apart
    <3>. QED
        BY <1>2, <2>1, <2>2, <3>1 DEF Alone
  <2>4. /\ Moves(s, d, i) => s = n /\ t \in Given(n, share, d)
        /\ ~Moves(s, d, i) => (i = 0 /\ s = n /\ d = n => t \in Kept(n, share))
        /\ Moves(x, y, j) => x = n /\ u \in Given(n, share, y)
        /\ ~Moves(x, y, j) => (j = 0 /\ x = n /\ y = n => u \in Kept(n, share))
    <3>. HIDE DEF tr, nw, From, At
    <3>. QED
        BY <1>1 DEF NewPlace
  <2>5. CASE Moves(s, d, i) /\ Moves(x, y, j)
      BY <2>3, <2>4, <2>5, GivenParts DEF NewPlace
  <2>6. CASE ~Moves(s, d, i) /\ ~Moves(x, y, j)
      BY <2>3, <2>6
  <2>7. CASE Moves(s, d, i) /\ ~Moves(x, y, j)
    <3>1. u \in Kept(n, share) /\ t \in Given(n, share, d)
        BY <2>3, <2>4, <2>7
    <3>. QED
        BY <2>3, <3>1, GivenParts
  <2>8. CASE ~Moves(s, d, i) /\ Moves(x, y, j)
    <3>1. t \in Kept(n, share) /\ u \in Given(n, share, y)
        BY <2>3, <2>4, <2>8
    <3>. QED
        BY <2>3, <3>1, GivenParts
  <2>. QED
      BY <2>5, <2>6, <2>7, <2>8
<1>3. Apart(tree, net) => Apart(tr, nw)
  <2>. HIDE DEF tr, nw
  <2>. QED
      BY <1>2 DEF Apart, Alone
<1>4. Open(tr, nw) \subseteq Open(tree, net)
  <2>. HIDE DEF tr, nw, From, At
  <2>. QED
      BY <1>1 DEF Open
<1>5. Open(tree, net) \subseteq Open(tr, nw)
  <2>. SUFFICES ASSUME NEW s \in Node, NEW d \in Node, NEW i \in Nat,
                       NEW t \in Held(tree, net, s, d, i)
                PROVE  \E x, y \in Node : \E j \in Nat : t \in Held(tr, nw, x, y, j)
      BY DEF Open
  <2>1. \A x, y \in Node : \A j \in Nat :
           Held(tr, nw, x, y, j) =
              IF NewPlace(n, x, y, j) THEN Given(n, share, y)
              ELSE IF j = 0 /\ x = n /\ y = n THEN Kept(n, share)
              ELSE Held(tree, net, x, y, j)
      BY ServedHeld
  <2>2. \A x, y \in Node : net[x][y] \in Seq(Message) /\ Len(net[x][y]) \in Nat
      BY DEF TypeOK
  <2>. HIDE DEF tr, nw
  <2>3. CASE i = 0 /\ s = n /\ d = n
    <3>1. t \in tree[n]
        BY <2>3 DEF Held
    <3>2. CASE t \in Kept(n, share)
      <4>1. ~NewPlace(n, n, n, 0)
          BY <2>2 DEF NewPlace
      <4>. QED
          BY <2>1, <3>2, <4>1
    <3>3. ASSUME NEW e \in Node, t \in Given(n, share, e)
          PROVE  \E x, y \in Node : \E j \in Nat : t \in Held(tr, nw, x, y, j)
      <4>1. NewPlace(n, n, e, Len(net[n][e]) + 1) /\ Len(net[n][e]) + 1 \in Nat
          BY <2>2 DEF NewPlace
      <4>2. t \in Held(tr, nw, n, e, Len(net[n][e]) + 1)
          BY <2>1, <3>3, <4>1
      <4>. QED
          BY <4>1, <4>2
    <3>. QED
        BY <3>1, <3>2, <3>3, GivenParts
  <2>4. CASE ~(i = 0 /\ s = n /\ d = n)
    <3>1. CASE NewPlace(n, s, d, i)
      <4>1. i = Len(net[s][d]) + 1 /\ Parcel(net[s][d], i) = {}
          BY <2>2, <3>1 DEF NewPlace, Parcel
      <4>. QED
          BY <2>2, <4>1 DEF Held
    <3>. QED
        BY <2>1, <2>4, <3>1
  <2>. QED
      BY <2>3, <2>4
<1>. QED
    BY <1>3, <1>4, <1>5

-----------------------------------------------------------------------------
(* Exploring: n takes t from its pool and may put the children D back.     *)

LEMMA OverlapFacts ==
    /\ \A t \in Task : Overlap(t, t)
    /\ \A t \in Task : \A D \in Branch[t] : \A d \in D :
          /\ \A u : Overlap(d, u) => Overlap(t, u)
          /\ \A u : Overlap(u, d) => Overlap(u, t)
          /\ \A e \in D : Overlap(d, e) => d = e
BY BelowAssumption DEF Overlap

Replace(tr, n, t, D) == [tr EXCEPT ![n] = (tr[n] \ {t}) \cup D]

LEMMA ReplaceHeld ==
    ASSUME NEW tr \in Pools, NEW nw \in Nets, Apart(tr, nw),
           NEW n \in Node, NEW t \in tr[n], NEW D \in {{}} \cup Branch[t]
    PROVE  /\ Apart(Replace(tr, n, t, D), nw)
           /\ Open(Replace(tr, n, t, D), nw) = (Open(tr, nw) \ {t}) \cup D
<1>. DEFINE tr2 == Replace(tr, n, t, D)
            At(s, d, i) == s = n /\ d = n /\ i = 0
<1>1. t \in Task /\ D \subseteq Task
    BY TaskAssumption DEF Pools
<1>2. \A s, d \in Node : \A i \in Nat :
         Held(tr2, nw, s, d, i) =
            IF At(s, d, i) THEN (tr[n] \ {t}) \cup D ELSE Held(tr, nw, s, d, i)
    BY DEF Held, Pools, Replace
<1>3. t \in Held(tr, nw, n, n, 0) /\ tr[n] = Held(tr, nw, n, n, 0)
    BY DEF Held
<1>. HIDE DEF tr2
<1>4. ASSUME NEW s \in Node, NEW d \in Node, NEW i \in Nat, NEW v \in Held(tr, nw, s, d, i),
             v = t
      PROVE  At(s, d, i)
  <2>1. Overlap(t, v)
      BY <1>1, <1>4, OverlapFacts
  <2>2. Alone(tr, nw, n, n, 0, t)
      BY <1>3 DEF Apart
  <2>. QED
      BY <2>1, <2>2 DEF Alone
<1>5. ASSUME NEW s \in Node, NEW d \in Node, NEW i \in Nat, NEW v \in Held(tr2, nw, s, d, i)
      PROVE  \/ v \in Held(tr, nw, s, d, i) /\ v # t
             \/ At(s, d, i) /\ v \in D
    BY <1>2, <1>3, <1>4
<1>6. ASSUME NEW s \in Node, NEW d \in Node, NEW i \in Nat, NEW v \in Held(tr2, nw, s, d, i),
             NEW x \in Node, NEW y \in Node, NEW j \in Nat, NEW u \in Held(tr2, nw, x, y, j),
             Overlap(v, u)
      PROVE  x = s /\ y = d /\ j = i /\ u = v
  <2>1. CASE v \in Held(tr, nw, s, d, i) /\ v # t /\ u \in Held(tr, nw, x, y, j)
    <3>1. Alone(tr, nw, s, d, i, v)
        BY <2>1 DEF Apart
    <3>. QED
        BY <1>6, <2>1, <3>1 DEF Alone
  <2>2. CASE v \in Held(tr, nw, s, d, i) /\ v # t /\ At(x, y, j) /\ u \in D
    <3>1. Overlap(v, t)
        BY <1>1, <1>6, <2>2, OverlapFacts
    <3>2. Alone(tr, nw, s, d, i, v)
        BY <2>2 DEF Apart
    <3>. QED
        BY <1>3, <2>2, <3>1, <3>2 DEF Alone
  <2>3. CASE At(s, d, i) /\ v \in D /\ u \in Held(tr, nw, x, y, j) /\ u # t
    <3>1. Overlap(t, u)
        BY <1>1, <1>6, <2>3, OverlapFacts
    <3>2. Alone(tr, nw, n, n, 0, t)
        BY <1>3 DEF Apart
    <3>. QED
        BY <2>3, <3>1, <3>2 DEF Alone
  <2>4. CASE At(s, d, i) /\ v \in D /\ At(x, y, j) /\ u \in D
      BY <1>1, <1>6, <2>4, OverlapFacts
  <2>. QED
      BY <1>5, <2>1, <2>2, <2>3, <2>4
<1>7. Apart(tr2, nw)
    BY <1>6 DEF Apart, Alone
<1>8. Open(tr2, nw) \subseteq (Open(tr, nw) \ {t}) \cup D
    BY <1>5 DEF Open
<1>9. \A v \in Open(tr, nw) : v # t => v \in Open(tr2, nw)
  <2>. SUFFICES ASSUME NEW s \in Node, NEW d \in Node, NEW i \in Nat,
                       NEW v \in Held(tr, nw, s, d, i), v # t
                PROVE  v \in Held(tr2, nw, s, d, i)
      BY DEF Open
  <2>. QED
      BY <1>2, <1>3
<1>10. D \subseteq Open(tr2, nw)
  <2>1. D \subseteq Held(tr2, nw, n, n, 0)
      BY <1>2
  <2>. QED
      BY <1>1, <2>1 DEF Open
<1>11. Open(tr2, nw) = (Open(tr, nw) \ {t}) \cup D
    BY <1>8, <1>9, <1>10
<1>. QED
    BY <1>7, <1>11 DEF tr2

-----------------------------------------------------------------------------
(* The best schedule of all nodes.                                         *)

Least(b, n) == \A m \in Node : b[n] <= b[m]

(* No node floods a schedule better than the best one stored. *)
FloodsKnown(nw, b) ==
    \A s, d \in Node : \A i \in 1 .. Len(nw[s][d]) :
        nw[s][d][i].type = Schedules => \E n \in Node : b[n] <= nw[s][d][i].cost

LEMMA LeastIncumbent ==
    ASSUME best \in [Node -> Nat], NEW n \in Node, Least(best, n)
    PROVE  /\ Incumbent = best[n]
           /\ \A m \in Node : Incumbent <= best[m]
<1>1. best[n] \in {best[m] : m \in Node} /\ \A m \in Node : best[n] <= best[m]
    BY DEF Least
<1>2. ASSUME NEW c \in {best[m] : m \in Node}, \A m \in Node : c <= best[m]
      PROVE  c = best[n]
  <2>1. c \in Nat /\ best[n] \in Nat /\ c <= best[n] /\ best[n] <= c
      BY <1>1, <1>2
  <2>. QED
      BY <2>1
<1>3. Incumbent = best[n]
    BY <1>1, <1>2, Zenon DEF Incumbent
<1>. QED
    BY <1>1, <1>3

Stored(b, m, c) == [b EXCEPT ![m] = c]

(* What a node that stores c does to the least of all. *)
LEMMA LeastStep ==
    ASSUME NEW b \in [Node -> Nat], NEW n \in Node, Least(b, n),
           NEW m \in Node, NEW c \in Nat, c <= b[m]
    PROVE  /\ c <= b[n] => Least(Stored(b, m, c), m) /\ Stored(b, m, c)[m] = c
           /\ b[n] <= c => Least(Stored(b, m, c), n) /\ Stored(b, m, c)[n] = b[n]
BY DEF Least, Stored

LEMMA FloodsSent ==
    ASSUME NEW nw \in Nets, NEW n \in Node, NEW out \in Outputs, NEW after,
           Sends(nw, n, out, after), NEW b, FloodsKnown(nw, b),
           \A d \in Node : \A i \in 1 .. Len(out[d]) :
              out[d][i].type = Schedules => \E m \in Node : b[m] <= out[d][i].cost
    PROVE  FloodsKnown(after, b)
<1>. SUFFICES ASSUME NEW s \in Node, NEW d \in Node, NEW i \in 1 .. Len(after[s][d]),
                     after[s][d][i].type = Schedules
              PROVE  \E m \in Node : b[m] <= after[s][d][i].cost
    BY DEF FloodsKnown
<1>. DEFINE q == nw[s][d]
            r == out[d]
<1>1. q \in Seq(Message) /\ r \in Seq(Message) /\ after[s][d] = IF s = n THEN q \o r ELSE q
    BY DEF Nets, Outputs, Sends
<1>2. \A j \in 1 .. Len(q) : q[j].type = Schedules => \E m \in Node : b[m] <= q[j].cost
    BY DEF FloodsKnown
<1>3. \A j \in 1 .. Len(r) : r[j].type = Schedules => \E m \in Node : b[m] <= r[j].cost
    OBVIOUS
<1>. HIDE DEF q, r
<1>4. CASE s # n
    BY <1>1, <1>2, <1>4
<1>5. CASE s = n
  <2>1. \/ \E j \in 1 .. Len(q) : (q \o r)[i] = q[j]
        \/ \E j \in 1 .. Len(r) : (q \o r)[i] = r[j]
      BY <1>1, <1>5, EitherPart
  <2>. QED
      BY <1>1, <1>2, <1>3, <1>5, <2>1
<1>. QED
    BY <1>4, <1>5

LEMMA FloodsConsumed ==
    ASSUME TypeOK, NEW n \in Node, NEW s \in Node, net[s][n] # << >>, NEW b, FloodsKnown(net, b)
    PROVE  FloodsKnown(Consumed(n, s), b)
<1>. SUFFICES ASSUME NEW x \in Node, NEW d \in Node, NEW i \in 1 .. Len(Consumed(n, s)[x][d]),
                     Consumed(n, s)[x][d][i].type = Schedules
              PROVE  \E m \in Node : b[m] <= Consumed(n, s)[x][d][i].cost
    BY DEF FloodsKnown
<1>. DEFINE q == net[x][d]
<1>1. /\ q \in Seq(Message)
      /\ Consumed(n, s)[x][d] = IF x = s /\ d = n THEN Tail(q) ELSE q
      /\ x = s /\ d = n => q # << >>
  <2>1. q \in Seq(Message) /\ (x = s /\ d = n => q # << >>)
      BY DEF TypeOK
  <2>2. Consumed(n, s)[x][d] = IF x = s /\ d = n THEN Tail(q) ELSE q
      BY ConsumedType
  <2>. QED
      BY <2>1, <2>2
<1>2. \A j \in 1 .. Len(q) : q[j].type = Schedules => \E m \in Node : b[m] <= q[j].cost
    BY DEF FloodsKnown
<1>. HIDE DEF q
<1>3. q # << >> => /\ Len(Tail(q)) = Len(q) - 1 /\ Len(q) \in Nat
                   /\ \A j \in 1 .. Len(q) - 1 : Tail(q)[j] = q[j + 1]
    BY <1>1, HeadTailProperties
<1>4. \E j \in 1 .. Len(q) : Consumed(n, s)[x][d][i] = q[j]
  <2>1. CASE x = s /\ d = n
    <3>1. i \in 1 .. Len(q) - 1 /\ Consumed(n, s)[x][d][i] = q[i + 1] /\ Len(q) \in Nat
        BY <1>1, <1>3, <2>1
    <3>2. i + 1 \in 1 .. Len(q)
        BY <3>1
    <3>. QED
        BY <3>1, <3>2
  <2>. QED
      BY <1>1, <2>1
<1>. QED
    BY <1>2, <1>4

(* A better schedule somewhere makes no flood wrong. *)
LEMMA FloodsBetter ==
    ASSUME NEW nw \in Nets, NEW b \in [Node -> Nat], FloodsKnown(nw, b),
           NEW m \in Node, NEW c \in Nat, c <= b[m]
    PROVE  FloodsKnown(nw, Stored(b, m, c))
<1>. DEFINE b2 == Stored(b, m, c)
<1>. SUFFICES ASSUME NEW s \in Node, NEW d \in Node, NEW i \in 1 .. Len(nw[s][d]),
                     nw[s][d][i].type = Schedules
              PROVE  \E n \in Node : b2[n] <= nw[s][d][i].cost
    BY DEF FloodsKnown
<1>1. PICK n \in Node : b[n] <= nw[s][d][i].cost
    BY DEF FloodsKnown
<1>2. nw[s][d][i].cost \in Nat
  <2>1. nw[s][d] \in Seq(Message)
      BY DEF Nets, Outputs
  <2>2. nw[s][d][i] \in Message
      BY <2>1
  <2>. QED
      BY <2>2 DEF Message, Schedules
<1>3. b2[n] \in Nat /\ b[n] \in Nat /\ b2[n] <= b[n]
    BY DEF Stored
<1>4. b2[n] <= nw[s][d][i].cost
    BY SMTT(30), <1>1, <1>2, <1>3
<1>. QED
    BY <1>4

(* OpenTasks of WorkStealing is what the places hold. *)
LEMMA OpenIsHeld ==
    ASSUME TypeOK
    PROVE  Open(tree, net) = OpenTasks
<1>1. ASSUME NEW t \in Open(tree, net) PROVE t \in OpenTasks
  <2>1. PICK s \in Node, d \in Node, i \in Nat : t \in Held(tree, net, s, d, i)
      BY <1>1 DEF Open
  <2>2. CASE i = 0
    <3>1. t \in tree[s]
        BY <2>1, <2>2 DEF Held
    <3>. QED
        BY <3>1 DEF OpenTasks
  <2>3. CASE i # 0
    <3>1. i \in Positions(net[s][d], {"BB_PROBLEM_PACKET"}) /\ t \in net[s][d][i].tasks
        BY <2>1, <2>3 DEF Held, Parcel, Positions, Works
    <3>2. net[s][d][i].tasks \in Shares(net[s][d])
        BY <3>1 DEF Shares
    <3>. QED
        BY <3>1, <3>2 DEF OpenTasks
  <2>. QED
      BY <2>2, <2>3
<1>2. ASSUME NEW t \in OpenTasks PROVE t \in Open(tree, net)
  <2>1. \E s, d \in Node : \E i \in Nat : t \in Held(tree, net, s, d, i)
    <3>1. CASE \E n \in Node : t \in tree[n]
        BY <3>1 DEF Held
    <3>2. CASE \E s, d \in Node : \E i \in Positions(net[s][d], {"BB_PROBLEM_PACKET"}) :
                  t \in net[s][d][i].tasks
      <4>0. PICK s \in Node, d \in Node : \E i \in Positions(net[s][d], {"BB_PROBLEM_PACKET"}) :
                t \in net[s][d][i].tasks
          BY <3>2
      <4>1. PICK i \in Positions(net[s][d], {"BB_PROBLEM_PACKET"}) : t \in net[s][d][i].tasks
          BY <4>0
      <4>2. net[s][d] \in Seq(Message)
          BY DEF TypeOK
      <4>3. i \in 1 .. Len(net[s][d]) /\ Len(net[s][d]) \in Nat /\ net[s][d][i].type = Works
          BY <4>1, <4>2 DEF Positions, Works
      <4>4. i \in Nat /\ t \in Held(tree, net, s, d, i)
          BY <4>1, <4>3 DEF Held, Parcel
      <4>. QED
          BY <4>4
    <3>. QED
        BY <1>2, <3>1, <3>2 DEF OpenTasks, Shares
  <2>2. tree \in Pools /\ net \in Nets
      BY DEF TypeOK, Pools, Nets, Outputs
  <2>. QED
      BY <2>1, <2>2, HeldType DEF Open
<1>. QED
    BY <1>1, <1>2

(* The same for the next state. *)
LEMMA OpenIsHeldNext == TypeOK' => Open(tree', net') = OpenTasks'
<1>1. TypeOK => Open(tree, net) = OpenTasks
    BY OpenIsHeld
<1>2. TypeOK' => (Open(tree, net) = OpenTasks)'
    BY <1>1, PTL
<1>. QED
    BY <1>2 DEF Open, Held

LEMMA LeastIncumbentNext ==
    TypeOK' => \A n \in Node : Least(best', n) => Incumbent' = best'[n]
<1>1. TypeOK => \A n \in Node : Least(best, n) => Incumbent = best[n]
    BY LeastIncumbent DEF TypeOK
<1>2. TypeOK' => (\A n \in Node : Least(best, n) => Incumbent = best[n])'
    BY <1>1, PTL
<1>. QED
    BY <1>2 DEF Least

-----------------------------------------------------------------------------
(* The steps.                                                              *)

Known == (\E n \in Node : Least(best, n)) /\ FloodsKnown(net, best)
OpenInv == TypeOK /\ Apart(tree, net) /\ Known

(* A step of the abstract search, or none. *)
PoolStutter == OpenTasks' = OpenTasks /\ Incumbent' = Incumbent
Implements == Pool!Next \/ PoolStutter

LEMMA SendsNothing ==
    ASSUME NEW nw \in Nets, NEW n \in Node
    PROVE  Sends(nw, n, Nothing, nw) /\ Nothing \in Outputs /\ \A types : Only(Nothing, types)
<1>1. \A s, d \in Node : nw[s][d] \in Seq(Message)
    BY DEF Nets, Outputs
<1>2. \A q \in Seq(Message) : q \o << >> = q
    OBVIOUS
<1>3. \A d \in Node : Nothing[d] = << >>
    BY DEF Nothing
<1>4. \A s, d \in Node : nw[s][d] = IF s = n THEN nw[s][d] \o Nothing[d] ELSE nw[s][d]
    BY <1>1, <1>2, <1>3
<1>5. Nothing \in Outputs
    BY DEF Nothing, Outputs
<1>6. \A types : Only(Nothing, types)
    BY <1>3 DEF Only
<1>. QED
    BY <1>4, <1>5, <1>6 DEF Sends, Nets

(* A node sends neither work nor schedules, and keeps its pool and its     *)
(* best schedule.                                                          *)
LEMMA QuietTurn ==
    ASSUME OpenInv, TypeOK', UNCHANGED best, NEW tr \in Pools, tree' = tr,
           NEW nw \in Nets, Apart(tr, nw), Open(tr, nw) = Open(tree, net), FloodsKnown(nw, best),
           NEW n \in Node, NEW out \in Outputs, Only(out, Controls), Sends(nw, n, out, net')
    PROVE  OpenInv' /\ PoolStutter
<1>1. \A s, d \in Node : \A i \in Nat : Held(tr, net', s, d, i) = Held(tr, nw, s, d, i)
    BY QuietPlaces DEF Controls, Works
<1>2. Apart(tr, net') /\ Open(tr, net') = Open(tree, net)
    BY <1>1, SameHeld
<1>3. FloodsKnown(net', best)
  <2>1. \A d \in Node : \A i \in 1 .. Len(out[d]) : out[d][i].type # Schedules
      BY DEF Only, Controls, Schedules
  <2>. QED
      BY <2>1, FloodsSent
<1>4. OpenTasks' = OpenTasks
    BY <1>2, OpenIsHeld, OpenIsHeldNext DEF OpenInv
<1>5. PICK m \in Node : Least(best, m)
    BY DEF OpenInv, Known
<1>6. Incumbent' = Incumbent
    BY <1>5, LeastIncumbent, LeastIncumbentNext DEF OpenInv, TypeOK
<1>7. Apart(tree, net)' /\ FloodsKnown(net, best)'
  <2>1. Apart(tree', net') /\ FloodsKnown(net', best')
      BY <1>2, <1>3
  <2>. QED
      BY <2>1 DEF Apart, Alone, Held, FloodsKnown
<1>8. (\E k \in Node : Least(best, k))'
    BY <1>5 DEF Least
<1>. QED
    BY <1>4, <1>6, <1>7, <1>8 DEF OpenInv, Known, PoolStutter

LEMMA IdleSends ==
    ASSUME TypeOK, NEW n \in Node, IdleTurn(n)
    PROVE  /\ UNCHANGED <<tree, best>>
           /\ \E out \in Outputs : Only(out, Controls) /\ Sends(net, n, out, net')
<1>1. ASSUME NEW control \in Outputs, Only(control, Controls), AskForWork(n, control)
      PROVE  /\ UNCHANGED <<tree, best>>
             /\ \E out \in Outputs : Only(out, Controls) /\ Sends(net, n, out, net')
  <2>1. PICK ask \in Outputs :
           /\ Sends(net, n, Join(ask, control), net')
           /\ Only(ask, {"REJECT_WORK_REQUEST", "WORK_REQUEST"})
      BY <1>1, AskForWorkType
  <2>2. Only(ask, Controls)
      BY <2>1 DEF Only, Controls
  <2>3. Join(ask, control) \in Outputs /\ Only(Join(ask, control), Controls)
      BY <1>1, <2>2, JoinType
  <2>4. UNCHANGED <<tree, best>>
      BY <1>1 DEF AskForWork, searchVars
  <2>. QED
      BY <2>1, <2>3, <2>4
<1>2. \A D : /\ ToAll(D, Restart) \in Outputs /\ Only(ToAll(D, Restart), Controls)
             /\ ToAll(D, Terminate) \in Outputs /\ Only(ToAll(D, Terminate), Controls)
    BY MessageType, ToAllType, ToAllOnly DEF Restart, Terminate, Controls
<1>3. \A D : \A v \in {1, 2} :
         ToAll(D, Vote(v)) \in Outputs /\ Only(ToAll(D, Vote(v)), Controls)
    BY MessageType, ToAllType, ToAllOnly DEF Vote, Controls
<1>4. Stand(n) \in {1, 2} /\ Root \in Node
    BY OverlayAssumption DEF TypeOK, Stand, Node, Root
<1>5. Nothing \in Outputs /\ Only(Nothing, Controls)
    BY MessageType, ToAllType DEF Only, Nothing
<1>6. CASE KeepAsking(n)
    BY <1>1, <1>5, <1>6 DEF KeepAsking
<1>7. CASE CastVote(n)
    BY <1>1, <1>3, <1>4, <1>7 DEF CastVote
<1>8. CASE n = Root /\ RestartVote
    BY <1>1, <1>2, <1>8 DEF RestartVote
<1>9. CASE n = Root /\ DetectTermination
    BY <1>1, <1>2, <1>9 DEF DetectTermination
<1>. QED
    BY <1>6, <1>7, <1>8, <1>9 DEF IdleTurn

LEMMA IdleStep ==
    ASSUME OpenInv, TypeOK', NEW n \in Node, IdleTurn(n)
    PROVE  OpenInv' /\ PoolStutter
<1>1. PICK out \in Outputs : Only(out, Controls) /\ Sends(net, n, out, net')
    BY IdleSends DEF OpenInv
<1>2. UNCHANGED <<tree, best>>
    BY IdleSends DEF OpenInv
<1>3. tree \in Pools /\ net \in Nets
    BY DEF OpenInv, TypeOK, Pools, Nets, Outputs
<1>. QED
    BY <1>1, <1>2, <1>3, QuietTurn DEF OpenInv, Known

(* What n takes from s, and the packets that a handler may send.           *)
LEMMA TakenFacts ==
    ASSUME OpenInv, NEW n \in Node, NEW s \in Node, net[s][n] # << >>
    PROVE  /\ Consumed(n, s) \in Nets
           /\ FloodsKnown(Consumed(n, s), best)
           /\ Apart(Unpack(n, s), Consumed(n, s))
           /\ Open(Unpack(n, s), Consumed(n, s)) = Open(tree, net)
           /\ Packet(n, s) \in Message
           /\ IF Packet(n, s).type = Works
              THEN Unpack(n, s) = [tree EXCEPT ![n] = Unpacked(n, s)]
              ELSE Unpack(n, s) = tree
<1>1. Consumed(n, s) \in Nets /\ Packet(n, s) \in Message
    BY ConsumedType DEF OpenInv, Nets
<1>2. FloodsKnown(Consumed(n, s), best)
    BY FloodsConsumed DEF OpenInv, Known
<1>3. net[s][n] \in Seq(Message)
    BY DEF OpenInv, TypeOK
<1>4. Len(net[s][n]) \in Nat \ {0} /\ Packet(n, s) = net[s][n][1]
    BY <1>3 DEF Packet
<1>5. Parcel(net[s][n], 1) = IF Packet(n, s).type = Works THEN Packet(n, s).tasks ELSE {}
    BY <1>4 DEF Parcel
<1>6. Packet(n, s).type = Works => Unpack(n, s) = [tree EXCEPT ![n] = Unpacked(n, s)]
    BY <1>5 DEF Unpack, Unpacked
<1>7. Packet(n, s).type # Works => Unpack(n, s) = tree
    BY <1>5 DEF Unpack, OpenInv, TypeOK
<1>8. /\ Apart(Unpack(n, s), Consumed(n, s))
      /\ Open(Unpack(n, s), Consumed(n, s)) = Open(tree, net)
    BY UnpackHeld DEF OpenInv
<1>. QED
    BY <1>1, <1>2, <1>6, <1>7, <1>8

(* A flood that is handled may bring n a better schedule, never a better   *)
(* one than the best of all.                                               *)
LEMMA RecvOptimalStep ==
    ASSUME OpenInv, TypeOK', NEW n \in Node, NEW s \in Node, RecvOptimalSolution(n, s)
    PROVE  OpenInv' /\ PoolStutter
<1>. DEFINE cost == Packet(n, s).cost
            known == IF cost < best[n] THEN cost ELSE best[n]
            flood == ToAll(Neighbour(n), Optimal(known))
<1>1. net[s][n] # << >> /\ Packet(n, s).type = Schedules
    BY DEF RecvOptimalSolution, Arrived, Packet, Schedules
<1>2. /\ best' = Stored(best, n, known)
      /\ net' = Post(Consumed(n, s), n, flood) \/ net' = Consumed(n, s)
      /\ tree' = tree
    BY DEF RecvOptimalSolution, Stored
<1>3. Unpack(n, s) = tree
    BY <1>1, TakenFacts DEF Schedules, Works
<1>4. /\ Consumed(n, s) \in Nets /\ FloodsKnown(Consumed(n, s), best)
      /\ Apart(tree, Consumed(n, s)) /\ Open(tree, Consumed(n, s)) = Open(tree, net)
    BY <1>1, <1>3, TakenFacts
<1>5. cost \in Nat /\ best \in [Node -> Nat] /\ known \in Nat /\ known <= best[n]
  <2>1. cost \in Nat
      BY <1>1, TakenFacts DEF Message, Schedules
  <2>2. best \in [Node -> Nat]
      BY DEF OpenInv, TypeOK
  <2>. QED
      BY <2>1, <2>2
<1>6. PICK m \in Node : Least(best, m)
    BY DEF OpenInv, Known
<1>7. best[m] <= known
  <2>1. PICK k \in Node : best[k] <= cost
    <3>1. net[s][n] \in Seq(Message)
        BY DEF OpenInv, TypeOK
    <3>2. 1 \in 1 .. Len(net[s][n]) /\ Packet(n, s) = net[s][n][1]
        BY <1>1, <3>1 DEF Packet
    <3>. QED
        BY <1>1, <3>2 DEF OpenInv, Known, FloodsKnown
  <2>2. best[m] <= best[k] /\ best[m] <= best[n]
      BY <1>6 DEF Least
  <2>3. best[m] \in Nat /\ best[k] \in Nat
      BY <1>5
  <2>. QED
      BY <1>5, <2>1, <2>2, <2>3
<1>8. Least(best', m) /\ best'[m] = best[m]
  <2>. HIDE DEF known
  <2>. QED
      BY <1>2, <1>5, <1>6, <1>7, LeastStep
<1>9. \E out \in Outputs :
        /\ Sends(Consumed(n, s), n, out, net') /\ Only(out, {Schedules})
        /\ \A d \in Node : \A i \in 1 .. Len(out[d]) : best'[n] <= out[d][i].cost
  <2>. HIDE DEF known
  <2>1. /\ flood \in Outputs /\ Only(flood, {Schedules})
        /\ \A d \in Node : \A i \in 1 .. Len(flood[d]) : flood[d][i].cost = known
    <3>1. Optimal(known) \in Message /\ Optimal(known).type = Schedules
        BY <1>5, MessageType DEF Optimal, Schedules
    <3>2. \A d \in Node : flood[d] = << >> \/ flood[d] = <<Optimal(known)>>
        BY DEF ToAll
    <3>3. ASSUME NEW d \in Node, NEW i \in 1 .. Len(flood[d]) PROVE flood[d][i].cost = known
      <4>1. flood[d] = <<Optimal(known)>>
          BY <3>2, <3>3
      <4>. QED
          BY <3>3, <4>1 DEF Optimal
    <3>. QED
        BY <3>1, <3>3, ToAllType, ToAllOnly
  <2>2. best'[n] = known /\ known <= known
      BY <1>2, <1>5 DEF Stored
  <2>3. CASE net' = Consumed(n, s)
    <3>1. \A d \in Node : \A i \in 1 .. Len(Nothing[d]) : best'[n] <= Nothing[d][i].cost
        BY DEF Nothing
    <3>. QED
        BY <1>4, <2>3, <3>1, SendsNothing
  <2>4. CASE net' = Post(Consumed(n, s), n, flood)
    <3>1. Sends(Consumed(n, s), n, flood, net')
        BY <1>4, <2>1, <2>4, PostType DEF Nets
    <3>2. \A d \in Node : \A i \in 1 .. Len(flood[d]) : best'[n] <= flood[d][i].cost
        BY <2>1, <2>2
    <3>. HIDE DEF flood
    <3>. QED
        BY <2>1, <3>1, <3>2
  <2>. QED
      BY <1>2, <2>3, <2>4
<1>10. PICK out \in Outputs :
        /\ Sends(Consumed(n, s), n, out, net') /\ Only(out, {Schedules})
        /\ \A d \in Node : \A i \in 1 .. Len(out[d]) : best'[n] <= out[d][i].cost
    BY <1>9
<1>11. Apart(tree, net') /\ Open(tree, net') = Open(tree, net)
  <2>1. tree \in Pools
      BY DEF OpenInv, TypeOK, Pools
  <2>2. \A a, b \in Node : \A i \in Nat :
           Held(tree, net', a, b, i) = Held(tree, Consumed(n, s), a, b, i)
      BY <1>4, <1>10, <2>1, QuietPlaces DEF Schedules, Works
  <2>. QED
      BY <1>4, <2>2, SameHeld
<1>12. FloodsKnown(net', best')
  <2>1. FloodsKnown(Consumed(n, s), best')
    <3>. HIDE DEF known
    <3>. QED
        BY <1>2, <1>4, <1>5, FloodsBetter
  <2>. QED
      BY <1>4, <1>10, <2>1, FloodsSent
<1>13. OpenTasks' = OpenTasks
    BY <1>2, <1>11, OpenIsHeld, OpenIsHeldNext DEF OpenInv
<1>14. Incumbent' = Incumbent
  <2>1. Incumbent = best[m]
      BY <1>5, <1>6, LeastIncumbent
  <2>2. Incumbent' = best'[m]
      BY <1>8, LeastIncumbentNext
  <2>. QED
      BY <1>8, <2>1, <2>2
<1>15. Apart(tree, net)' /\ FloodsKnown(net, best)'
  <2>1. Apart(tree', net')
      BY <1>2, <1>11
  <2>. QED
      BY <1>12, <2>1 DEF Apart, Alone, Held, FloodsKnown
<1>16. (\E k \in Node : Least(best, k))'
    BY <1>8 DEF Least
<1>. QED
    BY <1>13, <1>14, <1>15, <1>16 DEF OpenInv, Known, PoolStutter

LEMMA ReceiveStep ==
    ASSUME OpenInv, TypeOK', NEW n \in Node, NEW s \in Node, Receive(n, s)
    PROVE  OpenInv' /\ PoolStutter
<1>1. net[s][n] # << >>
    BY DEF Receive, RecvWork, RecvReject, RecvWorkRequest, RecvOptimalSolution, RecvVote,
           RecvRestart, RecvTermination, Arrived
<1>2. /\ Consumed(n, s) \in Nets /\ FloodsKnown(Consumed(n, s), best)
      /\ Apart(Unpack(n, s), Consumed(n, s))
      /\ Open(Unpack(n, s), Consumed(n, s)) = Open(tree, net)
    BY <1>1, TakenFacts
<1>3. tree \in Pools /\ Unpack(n, s) \in Pools
  <2>1. Parcel(net[s][n], 1) \subseteq Task
      BY SMTT(30), ParcelType DEF OpenInv, TypeOK
  <2>. QED
      BY <2>1 DEF OpenInv, TypeOK, Pools, Unpack
<1>4. ASSUME UNCHANGED best, tree' = Unpack(n, s), NEW out \in Outputs, Only(out, Controls),
             Sends(Consumed(n, s), n, out, net')
      PROVE  OpenInv' /\ PoolStutter
    BY <1>2, <1>3, <1>4, QuietTurn
<1>5. \/ net' = Consumed(n, s)
      \/ net' = Post(Consumed(n, s), n, ToAll(Children(n), Restart))
      \/ net' = Post(Consumed(n, s), n, ToAll(Children(n), Terminate))
      => \E out \in Outputs : Only(out, Controls) /\ Sends(Consumed(n, s), n, out, net')
  <2>1. \A D : /\ ToAll(D, Restart) \in Outputs /\ Only(ToAll(D, Restart), Controls)
               /\ ToAll(D, Terminate) \in Outputs /\ Only(ToAll(D, Terminate), Controls)
      BY MessageType, ToAllType, ToAllOnly DEF Restart, Terminate, Controls
  <2>2. \A out \in Outputs : Sends(Consumed(n, s), n, out, Post(Consumed(n, s), n, out))
      BY <1>2, PostType DEF Nets
  <2>3. /\ Sends(Consumed(n, s), n, Nothing, Consumed(n, s))
        /\ Nothing \in Outputs /\ Only(Nothing, Controls)
      BY <1>2, SendsNothing
  <2>. QED
      BY <2>1, <2>2, <2>3
<1>6. CASE RecvWork(n, s)
  <2>1. Unpack(n, s) = [tree EXCEPT ![n] = Unpacked(n, s)]
      BY <1>1, <1>6, TakenFacts DEF RecvWork, Arrived, Packet, Works
  <2>2. UNCHANGED best /\ tree' = Unpack(n, s) /\ net' = Consumed(n, s)
      BY <1>6, <2>1 DEF RecvWork
  <2>. QED
      BY <1>4, <1>5, <2>2
<1>7. CASE RecvOptimalSolution(n, s)
    BY <1>7, RecvOptimalStep
<1>8. CASE RecvReject(n, s) \/ RecvWorkRequest(n, s) \/ RecvVote(n, s) \/ RecvRestart(n, s)
             \/ RecvTermination(n, s)
  <2>1. Packet(n, s).type # Works
      BY <1>8 DEF RecvReject, RecvWorkRequest, RecvVote, RecvRestart, RecvTermination,
                  Arrived, Packet, Works
  <2>2. Unpack(n, s) = tree
      BY <1>1, <2>1, TakenFacts
  <2>3. UNCHANGED best /\ tree' = Unpack(n, s)
      BY <1>8, <2>2 DEF RecvReject, RecvWorkRequest, RecvVote, RecvRestart, RecvTermination,
                        searchVars
  <2>4. \/ net' = Consumed(n, s)
        \/ net' = Post(Consumed(n, s), n, ToAll(Children(n), Restart))
        \/ net' = Post(Consumed(n, s), n, ToAll(Children(n), Terminate))
      BY <1>8 DEF RecvReject, RecvWorkRequest, RecvVote, RecvRestart, RecvTermination
  <2>. QED
      BY <1>4, <1>5, <2>3, <2>4
<1>. QED
    BY <1>6, <1>7, <1>8 DEF Receive

(* Whatever n gives away first, it takes one subproblem t that is open     *)
(* nowhere else, and may put children in its place.                        *)
After(n, share, t, D) == [tree EXCEPT ![n] = (Kept(n, share) \ {t}) \cup D]

LEMMA TakenTask ==
    ASSUME OpenInv, NEW n \in Node, NEW share \in Sharings(n), NEW t \in Kept(n, share),
           NEW D \in {{}} \cup Branch[t]
    PROVE  /\ t \in Task /\ Bound[t] \in Nat /\ t \in OpenTasks
           /\ After(n, share, t, D) \in Pools
           /\ Serving(n, share) \in Nets
           /\ Apart(After(n, share, t, D), Serving(n, share))
           /\ Open(After(n, share, t, D), Serving(n, share)) = (OpenTasks \ {t}) \cup D
           /\ FloodsKnown(Serving(n, share), best)
<1>1. TypeOK /\ net \in Nets /\ tree \in Pools /\ FloodsKnown(net, best)
    BY DEF OpenInv, Known, TypeOK, Nets, Pools, Outputs
<1>2. /\ Kept(n, share) \subseteq tree[n] /\ Shared(n, share) \in Outputs
      /\ \A d \in Node : \A i \in 1 .. Len(Shared(n, share)[d]) :
            Shared(n, share)[d][i].type # Schedules
    BY <1>1, SharingType DEF Schedules
<1>3. t \in Task /\ Bound[t] \in Nat /\ D \subseteq Task
    BY <1>1, <1>2, TaskAssumption DEF Pools
<1>4. Sends(net, n, Shared(n, share), Serving(n, share)) /\ Serving(n, share) \in Nets
  <2>1. net \in [Node -> Outputs] /\ Shared(n, share) \in Outputs
      BY <1>1, <1>2 DEF Nets
  <2>2. Sends(net, n, Shared(n, share), Serving(n, share))
      BY <2>1, PostType DEF Serving
  <2>. QED
      BY <2>2 DEF Sends, Nets
<1>5. FloodsKnown(Serving(n, share), best)
    BY <1>1, <1>2, <1>4, FloodsSent
<1>6. /\ Apart(Keep(n, share), Serving(n, share))
      /\ Open(Keep(n, share), Serving(n, share)) = OpenTasks
    BY <1>1, ServeHeld, OpenIsHeld DEF OpenInv
<1>7. Keep(n, share) \in Pools /\ Keep(n, share)[n] = Kept(n, share)
    BY <1>1, <1>2 DEF Keep, Pools
<1>8. After(n, share, t, D) = Replace(Keep(n, share), n, t, D)
    BY <1>1, <1>7 DEF After, Keep, Pools, Replace
<1>9. /\ Apart(After(n, share, t, D), Serving(n, share))
      /\ Open(After(n, share, t, D), Serving(n, share)) = (OpenTasks \ {t}) \cup D
  <2>. DEFINE tr == Keep(n, share)
              nw == Serving(n, share)
  <2>1. tr \in Pools /\ nw \in Nets /\ Apart(tr, nw) /\ t \in tr[n]
      BY <1>4, <1>6, <1>7
  <2>2. /\ Apart(Replace(tr, n, t, D), nw)
        /\ Open(Replace(tr, n, t, D), nw) = (Open(tr, nw) \ {t}) \cup D
    <3>. HIDE DEF tr, nw
    <3>. QED
        BY <2>1, ReplaceHeld
  <2>. QED
      BY <1>6, <1>8, <2>2
<1>10. t \in OpenTasks
    BY <1>1, <1>2 DEF OpenTasks
<1>11. After(n, share, t, D) \in Pools
    BY <1>1, <1>2, <1>3 DEF After, Pools
<1>. QED
    BY <1>3, <1>4, <1>5, <1>9, <1>10, <1>11

(* n leaves its best schedule as it is. *)
LEMMA NoBetterStep ==
    ASSUME OpenInv, TypeOK', NEW n \in Node, NEW share \in Sharings(n),
           NEW t \in Kept(n, share), NEW D \in {{}} \cup Branch[t],
           UNCHANGED best, tree' = After(n, share, t, D), net' = Serving(n, share)
    PROVE  /\ OpenInv'
           /\ OpenTasks' = (OpenTasks \ {t}) \cup D
           /\ Incumbent' = Incumbent
           /\ Incumbent \in Nat /\ Incumbent <= best[n]
<1>1. /\ Apart(tree', net') /\ FloodsKnown(net', best')
      /\ Open(tree', net') = (OpenTasks \ {t}) \cup D
    BY TakenTask
<1>2. OpenTasks' = (OpenTasks \ {t}) \cup D
    BY <1>1, OpenIsHeldNext
<1>3. PICK m \in Node : Least(best, m)
    BY DEF OpenInv, Known
<1>4. Incumbent = best[m] /\ Incumbent' = best[m] /\ best[m] <= best[n] /\ best[m] \in Nat
    BY <1>3, LeastIncumbent, LeastIncumbentNext DEF OpenInv, TypeOK, Least
<1>5. (\E k \in Node : Least(best, k))' /\ Apart(tree, net)' /\ FloodsKnown(net, best)'
    BY <1>1, <1>3 DEF Least, Apart, Alone, Held, FloodsKnown
<1>. QED
    BY <1>2, <1>4, <1>5 DEF OpenInv, Known

LEMMA ExpandStep ==
    ASSUME OpenInv, TypeOK', NEW n \in Node, NEW share \in Sharings(n),
           NEW t \in Kept(n, share), NEW D \in Branch[t],
           UNCHANGED best, tree' = After(n, share, t, D), net' = Serving(n, share)
    PROVE  OpenInv' /\ Pool!Next
<1>1. D \in {{}} \cup Branch[t] /\ t \in OpenTasks
    BY TakenTask
<1>2. OpenInv' /\ OpenTasks' = (OpenTasks \ {t}) \cup D /\ Incumbent' = Incumbent
    BY <1>1, NoBetterStep
<1>3. Pool!Expand(t)
    BY <1>2 DEF Pool!Expand
<1>. QED
    BY <1>1, <1>2, <1>3 DEF Pool!Next

LEMMA DiscardStep ==
    ASSUME OpenInv, TypeOK', NEW n \in Node, NEW share \in Sharings(n),
           NEW t \in Kept(n, share), Bound[t] >= best[n],
           UNCHANGED best, tree' = After(n, share, t, {}), net' = Serving(n, share)
    PROVE  OpenInv' /\ Pool!Next
<1>1. t \in OpenTasks /\ Bound[t] \in Nat /\ best[n] \in Nat
    BY TakenTask DEF OpenInv, TypeOK
<1>2. /\ OpenInv' /\ OpenTasks' = OpenTasks \ {t} /\ Incumbent' = Incumbent
      /\ Incumbent \in Nat /\ Incumbent <= best[n]
    BY NoBetterStep
<1>3. Bound[t] >= Incumbent
    BY <1>1, <1>2
<1>4. Pool!Discard(t)
    BY <1>2, <1>3 DEF Pool!Discard
<1>. QED
    BY <1>1, <1>2, <1>4 DEF Pool!Next

(* The schedule t is better than n's: n stores it and tells its neighbours. *)
LEMMA BetterStep ==
    ASSUME OpenInv, TypeOK', NEW n \in Node, NEW share \in Sharings(n),
           NEW t \in Kept(n, share), Leaf(t), Bound[t] < best[n],
           tree' = After(n, share, t, {}), best' = Stored(best, n, Bound[t]),
           net' = Post(Serving(n, share), n, ToAll(Neighbour(n), Optimal(Bound[t])))
    PROVE  OpenInv' /\ Pool!Next
<1>. DEFINE flood == ToAll(Neighbour(n), Optimal(Bound[t]))
            nw == Serving(n, share)
<1>1. /\ t \in OpenTasks /\ Bound[t] \in Nat /\ tree' \in Pools /\ nw \in Nets
      /\ Apart(tree', nw) /\ Open(tree', nw) = OpenTasks \ {t} /\ FloodsKnown(nw, best)
    BY TakenTask
<1>2. best \in [Node -> Nat] /\ Bound[t] <= best[n]
    BY <1>1 DEF OpenInv, TypeOK
<1>3. /\ flood \in Outputs /\ Only(flood, {Schedules})
      /\ \A d \in Node : \A i \in 1 .. Len(flood[d]) : flood[d][i].cost = Bound[t]
  <2>1. Optimal(Bound[t]) \in Message /\ Optimal(Bound[t]).type = Schedules
      BY <1>1, MessageType DEF Optimal, Schedules
  <2>2. \A d \in Node : flood[d] = << >> \/ flood[d] = <<Optimal(Bound[t])>>
      BY DEF ToAll
  <2>3. ASSUME NEW d \in Node, NEW i \in 1 .. Len(flood[d]) PROVE flood[d][i].cost = Bound[t]
    <3>1. flood[d] = <<Optimal(Bound[t])>>
        BY <2>2, <2>3
    <3>. QED
        BY <2>3, <3>1 DEF Optimal
  <2>. QED
      BY <2>1, <2>3, ToAllType, ToAllOnly
<1>4. FloodsKnown(nw, best')
  <2>. HIDE DEF nw
  <2>. QED
      BY <1>1, <1>2, FloodsBetter
<1>. HIDE DEF flood, nw
<1>5. Sends(nw, n, flood, net')
    BY <1>1, <1>3, PostType DEF flood, nw, Nets
<1>6. Apart(tree', net') /\ Open(tree', net') = OpenTasks \ {t}
  <2>1. \A a, b \in Node : \A i \in Nat : Held(tree', net', a, b, i) = Held(tree', nw, a, b, i)
      BY <1>1, <1>3, <1>5, QuietPlaces DEF Schedules, Works
  <2>. QED
      BY <1>1, <2>1, SameHeld
<1>7. FloodsKnown(net', best')
  <2>1. best'[n] = Bound[t] /\ Bound[t] <= Bound[t]
      BY <1>1, <1>2 DEF Stored
  <2>2. \A d \in Node : \A i \in 1 .. Len(flood[d]) :
           \E m \in Node : best'[m] <= flood[d][i].cost
      BY <1>3, <2>1
  <2>. QED
      BY <1>1, <1>3, <1>4, <1>5, <2>2, FloodsSent
<1>8. OpenTasks' = OpenTasks \ {t}
    BY <1>6, OpenIsHeldNext
<1>9. PICK m \in Node : Least(best, m)
    BY DEF OpenInv, Known
<1>10. Incumbent = best[m] /\ best[m] \in Nat
    BY <1>2, <1>9, LeastIncumbent
<1>11. /\ Bound[t] <= best[m] => Least(best', n) /\ best'[n] = Bound[t]
       /\ best[m] <= Bound[t] => Least(best', m) /\ best'[m] = best[m]
    BY <1>1, <1>2, <1>9, LeastStep
<1>12. /\ Incumbent' = IF Bound[t] < Incumbent THEN Bound[t] ELSE Incumbent
       /\ \E k \in Node : Least(best', k)
  <2>1. CASE Bound[t] < best[m]
    <3>1. Least(best', n) /\ best'[n] = Bound[t]
        BY <1>1, <1>10, <1>11, <2>1
    <3>. QED
        BY <1>10, <2>1, <3>1, LeastIncumbentNext
  <2>2. CASE ~(Bound[t] < best[m])
    <3>1. Least(best', m) /\ best'[m] = best[m]
        BY <1>1, <1>10, <1>11, <2>2
    <3>. QED
        BY <1>10, <2>2, <3>1, LeastIncumbentNext
  <2>. QED
      BY <2>1, <2>2
<1>13. Pool!Evaluate(t)
    BY <1>8, <1>12 DEF Pool!Evaluate, Pool!Leaf, Leaf
<1>14. (\E k \in Node : Least(best, k))' /\ Apart(tree, net)' /\ FloodsKnown(net, best)'
    BY <1>6, <1>7, <1>12 DEF Least, Apart, Alone, Held, FloodsKnown
<1>. QED
    BY <1>1, <1>13, <1>14 DEF Pool!Next, OpenInv, Known

(* A turn of the exploring loop is a step of the abstract search.          *)
LEMMA ExploreStep ==
    ASSUME OpenInv, TypeOK', NEW n \in Node, Explore(n)
    PROVE  OpenInv' /\ Pool!Next
<1>1. CASE ExploreLeaf(n)
  <2>1. PICK share \in Sharings(n) : \E t \in Kept(n, share) :
          /\ Leaf(t)
          /\ tree' = [tree EXCEPT ![n] = Kept(n, share) \ {t}]
          /\ IF Bound[t] < best[n]
             THEN /\ best' = [best EXCEPT ![n] = Bound[t]]
                  /\ net' = Post(Post(net, n, Shared(n, share)), n,
                                 ToAll(Neighbour(n), Optimal(Bound[t])))
             ELSE /\ UNCHANGED best
                  /\ net' = Post(net, n, Shared(n, share))
      BY <1>1 DEF ExploreLeaf
  <2>2. PICK t \in Kept(n, share) :
          /\ Leaf(t)
          /\ tree' = After(n, share, t, {})
          /\ IF Bound[t] < best[n]
             THEN /\ best' = Stored(best, n, Bound[t])
                  /\ net' = Post(Serving(n, share), n, ToAll(Neighbour(n), Optimal(Bound[t])))
             ELSE UNCHANGED best /\ net' = Serving(n, share)
      BY <2>1 DEF After, Serving, Stored
  <2>3. CASE Bound[t] < best[n]
      BY <2>2, <2>3, BetterStep
  <2>4. CASE ~(Bound[t] < best[n])
    <3>1. Bound[t] \in Nat /\ best[n] \in Nat
        BY TakenTask DEF OpenInv, TypeOK
    <3>2. Bound[t] >= best[n]
        BY <2>4, <3>1
    <3>. QED
        BY <2>2, <2>4, <3>2, DiscardStep
  <2>. QED
      BY <2>3, <2>4
<1>2. CASE ExploreBranch(n)
  <2>1. PICK share \in Sharings(n) : \E t \in Kept(n, share) : \E D \in Branch[t] :
          /\ tree' = After(n, share, t, D) /\ net' = Serving(n, share)
          /\ UNCHANGED best
      BY <1>2, Zenon DEF ExploreBranch, After, Serving
  <2>2. PICK t \in Kept(n, share) : \E D \in Branch[t] :
          /\ tree' = After(n, share, t, D) /\ net' = Serving(n, share)
          /\ UNCHANGED best
      BY <2>1
  <2>3. PICK D \in Branch[t] :
          /\ tree' = After(n, share, t, D) /\ net' = Serving(n, share)
          /\ UNCHANGED best
      BY <2>2
  <2>. QED
      BY <2>3, ExpandStep
<1>3. CASE ExplorePrune(n)
  <2>1. PICK share \in Sharings(n) : \E t \in Kept(n, share) :
          /\ tree' = After(n, share, t, {}) /\ net' = Serving(n, share)
          /\ UNCHANGED best /\ Bound[t] >= best[n]
      BY <1>3 DEF ExplorePrune, After, Serving
  <2>. QED
      BY <2>1, DiscardStep
<1>. QED
    BY <1>1, <1>2, <1>3 DEF Explore

LEMMA OpenInit == Init => OpenInv /\ Pool!Init
<1>. SUFFICES ASSUME Init PROVE OpenInv /\ Pool!Init
    OBVIOUS
<1>1. TypeOK
    BY TypeInit
<1>2. Root \in Node /\ Unsolved \in Nat /\ RootTask \in Task
    BY OverlayAssumption, TaskAssumption DEF Node, Root
<1>3. \A s, d \in Node : \A i : Held(tree, net, s, d, i) =
         IF i = 0 /\ s = Root /\ d = Root THEN {RootTask} ELSE {}
    BY DEF Init, Held, Parcel
<1>4. Apart(tree, net)
    BY <1>3 DEF Apart, Alone
<1>5. OpenTasks = {RootTask}
  <2>1. Open(tree, net) = {RootTask}
      BY <1>2, <1>3 DEF Open
  <2>. QED
      BY <1>1, <2>1, OpenIsHeld
<1>6. Least(best, Root) /\ best[Root] = Unsolved
    BY <1>2 DEF Init, Least
<1>7. Incumbent = Unsolved
    BY <1>1, <1>2, <1>6, LeastIncumbent DEF TypeOK
<1>8. FloodsKnown(net, best)
    BY DEF Init, FloodsKnown
<1>. QED
    BY <1>1, <1>2, <1>4, <1>5, <1>6, <1>7, <1>8 DEF OpenInv, Known, Pool!Init

LEMMA OpenStep == OpenInv /\ [Next]_vars => OpenInv' /\ [Pool!Next]_(Pool!vars)
<1>. SUFFICES ASSUME OpenInv, [Next]_vars PROVE OpenInv' /\ (Pool!Next \/ PoolStutter)
    BY DEF PoolStutter, Pool!vars
<1>1. TypeOK'
    BY TypeStep DEF OpenInv
<1>2. ASSUME UNCHANGED <<tree, best, net>> PROVE OpenInv' /\ PoolStutter
    BY <1>1, <1>2 DEF OpenInv, Known, Apart, Alone, Held, Least, FloodsKnown, PoolStutter,
                      OpenTasks, Incumbent
<1>3. ASSUME NEW n \in Node, Trigger(n) PROVE OpenInv' /\ PoolStutter
    BY <1>2, <1>3 DEF Trigger, searchVars
<1>4. CASE UNCHANGED vars
    BY <1>2, <1>4 DEF vars, searchVars
<1>. QED
    BY <1>1, <1>3, <1>4, ExploreStep, IdleStep, ReceiveStep DEF Next, Finished

THEOREM OpenInvariant == Spec => []OpenInv
BY OpenInit, OpenStep, PTL DEF Spec

(***************************************************************************)
(* For every number of nodes, every overlay and every search tree, the     *)
(* distributed search is the abstract search of SearchPool: stealing,      *)
(* flooding and voting neither lose, copy nor invent a subproblem, and one *)
(* is discarded only against a schedule that some node has.                *)
(***************************************************************************)
THEOREM SearchRefinesPool == Spec => ImplementsPool
<1>1. Init => Pool!Init
    BY OpenInit
<1>2. OpenInv /\ [Next]_vars => [Pool!Next]_(Pool!vars)
    BY OpenStep
<1>. QED
    BY <1>1, <1>2, OpenInvariant, PTL DEF Spec, ImplementsPool, Pool!Spec

(***************************************************************************)
(* Sharing moves a subproblem and never copies it: at any time an open     *)
(* subproblem is in one pool, or in one work packet.                       *)
(***************************************************************************)
THEOREM WorkIsNeverCopied == Spec => []OneHolder
<1>1. ASSUME OpenInv, NEW t \in OpenTasks PROVE Cardinality(Holders(t)) = 1
  <2>1. PICK s \in Node, d \in Node, i \in Nat : t \in Held(tree, net, s, d, i)
      BY <1>1, OpenIsHeld DEF OpenInv, Open
  <2>2. t \in Task /\ Overlap(t, t)
    <3>1. t \in Open(tree, net)
        BY <1>1, OpenIsHeld DEF OpenInv
    <3>. QED
        BY <3>1, OverlapFacts DEF Open
  <2>3. Alone(tree, net, s, d, i, t)
      BY <1>1, <2>1 DEF OpenInv, Apart
  <2>4. \A x, y \in Node : \A j \in Nat :
           t \in Held(tree, net, x, y, j) => x = s /\ y = d /\ j = i
      BY <2>2, <2>3 DEF Alone
  <2>5. \A n \in Node : t \in tree[n] <=> t \in Held(tree, net, n, n, 0)
      BY DEF Held
  <2>6. ASSUME NEW x \in Node, NEW y \in Node
        PROVE  {j \in Positions(net[x][y], {"BB_PROBLEM_PACKET"}) : t \in net[x][y][j].tasks}
                  = {j \in Nat \ {0} : t \in Held(tree, net, x, y, j)}
    <3>1. net[x][y] \in Seq(Message)
        BY <1>1 DEF OpenInv, TypeOK
    <3>2. Len(net[x][y]) \in Nat
        BY <3>1
    <3>. QED
        BY <3>2 DEF Positions, Held, Parcel, Works
  <2>7. CASE i = 0
    <3>1. s = d
        BY <2>1, <2>7 DEF Held
    <3>2. \A n \in Node : t \in tree[n] <=> n = s
        BY <2>1, <2>4, <2>5, <2>7, <3>1
    <3>3. \A x, y \in Node :
             {j \in Positions(net[x][y], {"BB_PROBLEM_PACKET"}) : t \in net[x][y][j].tasks} = {}
        BY <2>4, <2>6, <2>7
    <3>4. Holders(t) = {<<s>>}
        BY <3>2, <3>3 DEF Holders
    <3>. QED
        BY <3>4, FS_Singleton
  <2>8. CASE i # 0
    <3>1. \A n \in Node : t \notin tree[n]
        BY <2>4, <2>5, <2>8
    <3>2. \A x, y \in Node :
             {j \in Positions(net[x][y], {"BB_PROBLEM_PACKET"}) : t \in net[x][y][j].tasks}
                = IF x = s /\ y = d THEN {i} ELSE {}
        BY <2>1, <2>4, <2>6, <2>8
    <3>3. Holders(t) = {<<s, d, i>>}
      <4>1. \A h : h \in Holders(t) <=> \E l \in Node \X Node :
               \E j \in {k \in Positions(net[l[1]][l[2]], {"BB_PROBLEM_PACKET"}) :
                         t \in net[l[1]][l[2]][k].tasks} : h = <<l[1], l[2], j>>
          BY <3>1 DEF Holders
      <4>2. ASSUME NEW h \in Holders(t) PROVE h = <<s, d, i>>
        <5>1. PICK l \in Node \X Node :
                 \E j \in {k \in Positions(net[l[1]][l[2]], {"BB_PROBLEM_PACKET"}) :
                         t \in net[l[1]][l[2]][k].tasks} : h = <<l[1], l[2], j>>
            BY <4>1, <4>2
        <5>2. l[1] \in Node /\ l[2] \in Node
            OBVIOUS
        <5>. QED
            BY <3>2, <5>1, <5>2
      <4>3. <<s, d, i>> \in Holders(t)
        <5>1. <<s, d>> \in Node \X Node /\ <<s, d>>[1] = s /\ <<s, d>>[2] = d
            OBVIOUS
        <5>2. i \in {k \in Positions(net[s][d], {"BB_PROBLEM_PACKET"}) :
                         t \in net[s][d][k].tasks}
            BY <3>2
        <5>. QED
            BY <4>1, <5>1, <5>2
      <4>. QED
          BY <4>2, <4>3
    <3>. QED
        BY <3>3, FS_Singleton
  <2>. QED
      BY <2>7, <2>8
<1>2. OpenInv => OneHolder
    BY <1>1 DEF OneHolder
<1>. QED
    BY <1>2, OpenInvariant, PTL

-----------------------------------------------------------------------------
(* What the abstract search promises holds of the nodes together.          *)

InReach(open, cost) ==
    /\ open \subseteq Task /\ cost \in Nat
    /\ Opt[RootTask] <= cost
    /\ \A t \in open : Opt[RootTask] <= Opt[t]
    /\ cost = Opt[RootTask] \/ \E t \in open : Opt[t] = Opt[RootTask]

LEMMA OptFacts ==
    /\ RootTask \in Task /\ Unsolved \in Nat /\ Opt[RootTask] <= Unsolved
    /\ \A t \in Task : /\ Bound[t] \in Nat /\ Opt[t] \in Nat
                       /\ Bound[t] <= Opt[t]
                       /\ Leaf(t) => Opt[t] = Bound[t]
                       /\ \A D \in Branch[t] : D \subseteq Task
<1>1. \A t \in Task : Opt[t] \in Nat /\ Opt[t] < Unsolved
    BY OptAssumption
<1>. QED
    BY <1>1, TaskAssumption, OptAssumption

(* Whatever is done to t, the optimum stays in reach. *)
LEMMA ReachKept ==
    ASSUME NEW open, NEW cost, InReach(open, cost), NEW t \in open, NEW cost2, NEW D,
           \/ /\ Leaf(t) /\ D = {}
              /\ cost2 = IF Bound[t] < cost THEN Bound[t] ELSE cost
           \/ D \in Branch[t] /\ cost2 = cost
           \/ Bound[t] >= cost /\ D = {} /\ cost2 = cost
    PROVE  InReach((open \ {t}) \cup D, cost2)
<1>1. /\ open \subseteq Task /\ cost \in Nat /\ Opt[RootTask] <= cost
      /\ \A u \in open : Opt[RootTask] <= Opt[u]
      /\ cost = Opt[RootTask] \/ \E u \in open : Opt[u] = Opt[RootTask]
    BY DEF InReach
<1>2. /\ t \in Task /\ Bound[t] \in Nat /\ Opt[t] \in Nat /\ Opt[RootTask] \in Nat
      /\ Bound[t] <= Opt[t] /\ Opt[RootTask] <= Opt[t]
      /\ Leaf(t) => Opt[t] = Bound[t]
    BY <1>1, OptFacts
<1>3. CASE /\ Leaf(t) /\ D = {}
           /\ cost2 = IF Bound[t] < cost THEN Bound[t] ELSE cost
  <2>1. cost2 \in Nat /\ Opt[RootTask] <= cost2 /\ cost2 <= cost /\ cost2 <= Opt[t]
      BY <1>1, <1>2, <1>3
  <2>2. (Opt[t] = Opt[RootTask] \/ cost = Opt[RootTask]) => cost2 = Opt[RootTask]
      BY <1>1, <1>2, <2>1
  <2>3. cost2 = Opt[RootTask] \/ \E u \in open \ {t} : Opt[u] = Opt[RootTask]
      BY <1>1, <2>2
  <2>. QED
      BY <1>1, <1>3, <2>1, <2>3 DEF InReach
<1>4. CASE D \in Branch[t] /\ cost2 = cost
  <2>1. D \subseteq Task /\ (\A d \in D : Opt[t] <= Opt[d]) /\ \E d \in D : Opt[t] = Opt[d]
      BY <1>2, <1>4, OptFacts, OptAssumption
  <2>2. \A d \in D : Opt[RootTask] <= Opt[d]
    <3>. SUFFICES ASSUME NEW d \in D PROVE Opt[RootTask] <= Opt[d]
        OBVIOUS
    <3>1. Opt[t] <= Opt[d] /\ Opt[d] \in Nat
        BY <2>1, OptFacts
    <3>. QED
        BY <1>2, <3>1
  <2>3. cost = Opt[RootTask] \/ \E u \in (open \ {t}) \cup D : Opt[u] = Opt[RootTask]
      BY <1>1, <2>1
  <2>. QED
      BY <1>1, <1>4, <2>1, <2>2, <2>3 DEF InReach
<1>5. CASE Bound[t] >= cost /\ D = {} /\ cost2 = cost
  <2>1. Opt[t] = Opt[RootTask] => cost = Opt[RootTask]
      BY <1>1, <1>2, <1>5
  <2>2. cost = Opt[RootTask] \/ \E u \in open \ {t} : Opt[u] = Opt[RootTask]
      BY <1>1, <2>1
  <2>. QED
      BY <1>1, <1>5, <2>2 DEF InReach
<1>. QED
    BY <1>3, <1>4, <1>5

LEMMA ReachStep ==
    ASSUME InReach(OpenTasks, Incumbent), Pool!Next \/ PoolStutter
    PROVE  InReach(OpenTasks', Incumbent')
<1>1. CASE PoolStutter
    BY <1>1 DEF PoolStutter
<1>2. CASE Pool!Next
  <2>1. PICK t \in OpenTasks : Pool!Evaluate(t) \/ Pool!Expand(t) \/ Pool!Discard(t)
      BY <1>2 DEF Pool!Next
  <2>2. \E D : /\ OpenTasks' = (OpenTasks \ {t}) \cup D
               /\ \/ /\ Leaf(t) /\ D = {}
                     /\ Incumbent' = IF Bound[t] < Incumbent THEN Bound[t] ELSE Incumbent
                  \/ D \in Branch[t] /\ Incumbent' = Incumbent
                  \/ Bound[t] >= Incumbent /\ D = {} /\ Incumbent' = Incumbent
    <3>1. CASE Pool!Evaluate(t)
        BY <3>1 DEF Pool!Evaluate, Pool!Leaf, Leaf
    <3>2. CASE Pool!Expand(t)
        BY <3>2 DEF Pool!Expand
    <3>3. CASE Pool!Discard(t)
        BY <3>3 DEF Pool!Discard
    <3>. QED
        BY <2>1, <3>1, <3>2, <3>3
  <2>. QED
      BY <2>2, ReachKept
<1>. QED
    BY <1>1, <1>2

(***************************************************************************)
(* At any time the optimal makespan is stored by some node, or lies below  *)
(* a subproblem in a pool or in a packet; once no subproblem is left, some *)
(* node has stored it.                                                     *)
(***************************************************************************)
THEOREM DistributedExact == Spec => [](Pool!OptimumInReach /\ Pool!Exact)
<1>1. Init => InReach(OpenTasks, Incumbent)
    BY OpenInit, OptFacts DEF Pool!Init, InReach
<1>2. InReach(OpenTasks, Incumbent) /\ OpenInv /\ [Next]_vars => InReach(OpenTasks, Incumbent)'
  <2>. SUFFICES ASSUME InReach(OpenTasks, Incumbent), OpenInv, [Next]_vars
                PROVE  InReach(OpenTasks, Incumbent)'
      OBVIOUS
  <2>1. Pool!Next \/ PoolStutter
      BY OpenStep DEF Pool!vars, PoolStutter
  <2>2. InReach(OpenTasks', Incumbent')
      BY <2>1, ReachStep
  <2>. QED
      BY <2>2 DEF InReach
<1>3. InReach(OpenTasks, Incumbent) => Pool!OptimumInReach /\ Pool!Exact
    BY DEF InReach, Pool!OptimumInReach, Pool!Exact
<1>. QED
    BY <1>1, <1>2, <1>3, OpenInvariant, PTL DEF Spec

-----------------------------------------------------------------------------
(* The news.  A schedule of cost c, or a better one, is told in a queue.   *)

FloodAt(q, i, c) == q[i].type = Schedules /\ q[i].cost <= c
Flooded(q, c) == \E i \in 1 .. Len(q) : FloodAt(q, i, c)
NoBetter(q, c) == \A i \in 1 .. Len(q) : q[i].type = Schedules => c <= q[i].cost

(* What s tells it has stored itself; and a neighbour knows a schedule as  *)
(* good as that of s, or is being told one.                                *)
Fresh(s, d) == NoBetter(net[s][d], best[s])
Told(s, d) == best[d] <= best[s] \/ Flooded(net[s][d], best[s])
Gossip ==
    \A s \in Node : (\A d \in Node : Fresh(s, d)) /\ (\A d \in Neighbour(s) : Told(s, d))
GossipInv == TypeOK /\ Gossip

(* n stores c, if that is better, and tells every neighbour that it did.   *)
Says(n, nw, c, out) ==
    /\ out \in Outputs /\ c \in Nat /\ c <= best[n] /\ best' = Stored(best, n, c)
    /\ Sends(nw, n, out, net')
    /\ \A d \in Node : \A i \in 1 .. Len(out[d]) : out[d][i].type = Schedules => out[d][i].cost = c
    /\ c < best[n] => \A d \in Neighbour(n) : Flooded(out[d], c)

(* It has c from s, or had it. *)
Hears(n, s, c) ==
    /\ net[s][n] # << >>
    /\ Packet(n, s).type = Schedules => c <= Packet(n, s).cost
    /\ c = best[n] \/ (Packet(n, s).type = Schedules /\ c = Packet(n, s).cost)

LEMMA NeighbourType == \A n \in Node : Neighbour(n) \subseteq Node
BY ParentType DEF Neighbour, Children

LEMMA FloodCost ==
    ASSUME NEW q \in Seq(Message), NEW i \in 1 .. Len(q), q[i].type = Schedules
    PROVE  q[i].cost \in Nat
<1>1. q[i] \in Message
    OBVIOUS
<1>. QED
    BY <1>1 DEF Message, Schedules

LEMMA FloodsAppended ==
    ASSUME NEW q \in Seq(Message), NEW r \in Seq(Message), NEW c
    PROVE  /\ Flooded(q, c) \/ Flooded(r, c) => Flooded(q \o r, c)
           /\ NoBetter(q, c) /\ NoBetter(r, c) => NoBetter(q \o r, c)
<1>1. Flooded(q, c) => Flooded(q \o r, c)
    BY AppendedAt DEF Flooded, FloodAt
<1>2. Flooded(r, c) => Flooded(q \o r, c)
  <2>. SUFFICES ASSUME NEW i \in 1 .. Len(r), FloodAt(r, i, c) PROVE Flooded(q \o r, c)
      BY DEF Flooded
  <2>1. Len(q) + i \in 1 .. Len(q \o r) /\ (q \o r)[Len(q) + i] = r[i]
      BY AppendedAt
  <2>. QED
      BY <2>1 DEF Flooded, FloodAt
<1>3. NoBetter(q, c) /\ NoBetter(r, c) => NoBetter(q \o r, c)
    BY AppendedAt DEF NoBetter
<1>. QED
    BY <1>1, <1>2, <1>3

LEMMA FloodsTaken ==
    ASSUME NEW q \in Seq(Message), q # << >>, NEW c
    PROVE  /\ Flooded(q, c) => FloodAt(q, 1, c) \/ Flooded(Tail(q), c)
           /\ NoBetter(q, c) => NoBetter(Tail(q), c)
<1>1. Flooded(q, c) => FloodAt(q, 1, c) \/ Flooded(Tail(q), c)
  <2>. SUFFICES ASSUME NEW i \in 1 .. Len(q), FloodAt(q, i, c), ~FloodAt(q, 1, c)
                PROVE  Flooded(Tail(q), c)
      BY DEF Flooded
  <2>1. i \in 2 .. Len(q)
      OBVIOUS
  <2>2. i - 1 \in 1 .. Len(Tail(q)) /\ Tail(q)[i - 1] = q[i]
      BY <2>1, TailAt
  <2>. QED
      BY <2>2 DEF Flooded, FloodAt
<1>2. NoBetter(q, c) => NoBetter(Tail(q), c)
    BY TailAt DEF NoBetter
<1>. QED
    BY <1>1, <1>2

LEMMA NoBetterThan ==
    ASSUME NEW q \in Seq(Message), NEW c \in Nat, NEW c2 \in Nat, c2 <= c, NoBetter(q, c)
    PROVE  NoBetter(q, c2)
<1>. SUFFICES ASSUME NEW i \in 1 .. Len(q), q[i].type = Schedules PROVE c2 <= q[i].cost
    BY DEF NoBetter
<1>1. q[i].cost \in Nat /\ c <= q[i].cost
    BY FloodCost DEF NoBetter
<1>. QED
    BY <1>1

LEMMA GossipKept ==
    ASSUME GossipInv, NEW n \in Node, NEW nw, NEW c, NEW out, Says(n, nw, c, out),
           \/ nw = net
           \/ \E s \in Node \ {n} : nw = Consumed(n, s) /\ Hears(n, s, c)
    PROVE  Gossip'
<1>. SUFFICES ASSUME NEW a \in Node, NEW b \in Node
              PROVE  Fresh(a, b)' /\ (b \in Neighbour(a) => Told(a, b)')
    BY NeighbourType DEF Gossip
<1>. DEFINE q == net[a][b]
            mid == nw[a][b]
            q2 == net'[a][b]
            r == out[b]
<1>1. /\ TypeOK /\ q \in Seq(Message) /\ r \in Seq(Message)
      /\ best[a] \in Nat /\ best[b] \in Nat /\ best[n] \in Nat /\ c \in Nat /\ c <= best[n]
  <2>1. TypeOK /\ out \in Outputs /\ c \in Nat /\ c <= best[n]
      BY DEF GossipInv, Says
  <2>2. q \in Seq(Message) /\ r \in Seq(Message)
      BY <2>1 DEF TypeOK, Outputs
  <2>3. best[a] \in Nat /\ best[b] \in Nat /\ best[n] \in Nat
      BY <2>1 DEF TypeOK
  <2>. QED
      BY <2>1, <2>2, <2>3
<1>2. /\ best'[a] = IF a = n THEN c ELSE best[a]
      /\ best'[b] = IF b = n THEN c ELSE best[b]
    BY DEF Says, Stored, GossipInv, TypeOK
<1>3. q2 = IF a = n THEN mid \o r ELSE mid
    BY DEF Says, Sends
<1>4. \/ mid = q
      \/ /\ b = n /\ a # n /\ q # << >> /\ mid = Tail(q)
         /\ q[1].type = Schedules => c <= q[1].cost
  <2>1. nw = net => mid = q
      OBVIOUS
  <2>2. ASSUME NEW s \in Node \ {n}, nw = Consumed(n, s), Hears(n, s, c)
        PROVE  \/ mid = q
               \/ /\ b = n /\ a # n /\ q # << >> /\ mid = Tail(q)
                  /\ q[1].type = Schedules => c <= q[1].cost
    <3>1. mid = IF a = s /\ b = n THEN Tail(q) ELSE q
        BY <1>1, <2>2, ConsumedType DEF Hears
    <3>2. a = s /\ b = n => q # << >> /\ Packet(n, s) = q[1]
        BY <1>1, <2>2 DEF Hears, Packet
    <3>. QED
        BY <2>2, <3>1, <3>2 DEF Hears
  <2>. QED
      BY <2>1, <2>2
<1>5. /\ NoBetter(q, best[a]) /\ (b \in Neighbour(a) => best[b] <= best[a] \/ Flooded(q, best[a]))
      /\ (b \in Neighbour(a) => a # b)
      /\ \A i \in 1 .. Len(r) : r[i].type = Schedules => r[i].cost = c
      /\ c < best[n] => (b \in Neighbour(n) => Flooded(r, c))
    BY NeighboursApart DEF GossipInv, Gossip, Fresh, Told, Says
<1>. HIDE DEF q, mid, q2, r
<1>6. mid \in Seq(Message) /\ NoBetter(mid, best[a])
  <2>1. q # << >> => Tail(q) \in Seq(Message) /\ NoBetter(Tail(q), best[a])
      BY <1>1, <1>5, FloodsTaken
  <2>. QED
      BY <1>1, <1>4, <1>5, <2>1
<1>7. NoBetter(q2, best'[a])
  <2>1. CASE a = n
    <3>1. NoBetter(mid, c)
        BY <1>1, <1>6, <2>1, NoBetterThan
    <3>2. NoBetter(r, c)
        BY <1>1, <1>5 DEF NoBetter
    <3>. QED
        BY <1>1, <1>2, <1>3, <1>6, <2>1, <3>1, <3>2, FloodsAppended
  <2>. QED
      BY <1>2, <1>3, <1>6, <2>1
<1>8. b \in Neighbour(a) => best'[b] <= best'[a] \/ Flooded(q2, best'[a])
  <2>. SUFFICES ASSUME b \in Neighbour(a) PROVE best'[b] <= best'[a] \/ Flooded(q2, best'[a])
      OBVIOUS
  <2>1. CASE a = n /\ c < best[n]
      BY <1>1, <1>2, <1>3, <1>5, <1>6, <2>1, FloodsAppended
  <2>2. CASE a = n /\ ~(c < best[n])
    <3>1. c = best[a] /\ mid = q /\ best'[b] = best[b]
        BY <1>1, <1>2, <1>4, <1>5, <2>2
    <3>. QED
        BY <1>1, <1>2, <1>3, <1>5, <2>2, <3>1, FloodsAppended
  <2>3. CASE a # n
    <3>1. best'[b] <= best[b] /\ best'[a] = best[a] /\ q2 = mid
        BY <1>1, <1>2, <1>3, <2>3
    <3>2. CASE best[b] <= best[a]
        BY <1>1, <1>2, <3>1, <3>2
    <3>3. CASE Flooded(q, best[a]) /\ mid = q
        BY <3>1, <3>3
    <3>4. CASE Flooded(q, best[a]) /\ mid # q
      <4>1. b = n /\ q # << >> /\ mid = Tail(q) /\ (q[1].type = Schedules => c <= q[1].cost)
          BY <1>4, <3>4
      <4>2. CASE FloodAt(q, 1, best[a])
        <5>1. q[1].type = Schedules /\ q[1].cost <= best[a] /\ c <= q[1].cost
            BY <4>1, <4>2 DEF FloodAt
        <5>2. q[1].cost \in Nat
            BY <1>1, <4>1, <5>1, FloodCost
        <5>3. c <= best[a]
            BY <1>1, <5>1, <5>2
        <5>. QED
            BY <1>2, <3>1, <4>1, <5>3
      <4>. QED
          BY <1>1, <3>1, <3>4, <4>1, <4>2, FloodsTaken
    <3>. QED
        BY <1>5, <3>2, <3>3, <3>4
  <2>. QED
      BY <2>1, <2>2, <2>3
<1>. QED
    BY <1>7, <1>8 DEF Fresh, Told, q2

(* The turns and handlers tell what they must. *)
LEMMA TellAll ==
    ASSUME NEW n \in Node, NEW c \in Nat
    PROVE  LET flood == ToAll(Neighbour(n), Optimal(c))
           IN  /\ flood \in Outputs
               /\ \A d \in Node : \A i \in 1 .. Len(flood[d]) : flood[d][i].cost = c
               /\ \A d \in Neighbour(n) : Flooded(flood[d], c)
<1>. DEFINE flood == ToAll(Neighbour(n), Optimal(c))
<1>1. flood \in Outputs
    BY MessageType, ToAllType
<1>2. \A d \in Node : flood[d] = IF d \in Neighbour(n) THEN <<Optimal(c)>> ELSE << >>
    BY DEF ToAll
<1>3. ASSUME NEW d \in Node, NEW i \in 1 .. Len(flood[d]) PROVE flood[d][i].cost = c
  <2>1. flood[d] = <<Optimal(c)>>
      BY <1>2, <1>3
  <2>. QED
      BY <1>3, <2>1 DEF Optimal
<1>4. ASSUME NEW d \in Neighbour(n) PROVE Flooded(flood[d], c)
  <2>1. flood[d] = <<Optimal(c)>>
      BY <1>2, NeighbourType
  <2>2. FloodAt(<<Optimal(c)>>, 1, c)
      BY DEF FloodAt, Optimal, Schedules
  <2>. QED
      BY <2>1, <2>2 DEF Flooded
<1>. QED
    BY <1>1, <1>3, <1>4

LEMMA IdleSays ==
    ASSUME TypeOK, NEW n \in Node, IdleTurn(n)
    PROVE  best' = best /\ \E out : Says(n, net, best[n], out)
<1>1. PICK out \in Outputs : Only(out, Controls) /\ Sends(net, n, out, net')
    BY IdleSends
<1>2. best' = best /\ best[n] \in Nat /\ Stored(best, n, best[n]) = best
    BY IdleSends DEF TypeOK, Stored
<1>3. \A d \in Node : \A i \in 1 .. Len(out[d]) : out[d][i].type # Schedules
    BY <1>1 DEF Only, Controls, Schedules
<1>. QED
    BY <1>1, <1>2, <1>3 DEF Says

LEMMA ExploreSays ==
    ASSUME TypeOK, NEW n \in Node, Explore(n)
    PROVE  \E c, out : Says(n, net, c, out)
<1>0. PICK share \in Sharings(n) : \E t \in Kept(n, share) :
         \/ best' = best /\ net' = Serving(n, share)
         \/ /\ Bound[t] < best[n] /\ best' = Stored(best, n, Bound[t])
            /\ net' = Post(Serving(n, share), n, ToAll(Neighbour(n), Optimal(Bound[t])))
    BY Zenon DEF Explore, ExploreLeaf, ExploreBranch, ExplorePrune, Serving, Stored
<1>1. PICK t \in Kept(n, share) :
         \/ best' = best /\ net' = Serving(n, share)
         \/ /\ Bound[t] < best[n] /\ best' = Stored(best, n, Bound[t])
            /\ net' = Post(Serving(n, share), n, ToAll(Neighbour(n), Optimal(Bound[t])))
    BY <1>0
<1>. DEFINE gives == Shared(n, share)
            c == Bound[t]
            flood == ToAll(Neighbour(n), Optimal(c))
<1>2. /\ gives \in Outputs
      /\ \A d \in Node : \A i \in 1 .. Len(gives[d]) : gives[d][i].type # Schedules
    BY SharingType DEF Schedules
<1>3. net \in [Node -> Outputs] /\ best[n] \in Nat /\ Stored(best, n, best[n]) = best
    BY DEF TypeOK, Outputs, Stored
<1>4. c \in Nat
    BY SharingType, TaskAssumption DEF TypeOK
<1>5. /\ flood \in Outputs
      /\ \A d \in Node : \A i \in 1 .. Len(flood[d]) : flood[d][i].cost = c
      /\ \A d \in Neighbour(n) : Flooded(flood[d], c)
    BY <1>4, TellAll
<1>6. \/ best' = best /\ net' = Post(net, n, gives)
      \/ c < best[n] /\ best' = Stored(best, n, c) /\ net' = Post(Post(net, n, gives), n, flood)
    BY <1>1 DEF Serving
<1>. HIDE DEF gives, flood, c
<1>7. Sends(net, n, gives, Post(net, n, gives))
    BY <1>2, <1>3, PostType
<1>8. CASE best' = best /\ net' = Post(net, n, gives)
    BY <1>2, <1>3, <1>7, <1>8 DEF Says
<1>9. CASE c < best[n] /\ best' = Stored(best, n, c) /\ net' = Post(Post(net, n, gives), n, flood)
  <2>. DEFINE out == Join(gives, flood)
  <2>1. Post(net, n, gives) \in [Node -> Outputs]
      BY <1>7 DEF Sends
  <2>2. Sends(Post(net, n, gives), n, flood, net')
      BY <1>5, <1>9, <2>1, PostType
  <2>3. Sends(net, n, out, net') /\ out \in Outputs
      BY <1>2, <1>3, <1>5, <1>7, <2>2, SendsTwice, JoinType
  <2>4. ASSUME NEW d \in Node
        PROVE  /\ out[d] = gives[d] \o flood[d]
               /\ gives[d] \in Seq(Message) /\ flood[d] \in Seq(Message)
      BY <1>2, <1>5 DEF Join, Outputs
  <2>. HIDE DEF out
  <2>5. ASSUME NEW d \in Node, NEW i \in 1 .. Len(out[d]), out[d][i].type = Schedules
        PROVE  out[d][i].cost = c
    <3>1. \/ \E j \in 1 .. Len(gives[d]) : out[d][i] = gives[d][j]
          \/ \E j \in 1 .. Len(flood[d]) : out[d][i] = flood[d][j]
      <4>. DEFINE q == gives[d]
                  r == flood[d]
      <4>1. q \in Seq(Message) /\ r \in Seq(Message) /\ out[d] = q \o r
        <5>. HIDE DEF gives, flood
        <5>. QED
            BY <2>4
      <4>. HIDE DEF q, r
      <4>2. i \in 1 .. Len(q \o r)
          BY <2>5, <4>1
      <4>3. \/ \E j \in 1 .. Len(q) : (q \o r)[i] = q[j]
            \/ \E j \in 1 .. Len(r) : (q \o r)[i] = r[j]
        <5>1. CASE i \in 1 .. Len(q)
            BY <4>1, <5>1, AppendedAt
        <5>2. CASE i \notin 1 .. Len(q)
            BY <4>1, <4>2, <5>2, AppendedAt
        <5>. QED
            BY <5>1, <5>2
      <4>4. \/ \E j \in 1 .. Len(q) : out[d][i] = q[j]
            \/ \E j \in 1 .. Len(r) : out[d][i] = r[j]
          BY <4>1, <4>3
      <4>. QED
          BY Zenon, <4>4 DEF q, r
    <3>. QED
        BY <1>2, <1>5, <2>5, <3>1
  <2>6. ASSUME NEW d \in Neighbour(n) PROVE Flooded(out[d], c)
    <3>1. d \in Node
        BY NeighbourType
    <3>. QED
        BY <1>5, <2>4, <3>1, FloodsAppended
  <2>7. c <= best[n]
      BY <1>3, <1>4, <1>9
  <2>. QED
      BY <1>4, <1>9, <2>3, <2>5, <2>6, <2>7 DEF Says
<1>. QED
    BY <1>6, <1>8, <1>9

LEMMA ReceiveSays ==
    ASSUME TypeOK, NEW n \in Node, NEW s \in Node \ {n}, Receive(n, s)
    PROVE  \E c, out : Says(n, Consumed(n, s), c, out) /\ Hears(n, s, c)
<1>1. net[s][n] # << >>
    BY DEF Receive, RecvWork, RecvReject, RecvWorkRequest, RecvOptimalSolution, RecvVote,
           RecvRestart, RecvTermination, Arrived
<1>2. /\ Consumed(n, s) \in Nets /\ Packet(n, s) \in Message
      /\ best[n] \in Nat /\ Stored(best, n, best[n]) = best
    BY <1>1, ConsumedType DEF Nets, TypeOK, Stored
<1>3. Sends(Consumed(n, s), n, Nothing, Consumed(n, s)) /\ Nothing \in Outputs
    BY <1>2, SendsNothing
<1>4. \A d \in Node : \A i \in 1 .. Len(Nothing[d]) : FALSE
    BY DEF Nothing
<1>5. \A out \in Outputs : Sends(Consumed(n, s), n, out, Post(Consumed(n, s), n, out))
    BY <1>2, PostType DEF Nets
<1>6. CASE RecvOptimalSolution(n, s)
  <2>. DEFINE cost == Packet(n, s).cost
              c == IF cost < best[n] THEN cost ELSE best[n]
              flood == ToAll(Neighbour(n), Optimal(c))
  <2>1. /\ Packet(n, s).type = Schedules /\ best' = Stored(best, n, c)
        /\ \/ net' = Post(Consumed(n, s), n, flood)
           \/ ~(cost < best[n]) /\ net' = Consumed(n, s)
      BY <1>6 DEF RecvOptimalSolution, Arrived, Packet, Schedules, Stored
  <2>2. cost \in Nat
      BY <1>2, <2>1 DEF Message, Schedules
  <2>3. /\ c \in Nat /\ c <= best[n] /\ c <= cost /\ (c = best[n] \/ c = cost)
        /\ ~(cost < best[n]) => ~(c < best[n])
      BY <1>2, <2>2
  <2>4. Hears(n, s, c)
      BY <1>1, <2>1, <2>3 DEF Hears
  <2>5. ~(c < best[n]) => c = best[n]
      BY <1>2, <2>3
  <2>. HIDE DEF c
  <2>6. /\ flood \in Outputs
        /\ \A d \in Node : \A i \in 1 .. Len(flood[d]) : flood[d][i].cost = c
        /\ \A d \in Neighbour(n) : Flooded(flood[d], c)
      BY <2>3, TellAll
  <2>. HIDE DEF flood
  <2>7. CASE net' = Post(Consumed(n, s), n, flood)
    <3>1. Sends(Consumed(n, s), n, flood, net')
        BY <1>5, <2>6, <2>7
    <3>2. Says(n, Consumed(n, s), c, flood)
      <4>. HIDE DEF Consumed
      <4>. QED
          BY <2>1, <2>3, <2>6, <3>1 DEF Says
    <3>. QED
        BY <2>4, <3>2
  <2>8. CASE ~(cost < best[n]) /\ net' = Consumed(n, s)
    <3>1. Sends(Consumed(n, s), n, Nothing, net') /\ ~(c < best[n])
        BY <1>3, <2>3, <2>8
    <3>. QED
        BY <1>3, <1>4, <2>1, <2>3, <2>4, <3>1 DEF Says
  <2>. QED
      BY <2>1, <2>7, <2>8
<1>7. CASE ~RecvOptimalSolution(n, s)
  <2>1. /\ best' = best /\ Packet(n, s).type # Schedules
        /\ \/ net' = Consumed(n, s)
           \/ net' = Post(Consumed(n, s), n, ToAll(Children(n), Restart))
           \/ net' = Post(Consumed(n, s), n, ToAll(Children(n), Terminate))
    <3>1. CASE RecvWork(n, s)
        BY <3>1 DEF RecvWork, Arrived, Packet, Schedules
    <3>2. CASE RecvReject(n, s) \/ RecvWorkRequest(n, s) \/ RecvVote(n, s)
        BY <3>2 DEF RecvReject, RecvWorkRequest, RecvVote, Arrived, Packet, Schedules, searchVars
    <3>3. CASE RecvRestart(n, s) \/ RecvTermination(n, s)
        BY <3>3 DEF RecvRestart, RecvTermination, Arrived, Packet, Schedules, searchVars
    <3>. QED
        BY <1>7, <3>1, <3>2, <3>3 DEF Receive
  <2>2. Hears(n, s, best[n])
      BY <1>1, <2>1 DEF Hears
  <2>3. \E out \in Outputs : Only(out, Controls) /\ Sends(Consumed(n, s), n, out, net')
    <3>1. \A D : /\ ToAll(D, Restart) \in Outputs /\ Only(ToAll(D, Restart), Controls)
                 /\ ToAll(D, Terminate) \in Outputs /\ Only(ToAll(D, Terminate), Controls)
        BY MessageType, ToAllType, ToAllOnly DEF Restart, Terminate, Controls
    <3>2. Only(Nothing, Controls)
        BY <1>4 DEF Only
    <3>. QED
        BY <1>3, <1>5, <2>1, <3>1, <3>2
  <2>4. PICK out \in Outputs : Only(out, Controls) /\ Sends(Consumed(n, s), n, out, net')
      BY <2>3
  <2>5. \A d \in Node : \A i \in 1 .. Len(out[d]) : out[d][i].type # Schedules
      BY <2>4 DEF Only, Controls, Schedules
  <2>6. Says(n, Consumed(n, s), best[n], out)
    <3>. HIDE DEF Consumed
    <3>. QED
        BY <1>2, <2>1, <2>4, <2>5 DEF Says
  <2>. QED
      BY <2>2, <2>6
<1>. QED
    BY <1>6, <1>7

LEMMA GossipStep == GossipInv /\ [Next]_vars => GossipInv'
<1>. SUFFICES ASSUME GossipInv, [Next]_vars PROVE Gossip'
    BY TypeStep DEF GossipInv
<1>1. ASSUME UNCHANGED <<best, net>> PROVE Gossip'
    BY <1>1 DEF GossipInv, Gossip, Fresh, Told
<1>2. ASSUME NEW n \in Node, Trigger(n) PROVE Gossip'
    BY <1>1, <1>2 DEF Trigger, searchVars
<1>3. CASE UNCHANGED vars
    BY <1>1, <1>3 DEF vars, searchVars
<1>4. ASSUME NEW n \in Node, Explore(n) \/ IdleTurn(n) PROVE Gossip'
  <2>1. PICK c, out : Says(n, net, c, out)
      BY <1>4, ExploreSays, IdleSays DEF GossipInv
  <2>. QED
      BY <2>1, GossipKept
<1>5. ASSUME NEW n \in Node, NEW s \in Node \ {n}, Receive(n, s) PROVE Gossip'
  <2>1. PICK c, out : Says(n, Consumed(n, s), c, out) /\ Hears(n, s, c)
      BY <1>5, ReceiveSays DEF GossipInv
  <2>. QED
      BY <2>1, GossipKept
<1>. QED
    BY <1>2, <1>3, <1>4, <1>5 DEF Next, Finished

LEMMA GossipInit == Init => GossipInv
<1>. SUFFICES ASSUME Init PROVE Gossip
    BY TypeInit DEF GossipInv
<1>1. \A s \in Node : \A d \in Node : net[s][d] = << >> /\ best[d] = best[s] /\ best[s] \in Nat
    BY TaskAssumption DEF Init
<1>. QED
    BY <1>1, NeighbourType DEF Gossip, Fresh, Told, NoBetter

(***************************************************************************)
(* A better schedule is never kept from a neighbour: parent and children   *)
(* have one as good, or are being told one, whatever has crossed it.       *)
(***************************************************************************)
THEOREM NewsIsOnItsWay == Spec => []Gossip
<1>1. GossipInv => Gossip
    BY DEF GossipInv
<1>. QED
    BY <1>1, GossipInit, GossipStep, PTL DEF Spec

-----------------------------------------------------------------------------
(* The end of the search, with two nodes: the news overtakes the votes.    *)

(* Every packet m in the queue is behind a schedule of cost c or better.   *)
Behind(q, c, m) == \A k \in 1 .. Len(q) : q[k] = m => \E i \in 1 .. k - 1 : FloodAt(q, i, c)
Yes == Vote(1)

(* The root has the child's schedule, or will before a positive vote       *)
(* counts; and the child has the root's, or will before the end.           *)
RootKnows == best[0] <= best[1] \/ Behind(Up, best[1], Yes)
ChildKnows ==
    best[1] <= best[0] \/ (~jobFinished[1] /\ Behind(Down, best[0], Terminate))
Late ==
    /\ terminationSignal[0] # 2 =>
          RootKnows /\ (childSignal[1] = 1 => best[0] <= best[1])
    /\ jobFinished[0] => best[0] <= best[1] /\ ChildKnows
LateInv == TwoInv /\ GossipInv /\ Late

LEMMA BehindMore ==
    ASSUME NEW q \in Seq(Message), NEW r \in Seq(Message), NEW c, NEW m,
           Behind(q, c, m), Flooded(q, c)
    PROVE  Behind(q \o r, c, m)
<1>. SUFFICES ASSUME NEW k \in 1 .. Len(q \o r), (q \o r)[k] = m
              PROVE  \E i \in 1 .. k - 1 : FloodAt(q \o r, i, c)
    BY DEF Behind
<1>1. \A i \in 1 .. Len(q) : FloodAt(q, i, c) => FloodAt(q \o r, i, c)
    BY AppendedAt DEF FloodAt
<1>2. CASE k \in 1 .. Len(q)
  <2>1. q[k] = m
      BY <1>2, AppendedAt
  <2>2. PICK i \in 1 .. k - 1 : FloodAt(q, i, c)
      BY <1>2, <2>1 DEF Behind
  <2>3. i \in 1 .. Len(q)
      BY <1>2, <2>2
  <2>. QED
      BY <1>1, <2>2, <2>3
<1>3. CASE ~(k \in 1 .. Len(q))
  <2>1. k > Len(q) /\ Len(q) \in Nat
      BY <1>3, AppendedAt
  <2>2. PICK i \in 1 .. Len(q) : FloodAt(q, i, c)
      BY DEF Flooded
  <2>3. i \in 1 .. k - 1
      BY <2>1, <2>2
  <2>. QED
      BY <1>1, <2>2, <2>3
<1>. QED
    BY <1>2, <1>3

LEMMA BehindTaken ==
    ASSUME NEW q \in Seq(Message), q # << >>, NEW c, NEW m, Behind(q, c, m)
    PROVE  q[1] # m /\ (FloodAt(q, 1, c) \/ Behind(Tail(q), c, m))
<1>1. q[1] # m
  <2>1. 1 \in 1 .. Len(q) /\ 1 .. 1 - 1 = {}
      BY TailAt
  <2>. QED
      BY <2>1 DEF Behind
<1>2. ASSUME ~FloodAt(q, 1, c) PROVE Behind(Tail(q), c, m)
  <2>. SUFFICES ASSUME NEW k \in 1 .. Len(Tail(q)), Tail(q)[k] = m
                PROVE  \E i \in 1 .. k - 1 : FloodAt(Tail(q), i, c)
      BY DEF Behind
  <2>1. k + 1 \in 1 .. Len(q) /\ q[k + 1] = m
      BY TailAt
  <2>2. PICK i \in 1 .. (k + 1) - 1 : FloodAt(q, i, c)
      BY <2>1 DEF Behind
  <2>3. i \in 2 .. Len(q) /\ i - 1 \in 1 .. k - 1
    <3>1. i # 1
        BY <1>2, <2>2
    <3>. QED
        BY <2>1, <2>2, <3>1
  <2>4. FloodAt(Tail(q), i - 1, c)
      BY <2>2, <2>3, TailAt DEF FloodAt
  <2>. QED
      BY <2>3, <2>4
<1>. QED
    BY <1>1, <1>2

LEMMA NoneBehind ==
    ASSUME NEW q \in Seq(Message), NEW c
    PROVE  /\ ~PositiveIn(q) => Behind(q, c, Yes)
           /\ NoEnd(q) => Behind(q, c, Terminate)
BY DEF Behind, PositiveIn, NoEnd, Yes, Vote, Terminate

(* What the invariants say of two nodes. *)
LEMMA TwoFacts ==
    ASSUME N = 2, LateInv
    PROVE  /\ TypeOK /\ TwoInv /\ GossipInv /\ VoteInv /\ Pending /\ Ends
           /\ Up \in Seq(Message) /\ Down \in Seq(Message)
           /\ best[0] \in Nat /\ best[1] \in Nat
           /\ best[0] <= best[1] \/ Flooded(Up, best[1])
           /\ best[1] <= best[0] \/ Flooded(Down, best[0])
           /\ NoBetter(Up, best[1]) /\ NoBetter(Down, best[0])
<1>1. /\ TypeOK /\ TwoInv /\ GossipInv /\ VoteInv /\ Pending /\ Ends
    BY DEF LateInv, GossipInv, TwoInv
<1>2. Up \in Seq(Message) /\ Down \in Seq(Message) /\ best[0] \in Nat /\ best[1] \in Nat
    BY <1>1, TwoNodes DEF TypeOK, Up, Down
<1>3. 0 \in Neighbour(1) /\ 1 \in Neighbour(0)
    BY TwoNodes DEF Neighbour
<1>4. Told(1, 0) /\ Told(0, 1) /\ Fresh(1, 0) /\ Fresh(0, 1)
    BY <1>1, <1>3, TwoNodes DEF GossipInv, Gossip
<1>. QED
    BY <1>1, <1>2, <1>4 DEF Told, Fresh, Up, Down

LEMMA LateExplore ==
    ASSUME N = 2, LateInv, NEW n \in Node, Explore(n)
    PROVE  Late'
<1>1. TypeOK /\ TwoInv /\ Ends /\ Pending
    BY TwoFacts
<1>2. tree[n] # {} /\ ~jobFinished[n]
    BY DEF Explore, ExploreLeaf, ExploreBranch, ExplorePrune, Working
<1>3. /\ UNCHANGED <<childSignal, jobFinished>>
      /\ terminationSignal'[0] \in {terminationSignal[0], 2}
    BY <1>1, ExploreType, TwoNodes
<1>4. ~jobFinished'[0]
    BY <1>1, <1>2, <1>3, TwoNodes DEF Ends, Still
<1>5. PICK c, out : Says(n, net, c, out)
    BY <1>1, ExploreSays
<1>6. CASE n = 0
  <2>1. best'[1] = best[1] /\ best'[0] = c /\ c <= best[0] /\ c \in Nat
      BY <1>1, <1>5, <1>6, TwoNodes DEF Says, Stored, TypeOK
  <2>2. Up' = Up
      BY <1>5, <1>6, TwoNodes DEF Says, Sends, Up
  <2>3. best[0] <= best[1] => best'[0] <= best'[1]
      BY <2>1, TwoFacts
  <2>4. RootKnows => RootKnows'
      BY <2>1, <2>2, <2>3 DEF RootKnows
  <2>. QED
      BY <1>3, <1>4, <2>3, <2>4 DEF LateInv, Late
<1>7. CASE n = 1
  <2>1. ~Still
      BY <1>2, <1>7 DEF Still
  <2>2. terminationSignal'[0] # 2 => ~PositiveIn(Up) /\ childSignal'[1] # 1
      BY <1>1, <1>3, <2>1 DEF Pending
  <2>3. /\ PositiveIn(Up') => PositiveIn(Up)
        /\ Up' \in Seq(Message)
    <3>1. PICK r \in Outputs :
             /\ Sends(net, n, r, net')
             /\ Only(r, {"BB_PROBLEM_PACKET", "OPTIMAL_SOLUTION_FOUND"})
        BY <1>1, ExploreType
    <3>2. Up' = Up \o r[0] /\ r[0] \in Seq(Message) /\ Up \in Seq(Message)
        BY <1>7, <3>1, TwoFacts, TwoNodes DEF Sends, Outputs, Up
    <3>3. ~PositiveIn(r[0])
        BY <3>1, TwoNodes DEF Only, PositiveIn
    <3>. QED
        BY <3>2, <3>3, PositiveSplit
  <2>4. terminationSignal'[0] # 2 => Behind(Up', best'[1], Yes)
      BY <2>2, <2>3, NoneBehind
  <2>. QED
      BY <1>4, <2>2, <2>4 DEF Late, RootKnows
<1>. QED
    BY <1>6, <1>7, TwoNodes

(* A turn that stores nothing leaves the news ahead of what it sends. *)
LEMMA LateSent ==
    ASSUME N = 2, LateInv, NEW n \in Node, NEW out, best' = best, Says(n, net, best[n], out)
    PROVE  /\ n = 1 => Down' = Down /\ (RootKnows => RootKnows')
           /\ n = 0 => /\ Up' = Up
                       /\ Behind(Down, best[0], Terminate) =>
                             best[1] <= best[0] \/ Behind(Down', best'[0], Terminate)
<1>1. out \in Outputs /\ Sends(net, n, out, net')
    BY DEF Says
<1>2. CASE n = 1
  <2>1. Up' = Up \o out[0] /\ Down' = Down /\ out[0] \in Seq(Message)
      BY <1>1, <1>2, TwoNodes DEF Sends, Outputs, Up, Down
  <2>2. Behind(Up, best[1], Yes) /\ ~(best[0] <= best[1]) => Behind(Up', best[1], Yes)
      BY <2>1, TwoFacts, BehindMore
  <2>. QED
      BY <1>2, <2>1, <2>2 DEF RootKnows
<1>3. CASE n = 0
  <2>1. Down' = Down \o out[1] /\ Up' = Up /\ out[1] \in Seq(Message)
      BY <1>1, <1>3, TwoNodes DEF Sends, Outputs, Up, Down
  <2>2. Behind(Down, best[0], Terminate) /\ ~(best[1] <= best[0])
           => Behind(Down', best[0], Terminate)
      BY <2>1, TwoFacts, BehindMore
  <2>. QED
      BY <1>3, <2>1, <2>2
<1>. QED
    BY <1>2, <1>3, TwoNodes

LEMMA LateIdle ==
    ASSUME N = 2, LateInv, NEW n \in Node, IdleTurn(n)
    PROVE  Late'
<1>1. TypeOK /\ TwoInv /\ VoteInv /\ Ends /\ Pending
    BY TwoFacts
<1>2. best' = best /\ \E out : Says(n, net, best[n], out)
    BY <1>1, IdleSays
<1>3. /\ n = 1 => Down' = Down /\ (RootKnows => RootKnows')
      /\ n = 0 => /\ Up' = Up
                  /\ Behind(Down, best[0], Terminate) =>
                        best[1] <= best[0] \/ Behind(Down', best'[0], Terminate)
    BY <1>2, LateSent
<1>4. RootKnows => RootKnows'
    BY <1>2, <1>3, TwoNodes DEF RootKnows
<1>5. ~jobFinished[n]
    BY DEF IdleTurn, KeepAsking, CastVote, RestartVote, DetectTermination, AskForWork, Starving
<1>6. CASE KeepAsking(n) \/ CastVote(n)
  <2>1. /\ UNCHANGED <<childSignal, jobFinished>>
        /\ terminationSignal'[0] # 2 => terminationSignal[0] # 2
    <3>1. /\ UNCHANGED <<childSignal, jobFinished>>
          /\ terminationSignal' = [terminationSignal EXCEPT ![n] = Stand(n)]
        BY <1>6 DEF KeepAsking, CastVote
    <3>2. Stand(n) # 2 => terminationSignal[n] # 2
        BY DEF Stand
    <3>. QED
        BY <1>1, <3>1, <3>2, TwoNodes DEF TypeOK
  <2>2. jobFinished[0] => n = 1
      BY <1>5, TwoNodes
  <2>3. jobFinished[0] /\ ChildKnows => ChildKnows'
      BY <1>2, <1>3, <2>1, <2>2 DEF ChildKnows
  <2>. QED
      BY <1>2, <1>4, <2>1, <2>3 DEF LateInv, Late
<1>7. CASE n = Root /\ RestartVote
  <2>1. childSignal[1] # 0 /\ childSignal'[1] = 0 /\ ~jobFinished'[0]
      BY <1>5, <1>7, TwoNodes DEF RestartVote, AllVoted, ForgetVotes
  <2>2. ~PositiveIn(Up) /\ Up' = Up
      BY <1>1, <1>3, <1>7, <2>1, TwoChannels, TwoNodes
  <2>3. RootKnows'
      BY <2>2, NoneBehind, TwoFacts DEF RootKnows
  <2>. QED
      BY <2>1, <2>3 DEF Late
<1>8. CASE n = Root /\ DetectTermination
  <2>1. /\ childSignal[1] = 1 /\ terminationSignal[0] # 2 /\ childSignal' = childSignal
        /\ jobFinished'[1] = jobFinished[1]
      BY <1>1, <1>8, TwoNodes DEF DetectTermination, Unanimous, Stand, TypeOK
  <2>2. best'[0] <= best'[1]
      BY <1>2, <2>1 DEF LateInv, Late
  <2>3. NoEnd(Down) /\ ~jobFinished[1]
      BY <1>1, <1>5, <1>8, TwoNodes DEF Ends
  <2>4. ChildKnows'
      BY <1>2, <1>3, <1>8, <2>1, <2>3, NoneBehind, TwoFacts, TwoNodes DEF ChildKnows
  <2>. QED
      BY <2>2, <2>4 DEF Late, RootKnows
<1>. QED
    BY <1>6, <1>7, <1>8 DEF IdleTurn

LEMMA LateReceive ==
    ASSUME N = 2, LateInv, NEW n \in Node, NEW s \in Node \ {n}, Receive(n, s)
    PROVE  Late'
<1>1. /\ TypeOK /\ TwoInv /\ VoteInv /\ Ends /\ Pending
      /\ Up \in Seq(Message) /\ Down \in Seq(Message) /\ best[0] \in Nat /\ best[1] \in Nat
      /\ best[0] <= best[1] \/ Flooded(Up, best[1])
      /\ NoBetter(Up, best[1]) /\ NoBetter(Down, best[0])
    BY TwoFacts
<1>2. PICK c, out : Says(n, Consumed(n, s), c, out) /\ Hears(n, s, c)
    BY <1>1, ReceiveSays
<1>3. /\ net[s][n] # << >> /\ out \in Outputs /\ c \in Nat /\ c <= best[n]
      /\ Sends(Consumed(n, s), n, out, net') /\ best' = [best EXCEPT ![n] = c]
    BY <1>2 DEF Says, Hears, Stored
<1>4. ~jobFinished[n] /\ Packet(n, s).type \in {Works, Schedules} \cup Controls
    BY DEF Receive, RecvWork, RecvReject, RecvWorkRequest, RecvOptimalSolution, RecvVote,
           RecvRestart, RecvTermination, Arrived, Packet, Works, Schedules, Controls
<1>5. CASE n = 0 /\ s = 1
  <2>1. /\ Up # << >> /\ Up' = Tail(Up) /\ Packet(n, s) = Up[1]
        /\ best'[0] = c /\ best'[1] = best[1]
    <3>1. net'[1][0] = Consumed(n, s)[1][0]
        BY <1>3, <1>5, TwoNodes DEF Sends
    <3>2. Consumed(n, s)[1][0] = Tail(net[1][0])
        BY <1>1, <1>3, <1>5, ConsumedType
    <3>3. net[1][0] \in Seq(Message) /\ net[1][0] # << >> /\ Head(net[1][0]) = net[1][0][1]
        BY <1>1, <1>3, <1>5 DEF Up
    <3>4. best'[0] = c /\ best'[1] = best[1]
        BY <1>1, <1>3, <1>5, TwoNodes DEF TypeOK
    <3>. QED
        BY <1>5, <3>1, <3>2, <3>3, <3>4 DEF Up, Packet
  <2>2. ~jobFinished'[0]
    <3>1. ~RecvTermination(n, s)
      <4>1. 1 \in 1 .. Len(Up)
          BY <1>1, <2>1
      <4>2. Packet(n, s).type # "TERMINATION_SIGNAL"
          BY <1>1, <2>1, <4>1 DEF Ends, NoEnd
      <4>. QED
          BY <4>2 DEF RecvTermination, Arrived, Packet
    <3>2. UNCHANGED jobFinished
        BY <3>1 DEF Receive, RecvWork, RecvReject, RecvWorkRequest, RecvOptimalSolution,
                    RecvVote, RecvRestart
    <3>. QED
        BY <1>4, <1>5, <3>2
  <2>3. /\ terminationSignal'[0] # 2 => terminationSignal[0] # 2
        /\ terminationSignal'[0] # 2 /\ childSignal'[1] = 1 => childSignal[1] = 1 \/ Up[1] = Yes
    <3>1. CASE RecvVote(n, s)
      <4>1. /\ Packet(n, s).type = "VOTE_TERMINATION"
            /\ childSignal'[1] = Packet(n, s).signal
            /\ terminationSignal'[0] = IF Packet(n, s).signal = 2 THEN 2 ELSE terminationSignal[0]
          BY <1>1, <1>5, <3>1, TwoNodes DEF RecvVote, Arrived, Packet, TypeOK
      <4>2. Up[1] \in Message
          BY <1>1, <2>1
      <4>3. Up[1].type = "VOTE_TERMINATION" /\ Up[1].signal = 1 => Up[1] = Yes
          BY <4>2 DEF Message, Yes, Vote
      <4>. QED
          BY <1>1, <2>1, <4>1, <4>3, TwoNodes DEF TypeOK
    <3>2. CASE RecvRestart(n, s)
      <4>1. Packet(n, s).type = "RESTART_VOTING_TERMINATION"
          BY <3>2 DEF RecvRestart, Arrived, Packet
      <4>2. Count(Up, Restarts) # 0
        <5>1. 1 \in 1 .. Len(Up) /\ Up[1].type \in Restarts
            BY <1>1, <2>1, <4>1 DEF Restarts
        <5>. QED
            BY <1>1, <5>1, CountZero
      <4>3. Count(Up, Restarts) = 0
          BY <1>1, TwoNodes DEF VoteInv, OnlyParentsRestart, Up
      <4>. QED
          BY <4>2, <4>3
    <3>3. CASE ~RecvVote(n, s) /\ ~RecvRestart(n, s)
        BY <3>3 DEF Receive, RecvWork, RecvReject, RecvWorkRequest, RecvOptimalSolution,
                    RecvTermination, voteVars
    <3>. QED
        BY <3>1, <3>2, <3>3
  <2>4. best[0] <= best[1] => best'[0] <= best'[1]
      BY <1>1, <1>3, <1>5, <2>1
  <2>5. RootKnows => RootKnows' /\ (Up[1] = Yes => best'[0] <= best'[1])
    <3>. SUFFICES ASSUME RootKnows, ~(best'[0] <= best'[1])
                  PROVE  Behind(Up', best'[1], Yes) /\ Up[1] # Yes
        BY DEF RootKnows
    <3>1. Behind(Up, best[1], Yes)
        BY <2>4 DEF RootKnows
    <3>2. ~FloodAt(Up, 1, best[1])
      <4>. SUFFICES ASSUME FloodAt(Up, 1, best[1]) PROVE FALSE
          OBVIOUS
      <4>1. Up[1].type = Schedules /\ Up[1].cost <= best[1] /\ c <= Up[1].cost
          BY <1>2, <2>1 DEF FloodAt, Hears
      <4>2. Up[1].cost \in Nat
          BY <1>1, <2>1, <4>1, FloodCost
      <4>. QED
          BY <1>1, <1>3, <2>1, <4>1, <4>2
    <3>. QED
        BY <1>1, <2>1, <3>1, <3>2, BehindTaken
  <2>. QED
      BY <2>2, <2>3, <2>4, <2>5 DEF LateInv, Late
<1>6. CASE n = 1 /\ s = 0
  <2>1. /\ Down # << >> /\ Down' = Tail(Down) /\ Packet(n, s) = Down[1]
        /\ Up' = Up \o out[0] /\ out[0] \in Seq(Message)
        /\ best'[1] = c /\ best'[0] = best[0]
    <3>1. net'[0][1] = Consumed(n, s)[0][1] /\ net'[1][0] = Consumed(n, s)[1][0] \o out[0]
        BY <1>3, <1>6, TwoNodes DEF Sends
    <3>2. Consumed(n, s)[0][1] = Tail(net[0][1]) /\ Consumed(n, s)[1][0] = net[1][0]
        BY <1>1, <1>3, <1>6, ConsumedType
    <3>3. net[0][1] \in Seq(Message) /\ net[0][1] # << >> /\ Head(net[0][1]) = net[0][1][1]
        BY <1>1, <1>3, <1>6 DEF Down
    <3>4. best'[1] = c /\ best'[0] = best[0] /\ out[0] \in Seq(Message)
        BY <1>1, <1>3, <1>6, TwoNodes DEF TypeOK, Outputs
    <3>. QED
        BY <1>6, <3>1, <3>2, <3>3, <3>4 DEF Up, Down, Packet
  <2>2. /\ childSignal'[1] = childSignal[1] /\ jobFinished'[0] = jobFinished[0]
        /\ terminationSignal'[0] = terminationSignal[0]
    <3>1. CASE RecvVote(n, s)
        BY <1>6, <3>1, TwoNodes DEF RecvVote
    <3>2. CASE RecvRestart(n, s)
        BY <1>1, <1>6, <3>2, TwoNodes DEF RecvRestart, ForgetVotes, TypeOK
    <3>3. CASE RecvTermination(n, s)
        BY <1>1, <1>6, <3>3, TwoNodes DEF RecvTermination, voteVars, TypeOK
    <3>4. CASE ~RecvVote(n, s) /\ ~RecvRestart(n, s) /\ ~RecvTermination(n, s)
        BY <3>4 DEF Receive, RecvWork, RecvReject, RecvWorkRequest, RecvOptimalSolution, voteVars
    <3>. QED
        BY <3>1, <3>2, <3>3, <3>4
  <2>3. jobFinished'[1] => Down[1] = Terminate
    <3>1. CASE RecvTermination(n, s)
      <4>1. Down[1] \in Message /\ Down[1].type = "TERMINATION_SIGNAL"
          BY <1>1, <2>1, <3>1 DEF RecvTermination, Arrived, Packet
      <4>. QED
          BY <4>1 DEF Message, Terminate
    <3>2. CASE ~RecvTermination(n, s)
      <4>1. UNCHANGED jobFinished
          BY <3>2 DEF Receive, RecvWork, RecvReject, RecvWorkRequest, RecvOptimalSolution,
                      RecvVote, RecvRestart
      <4>. QED
          BY <1>4, <1>6, <4>1
    <3>. QED
        BY <3>1, <3>2
  <2>4. c = best[1] \/ best[0] <= c
    <3>. SUFFICES ASSUME c # best[1] PROVE best[0] <= c
        OBVIOUS
    <3>1. Down[1].type = Schedules /\ c = Down[1].cost
        BY <1>2, <1>6, <2>1 DEF Hears
    <3>2. 1 \in 1 .. Len(Down)
        BY <1>1, <2>1
    <3>. QED
        BY <1>1, <3>1, <3>2 DEF NoBetter
  <2>5. best[0] <= best[1] => best'[0] <= best'[1]
      BY <2>1, <2>4
  <2>6. RootKnows => RootKnows'
    <3>1. CASE c = best[1] /\ Behind(Up, best[1], Yes) /\ ~(best[0] <= best[1])
      <4>1. Behind(Up \o out[0], best[1], Yes)
          BY <1>1, <2>1, <3>1, BehindMore
      <4>. QED
          BY <2>1, <3>1, <4>1 DEF RootKnows
    <3>. QED
        BY <2>1, <2>4, <2>5, <3>1 DEF RootKnows
  <2>7. ChildKnows => ChildKnows'
    <3>1. CASE best[1] <= best[0]
      <4>1. best'[1] <= best'[0]
          BY <1>1, <1>3, <1>6, <2>1, <3>1
      <4>. QED
          BY <4>1 DEF ChildKnows
    <3>2. CASE Behind(Down, best[0], Terminate)
      <4>1. ~jobFinished'[1]
          BY <1>1, <2>1, <2>3, <3>2, BehindTaken
      <4>2. CASE FloodAt(Down, 1, best[0])
        <5>1. Down[1].type = Schedules /\ Down[1].cost <= best[0] /\ c <= Down[1].cost
            BY <1>2, <2>1, <4>2 DEF FloodAt, Hears
        <5>2. Down[1].cost \in Nat
            BY <1>1, <2>1, <5>1, FloodCost
        <5>3. best'[1] <= best'[0]
            BY <1>1, <1>3, <2>1, <5>1, <5>2
        <5>. QED
            BY <5>3 DEF ChildKnows
      <4>3. CASE ~FloodAt(Down, 1, best[0])
        <5>1. Behind(Down', best'[0], Terminate)
            BY <1>1, <2>1, <3>2, <4>3, BehindTaken
        <5>. QED
            BY <4>1, <5>1 DEF ChildKnows
      <4>. QED
          BY <4>2, <4>3
    <3>. QED
        BY <3>1, <3>2 DEF ChildKnows
  <2>. QED
      BY <2>2, <2>5, <2>6, <2>7 DEF LateInv, Late
<1>. QED
    BY <1>5, <1>6, TwoNodes

LEMMA LateStep == N = 2 /\ LateInv /\ [Next]_vars => LateInv'
<1>. SUFFICES ASSUME N = 2, LateInv, [Next]_vars PROVE Late'
    BY TwoStep, GossipStep DEF LateInv
<1>1. ASSUME UNCHANGED <<best, net, voteVars, jobFinished>> PROVE Late'
    BY <1>1 DEF LateInv, Late, RootKnows, ChildKnows, Up, Down, voteVars
<1>2. ASSUME NEW n \in Node, Trigger(n) PROVE Late'
    BY <1>1, <1>2 DEF Trigger, searchVars
<1>3. CASE UNCHANGED vars
    BY <1>1, <1>3 DEF vars, searchVars
<1>. QED
    BY <1>2, <1>3, LateExplore, LateIdle, LateReceive DEF Next, Finished

LEMMA LateInit == N = 2 /\ Init => LateInv
<1>. SUFFICES ASSUME N = 2, Init PROVE Late
    BY TwoInit, GossipInit DEF LateInv
<1>1. best[0] = best[1] /\ best[0] \in Nat /\ ~jobFinished[0] /\ childSignal[1] = 0
    BY TwoNodes, TaskAssumption DEF Init
<1>. QED
    BY <1>1 DEF Late, RootKnows

(***************************************************************************)
(* The whole search is exact, with two nodes and any search tree: a node   *)
(* that has left its loop holds an optimal schedule, whatever was stolen,  *)
(* pruned, flooded and voted in between.                                   *)
(***************************************************************************)
THEOREM TwoNodesExact ==
    ASSUME N = 2
    PROVE  Spec => []FinishedIsExact
<1>1. LateInv /\ TerminationSound /\ OpenInv /\ Pool!Exact => FinishedIsExact
  <2>. SUFFICES ASSUME LateInv, TerminationSound, OpenInv, Pool!Exact,
                       NEW n \in Node, jobFinished[n]
                PROVE  best[n] = Opt[RootTask]
      BY DEF FinishedIsExact
  <2>1. jobFinished[0] /\ best[0] \in Nat /\ best[1] \in Nat /\ best \in [Node -> Nat]
      BY TwoNodes, TwoFacts DEF Ends, TypeOK
  <2>2. best[0] <= best[1] /\ (n = 1 => best[1] <= best[0])
      BY <2>1 DEF LateInv, Late, ChildKnows
  <2>3. Least(best, 0)
      BY <2>1, <2>2, TwoNodes DEF Least
  <2>4. Incumbent = best[0]
      BY <2>1, <2>3, LeastIncumbent, TwoNodes
  <2>5. Incumbent = Opt[RootTask]
      BY <2>1, TwoNodes DEF TerminationSound, Pool!Exact
  <2>6. best[0] = Opt[RootTask]
      BY <2>4, <2>5
  <2>7. best[n] = best[0]
    <3>1. CASE n = 1
      <4>1. best[1] = best[0]
          BY <2>1, <2>2, <3>1
      <4>. QED
          BY <3>1, <4>1
    <3>. QED
        BY <3>1, TwoNodes
  <2>. QED
      BY <2>6, <2>7
<1>2. Spec => []LateInv
    BY LateInit, LateStep, PTL DEF Spec
<1>3. Spec => []TerminationSound
    BY TwoEndSound
<1>4. Spec => []Pool!Exact
    BY DistributedExact, PTL
<1>. QED
    BY <1>1, <1>2, <1>3, <1>4, OpenInvariant, PTL
=============================================================================
