---------------------------- MODULE OverlayProofs ----------------------------
(***************************************************************************)
(* For any number of peers, any degree and any order of joining and of     *)
(* delivery: the manager builds the complete tree and its views of it      *)
(* agree, each peer registers once and with its parent, and when the       *)
(* sleeps suffice everybody is ready before anybody is started.            *)
(***************************************************************************)
EXTENDS Overlay, FiniteSetTheorems, SequenceTheorems, TLAPS

(* The children that parent_id gives peer i among the first n + 1 peers. *)
Mine(data, n, i) == {c \in 1 .. n : data[c].parent_id = i}

(* Where the manager is in filling the tree: the ids so far are those of   *)
(* the parents before the current one and its own children.                *)
Filling ==
    /\ joins \in Seq(Peer)
    /\ current_peers \in Nat \cup {-1}
    /\ current_parent_id \in Nat
    /\ current_parent_nchilds \in 0 .. nchilds
    /\ current_peers = -1 => current_parent_id = 0 /\ current_parent_nchilds = 0
    /\ current_peers > 0 => current_parent_nchilds > 0
    /\ current_peers >= 0 =>
          current_peers = current_parent_id * nchilds + current_parent_nchilds

PeerData == [host : Peer, parent_id : Nat, childs : Seq(Nat), height : Nat]

(* A parent has a smaller id than its children. *)
PlacedBelow(data, n) ==
    \A i \in 1 .. n :
        /\ data[i].parent_id = (i - 1) \div nchilds
        /\ data[i].parent_id \in 0 .. i - 1
        /\ data[i].height = data[data[i].parent_id].height + 1

(* A list of children is ordered throughout, which makes the next id its   *)
(* new last one.                                                           *)
Listed(childs, mine) ==
    /\ Len(childs) = Cardinality(mine)
    /\ \A k \in 1 .. Len(childs) : childs[k] \in mine
    /\ \A c \in mine : \E k \in 1 .. Len(childs) : childs[k] = c
    /\ \A k, l \in 1 .. Len(childs) : k < l => childs[k] < childs[l]

Placed ==
    /\ peers_data \in [Joined -> PeerData]
    /\ PlacedBelow(peers_data, current_peers)
    /\ \A i \in Joined : Listed(peers_data[i].childs, Mine(peers_data, current_peers, i))

TreeInv == Filling /\ Placed

LEMMA Degree == nchilds \in Nat /\ nchilds > 0
BY ManagerAssumption

(* The ids when there is one more peer. *)
LEMMA OneMore ==
    ASSUME NEW n \in Nat \cup {-1}
    PROVE  /\ n \in Int /\ n + 1 \in Nat
           /\ n + 1 > 0 => n \in Nat /\ n + 1 \in 1 .. n + 1 /\ n + 1 # 0
           /\ \A i \in 0 .. n : i \in 0 .. n + 1 /\ i # n + 1 /\ i \in Nat
           /\ \A i \in 0 .. n + 1 : i \in 0 .. n \/ i = n + 1
           /\ \A i \in 1 .. n : i \in 0 .. n /\ i \in 1 .. n + 1 /\ i # n + 1 /\ i \in Nat
           /\ \A i \in 1 .. n + 1 : i \in 1 .. n \/ i = n + 1
OBVIOUS

(* Which parent a number falls to. *)
LEMMA Quotient ==
    ASSUME NEW d \in Nat, d > 0, NEW a \in Nat, NEW b \in 0 .. d - 1
    PROVE  (a * d + b) \div d = a
OBVIOUS

(* A parent is filled before its last child could be its own parent. *)
LEMMA ParentBelow ==
    ASSUME NEW d \in Nat, d > 0, NEW a \in Nat, NEW b \in Nat
    PROVE  a * d + b >= a /\ a * d + d = (a + 1) * d
<1>1. a * d >= a
    OBVIOUS
<1>2. a * d \in Nat /\ a * d + d = (a + 1) * d
    OBVIOUS
<1>. QED
    BY <1>1, <1>2

LEMMA FiniteMine ==
    ASSUME NEW data, NEW n \in Int, NEW i
    PROVE  IsFiniteSet(Mine(data, n, i))
<1>1. Mine(data, n, i) \in SUBSET (1 .. n) /\ IsFiniteSet(1 .. n)
    BY FS_Interval DEF Mine
<1>. QED
    BY <1>1, FS_Subset

-----------------------------------------------------------------------------
(* A new child, the largest id so far, goes to the end of its parent's list. *)
LEMMA ListedAppend ==
    ASSUME NEW childs \in Seq(Nat), NEW n \in Nat, NEW mine \in SUBSET (1 .. n),
           IsFiniteSet(mine), Listed(childs, mine)
    PROVE  Listed(Append(childs, n + 1), mine \cup {n + 1})
<1>. DEFINE len == Len(childs)
            longer == Append(childs, n + 1)
<1>1. /\ len \in Nat /\ Len(longer) = len + 1
      /\ \A k \in 1 .. len : longer[k] = childs[k]
      /\ longer[len + 1] = n + 1
    BY LenProperties, AppendProperties
<1>2. Cardinality(mine \cup {n + 1}) = Cardinality(mine) + 1
  <2>1. n + 1 \notin mine
      OBVIOUS
  <2>. QED
      BY <2>1, FS_AddElement
<1>3. \A k \in 1 .. len + 1 : k \in 1 .. len \/ k = len + 1
    BY <1>1
<1>4. \A k \in 1 .. len : childs[k] \in mine /\ childs[k] < n + 1 /\ k \in 1 .. len + 1
    BY <1>1 DEF Listed
<1>5. \A k \in 1 .. len + 1 : longer[k] \in mine \cup {n + 1}
    BY <1>1, <1>3, <1>4
<1>6. \A c \in mine \cup {n + 1} : \E k \in 1 .. len + 1 : longer[k] = c
  <2>1. len + 1 \in 1 .. len + 1
      BY <1>1
  <2>. QED
      BY <1>1, <1>4, <2>1 DEF Listed
<1>7. ASSUME NEW k \in 1 .. len + 1, NEW l \in 1 .. len + 1, k < l
      PROVE  longer[k] < longer[l]
  <2>1. k \in 1 .. len
      BY <1>1, <1>7
  <2>2. CASE l = len + 1
      BY <1>1, <1>4, <2>1, <2>2
  <2>3. CASE l \in 1 .. len
      BY <1>1, <1>7, <2>1, <2>3 DEF Listed
  <2>. QED
      BY <1>3, <2>2, <2>3
<1>. QED
    BY <1>1, <1>2, <1>5, <1>6, <1>7 DEF Listed

LEMMA ListedNone == Listed(<< >>, {})
BY FS_EmptySet DEF Listed

LEMMA InitTree == Init => TreeInv
<1>. SUFFICES ASSUME Init PROVE TreeInv
    OBVIOUS
<1>1. Filling
    BY Degree DEF Init, Filling
<1>2. Joined = {} /\ current_peers = -1
    BY DEF Init, Joined
<1>3. peers_data \in [Joined -> PeerData]
    BY <1>2 DEF Init
<1>4. PlacedBelow(peers_data, current_peers)
    BY <1>2 DEF PlacedBelow
<1>. QED
    BY <1>1, <1>2, <1>3, <1>4 DEF TreeInv, Placed

(* The manager places one more peer. *)
LEMMA JoinStep ==
    ASSUME TreeInv, HandleJoinRequest
    PROVE  TreeInv'
<1>. DEFINE n == current_peers
            new == n + 1
            under == IF new = 0 \/ HasRoom THEN current_parent_id ELSE current_parent_id + 1
            host == Head(joins)
            level == IF under = new THEN 0 ELSE peers_data[under].height + 1
<1>1. /\ n \in Nat \cup {-1} /\ current_parent_id \in Nat
      /\ current_parent_nchilds \in 0 .. nchilds /\ nchilds \in Nat /\ nchilds > 0
      /\ host \in Peer /\ Tail(joins) \in Seq(Peer)
    BY Degree, HeadTailProperties DEF TreeInv, Filling, HandleJoinRequest
<1>2. /\ current_peers' = new /\ current_parent_id' = under /\ joins' = Tail(joins)
      /\ current_parent_nchilds' =
            IF new = 0 THEN 0 ELSE IF HasRoom THEN current_parent_nchilds + 1 ELSE 1
      /\ peers_data' = [i \in 0 .. new |->
            IF i = new
            THEN [host |-> host, parent_id |-> under, childs |-> << >>, height |-> level]
            ELSE [peers_data[i] EXCEPT !.childs = Childs(i, new, under)]]
    BY DEF HandleJoinRequest
<1>3. new \in Nat /\ (new = 0 => under = 0 /\ n = -1)
    BY <1>1 DEF TreeInv, Filling
<1>4. new > 0 => under = n \div nchilds /\ under \in 0 .. n
  <2>. SUFFICES ASSUME new > 0 PROVE under = n \div nchilds /\ under \in 0 .. n
      OBVIOUS
  <2>1. n \in Nat /\ n = current_parent_id * nchilds + current_parent_nchilds
      BY <1>1 DEF TreeInv, Filling
  <2>2. CASE HasRoom
    <3>1. under = current_parent_id /\ current_parent_nchilds \in 0 .. nchilds - 1
        BY <1>1, <1>3, <2>2 DEF HasRoom
    <3>. QED
        BY <1>1, <2>1, <3>1, Quotient, ParentBelow
  <2>3. CASE ~HasRoom
    <3>1. under = current_parent_id + 1 /\ current_parent_nchilds = nchilds
        BY <1>1, <1>3, <2>3 DEF HasRoom
    <3>2. n = under * nchilds + 0 /\ under \in Nat
        BY <1>1, <2>1, <3>1, ParentBelow
    <3>3. 0 \in 0 .. nchilds - 1
        BY <1>1
    <3>4. under = n \div nchilds
        BY <1>1, <3>2, <3>3, Quotient
    <3>5. n >= under
        BY <1>1, <3>2, ParentBelow
    <3>. QED
        BY <2>1, <3>2, <3>4, <3>5
  <2>. QED
      BY <2>2, <2>3
<1>5. Filling'
  <2>1. CASE new = 0
      BY <1>1, <1>2, <1>3, <2>1 DEF Filling
  <2>2. CASE new > 0 /\ HasRoom
    <3>1. /\ current_parent_nchilds' = current_parent_nchilds + 1 /\ under = current_parent_id
          /\ n = current_parent_id * nchilds + current_parent_nchilds
          /\ current_parent_nchilds < nchilds
        BY <1>1, <1>2, <1>3, <2>2 DEF TreeInv, Filling, HasRoom
    <3>. QED
        BY SMTT(30), <1>1, <1>2, <1>3, <2>2, <3>1 DEF Filling
  <2>3. CASE new > 0 /\ ~HasRoom
    <3>1. /\ current_parent_nchilds' = 1 /\ under = current_parent_id + 1
          /\ n = current_parent_id * nchilds + current_parent_nchilds
          /\ current_parent_nchilds = nchilds
        BY <1>1, <1>2, <1>3, <2>3 DEF TreeInv, Filling, HasRoom
    <3>2. new = under * nchilds + 1
        BY <1>1, <3>1, ParentBelow
    <3>3. /\ current_peers' = current_parent_id' * nchilds + current_parent_nchilds'
          /\ current_parent_nchilds' = 1 /\ 1 \in 0 .. nchilds
        BY SMTT(30), <1>1, <1>2, <3>1, <3>2
    <3>4. current_peers' \in Nat /\ current_peers' # -1 /\ current_parent_id' \in Nat
          /\ joins' \in Seq(Peer)
        BY SMTT(30), <1>1, <1>2, <1>3, <3>1
    <3>. QED
        BY <3>3, <3>4 DEF Filling
  <2>. QED
      BY <1>3, <2>1, <2>2, <2>3
<1>6. /\ \A i \in 0 .. n : i \in 0 .. new /\ i # new /\ i \in Joined /\ peers_data[i] \in PeerData
      /\ \A i \in 0 .. new : i \in 0 .. n \/ i = new
    BY <1>1, OneMore DEF TreeInv, Placed, Joined
<1>7. under \in Nat /\ level \in Nat
    BY <1>3, <1>4, <1>6 DEF PeerData
<1>8. /\ peers_data'[new].parent_id = under /\ peers_data'[new].childs = << >>
      /\ peers_data'[new].height = level /\ peers_data'[new] \in PeerData
    BY <1>1, <1>2, <1>3, <1>7, EmptySeq DEF PeerData
<1>9. \A i \in 0 .. n :
         /\ peers_data'[i].parent_id = peers_data[i].parent_id
         /\ peers_data'[i].height = peers_data[i].height
         /\ peers_data'[i].childs = Childs(i, new, under)
         /\ Childs(i, new, under) \in Seq(Nat)
         /\ peers_data'[i] \in PeerData
  <2>. SUFFICES ASSUME NEW i \in 0 .. n
                PROVE  /\ peers_data'[i].parent_id = peers_data[i].parent_id
                       /\ peers_data'[i].height = peers_data[i].height
                       /\ peers_data'[i].childs = Childs(i, new, under)
                       /\ Childs(i, new, under) \in Seq(Nat)
                       /\ peers_data'[i] \in PeerData
      OBVIOUS
  <2>1. peers_data'[i] = [peers_data[i] EXCEPT !.childs = Childs(i, new, under)]
      BY <1>2, <1>6
  <2>2. peers_data[i] \in PeerData
      BY <1>6
  <2>3. Childs(i, new, under) \in Seq(Nat)
      BY <1>3, <2>2, AppendProperties DEF Childs, PeerData
  <2>. QED
      BY <2>1, <2>2, <2>3 DEF PeerData
<1>10. Placed'
  <2>1. peers_data' \in [0 .. new -> PeerData] /\ Joined' = 0 .. new
      BY <1>2, <1>6, <1>8, <1>9 DEF Joined
  <2>2. PlacedBelow(peers_data', new)
    <3>. SUFFICES ASSUME NEW i \in 1 .. new
                  PROVE  /\ peers_data'[i].parent_id = (i - 1) \div nchilds
                         /\ peers_data'[i].parent_id \in 0 .. i - 1
                         /\ peers_data'[i].height
                               = peers_data'[peers_data'[i].parent_id].height + 1
        BY DEF PlacedBelow
    <3>1. CASE i = new
      <4>1. new > 0 /\ under = n \div nchilds /\ under \in 0 .. n
          BY <1>3, <1>4, <3>1
      <4>. QED
        <5>1. /\ peers_data'[i].parent_id = under /\ peers_data'[i].height = level
              /\ peers_data'[under].height = peers_data[under].height
            BY <1>8, <1>9, <3>1, <4>1
        <5>2. under # new /\ i - 1 = n
            BY <1>1, <3>1, <4>1
        <5>3. level = peers_data[under].height + 1
            BY <5>2
        <5>. QED
            BY <3>1, <4>1, <5>1, <5>2, <5>3
    <3>2. CASE i \in 1 .. n
      <4>1. /\ peers_data[i].parent_id = (i - 1) \div nchilds
            /\ peers_data[i].parent_id \in 0 .. i - 1
            /\ peers_data[i].height = peers_data[peers_data[i].parent_id].height + 1
          BY <3>2 DEF TreeInv, Placed, PlacedBelow
      <4>2. i \in 0 .. n /\ peers_data[i].parent_id \in 0 .. n
          BY <1>1, <3>2, <4>1
      <4>. QED
          BY <1>9, <4>1, <4>2
    <3>3. i = new \/ i \in 1 .. n
        BY <1>1, OneMore
    <3>. QED
        BY <3>1, <3>2, <3>3
  <2>3. ASSUME NEW i \in 0 .. new
        PROVE  Listed(peers_data'[i].childs, Mine(peers_data', new, i))
    <3>1. \A c \in 1 .. n : c \in 1 .. new /\ peers_data'[c].parent_id = peers_data[c].parent_id
        BY <1>1, <1>9, OneMore
    <3>2. CASE i = new
      <4>1. \A c \in 1 .. new : peers_data'[c].parent_id # new
          BY <1>3, <2>2 DEF PlacedBelow
      <4>2. Mine(peers_data', new, i) = {}
          BY <3>2, <4>1 DEF Mine
      <4>. QED
          BY <1>8, <3>2, <4>2, ListedNone
    <3>3. CASE i \in 0 .. n /\ i = under
      <4>1. Mine(peers_data', new, i) = Mine(peers_data, n, i) \cup {new}
        <5>1. new \in 1 .. new /\ \A c \in 1 .. new : c = new \/ c \in 1 .. n
            BY <1>1, <3>3, OneMore
        <5>. QED
            BY <1>8, <3>1, <3>3, <5>1 DEF Mine
      <4>2. under # new /\ n \in Nat /\ n \in Int
          BY <1>1, <3>3, OneMore
      <4>3. /\ peers_data[i].childs \in Seq(Nat)
            /\ Listed(peers_data[i].childs, Mine(peers_data, n, i))
            /\ Mine(peers_data, n, i) \in SUBSET (1 .. n)
            /\ IsFiniteSet(Mine(peers_data, n, i))
        <5>1. peers_data[i].childs \in Seq(Nat)
            BY <1>6, <3>3 DEF PeerData
        <5>2. Listed(peers_data[i].childs, Mine(peers_data, n, i))
            BY <1>6, <3>3 DEF TreeInv, Placed
        <5>3. Mine(peers_data, n, i) \in SUBSET (1 .. n)
            BY DEF Mine
        <5>. QED
            BY <4>2, <5>1, <5>2, <5>3, FiniteMine
      <4>4. peers_data'[i].childs = Append(peers_data[i].childs, new)
          BY <1>9, <3>3, <4>2 DEF Childs
      <4>. QED
          BY <4>1, <4>2, <4>3, <4>4, ListedAppend
    <3>4. CASE i \in 0 .. n /\ i # under
      <4>1. Mine(peers_data', new, i) = Mine(peers_data, n, i)
        <5>1. \A c \in 1 .. new : c = new \/ c \in 1 .. n
            BY <1>1, OneMore
        <5>. QED
            BY <1>8, <3>1, <3>4, <5>1 DEF Mine
      <4>2. peers_data'[i].childs = peers_data[i].childs
          BY <1>9, <3>4 DEF Childs
      <4>. QED
          BY <1>6, <3>4, <4>1, <4>2 DEF TreeInv, Placed
    <3>. QED
        BY <1>6, <3>2, <3>3, <3>4
  <2>. QED
      BY <1>2, <2>1, <2>2, <2>3 DEF Placed
<1>. QED
    BY <1>5, <1>10 DEF TreeInv

(* The rest leaves the manager's data alone. *)
LEMMA TreeStep == TreeInv /\ [Next]_vars => TreeInv'
<1>. SUFFICES ASSUME TreeInv, [Next]_vars PROVE TreeInv'
    OBVIOUS
<1>1. CASE HandleJoinRequest
    BY <1>1, JoinStep
<1>2. CASE \E p \in Peer : SendJoinRequest(p)
  <2>1. joins' \in Seq(Peer) /\ UNCHANGED managerVars
      BY <1>2, AppendProperties DEF SendJoinRequest, TreeInv, Filling
  <2>. QED
      BY <2>1 DEF managerVars, TreeInv, Filling, Placed, Joined
<1>3. CASE UNCHANGED <<joins, managerVars>>
    BY <1>3 DEF managerVars, TreeInv, Filling, Placed, Joined
<1>. QED
    BY <1>1, <1>2, <1>3
    DEF Next, Manager, PeerStep, Running, vars, SendBroadcastIp, SendTriggerSignal, SendNext,
        RecvJoiningData, RecvNewChild, RecvBroadcastIp, RecvTrigger

THEOREM TreeInvariant == Spec => []TreeInv
BY InitTree, TreeStep, PTL DEF Spec

(* The tree is complete and filled in level order. *)
THEOREM TreeComplete == Spec => []CompleteTree
<1>1. TreeInv => CompleteTree
    BY DEF TreeInv, Filling, Placed, PlacedBelow, CompleteTree, Joined
<1>. QED
    BY <1>1, TreeInvariant, PTL

(* The lists of children and the heights say what the parents say. *)
THEOREM ManagerViewsAgree == Spec => []ViewsAgree
<1>1. ASSUME TreeInv PROVE ViewsAgree
  <2>1. Joined \ {0} = 1 .. current_peers
      BY <1>1 DEF TreeInv, Filling, Joined
  <2>. SUFFICES ASSUME NEW i \in Joined
                PROVE  LET mine == {c \in Joined \ {0} : peers_data[c].parent_id = i}
                           childs == peers_data[i].childs
                       IN  /\ Len(childs) = Cardinality(mine)
                           /\ {childs[k] : k \in 1 .. Len(childs)} = mine
                           /\ \A k \in 1 .. Len(childs) - 1 : childs[k] < childs[k + 1]
                           /\ \A c \in mine :
                                 peers_data[c].height = peers_data[i].height + 1
      BY DEF ViewsAgree
  <2>. DEFINE mine == {c \in Joined \ {0} : peers_data[c].parent_id = i}
              childs == peers_data[i].childs
  <2>2. mine = Mine(peers_data, current_peers, i)
      BY <2>1 DEF Mine
  <2>3. Listed(childs, mine) /\ childs \in Seq(Nat)
      BY <1>1, <2>2 DEF TreeInv, Placed, PeerData
  <2>4. {childs[k] : k \in 1 .. Len(childs)} = mine
      BY ZenonT(60), <2>3 DEF Listed
  <2>5. Len(childs) \in Nat
      BY <2>3, LenProperties
  <2>6. \A k \in 1 .. Len(childs) - 1 :
           k \in 1 .. Len(childs) /\ k + 1 \in 1 .. Len(childs) /\ k < k + 1
      BY <2>5
  <2>7. \A k \in 1 .. Len(childs) - 1 : childs[k] < childs[k + 1]
      BY <2>3, <2>6 DEF Listed
  <2>8. \A c \in mine : peers_data[c].height = peers_data[i].height + 1
      BY <1>1, <2>1 DEF TreeInv, Placed, PlacedBelow
  <2>. QED
      BY <2>3, <2>4, <2>7, <2>8 DEF Listed
<1>. QED
    BY <1>1, TreeInvariant, PTL
-----------------------------------------------------------------------------
(* Registration.  A process has one id, learns it once, and only then      *)
(* registers, with the peer its data names; so nobody is its own child,    *)
(* and a registration is either on its way or in one list.                 *)

Host(i) == peers_data[i].host
Above(i) == peers_data[i].parent_id
Packet == {JoiningData(i, p) : i \in Nat, p \in Nat} \cup {BroadcastIp, TriggerSignal}
OnWay(q, type) == \E k \in 1 .. Len(q) : q[k].type = type

OverlayTypeOK ==
    /\ started \in [Peer -> BOOLEAN]
    /\ id \in [Peer -> Nat \cup {-1}]
    /\ parent \in [Peer -> Nat \cup {-1}]
    /\ children \in [Peer -> Seq(Nat)]
    /\ DOMAIN random_pool = Peer
    /\ trigger \in [Peer -> BOOLEAN]
    /\ fromManager \in [Peer -> Seq(Packet)]
    /\ addRequests \in [Peer -> SUBSET Nat]

(* A process asks once, so it has one id. *)
Applicants ==
    /\ \A k \in 1 .. Len(joins) :
          started[joins[k]] /\ \A i \in Joined : Host(i) # joins[k]
    /\ \A k, l \in 1 .. Len(joins) : joins[k] = joins[l] => k = l
    /\ \A i \in Joined : started[Host(i)]
    /\ \A i, k \in Joined : Host(i) = Host(k) => i = k

(* The joining data of a peer comes once, before it knows its id. *)
Announced ==
    \A p \in Peer : \A k \in 1 .. Len(fromManager[p]) :
       LET m == fromManager[p][k]
       IN  m.type = "JOINING_DATA" =>
              /\ m.id \in Joined /\ Host(m.id) = p /\ m.parent = Above(m.id)
              /\ id[p] = -1
              /\ \A l \in 1 .. Len(fromManager[p]) :
                    fromManager[p][l].type = "JOINING_DATA" => k = l
KnowsItself ==
    \A p \in Peer : id[p] # -1 =>
       /\ id[p] \in Joined /\ Host(id[p]) = p
       /\ id[p] > 0 => parent[p] = Above(id[p])

(* Only a child registers, and only with its parent. *)
ChildOf(p, c) == c \in Joined /\ c # 0 /\ Host(Above(c)) = p
OnlyChildren ==
    \A p \in Peer :
       /\ \A c \in addRequests[p] : ChildOf(p, c)
       /\ \A k \in 1 .. Len(children[p]) : ChildOf(p, children[p][k])

RegisterInv ==
    /\ TreeInv /\ OverlayTypeOK
    /\ Applicants /\ Announced /\ KnowsItself /\ OnlyChildren /\ RegisteredOnce

(* How often a child is listed; RegisteredOnce in these terms. *)
Listings(q, c) == Cardinality({k \in 1 .. Len(q) : q[k] = c})
Places(p, c) == Listings(children[p], c) + (IF c \in addRequests[p] THEN 1 ELSE 0)
Due(i) == IF id[Host(i)] = i THEN 1 ELSE 0
Registered == \A i \in Joined \ {0} : Places(Host(Above(i)), i) = Due(i)

LEMMA RegisteredForm == RegisteredOnce <=> Registered
BY DEF RegisteredOnce, Registered, Places, Due, Listings, Host, Above

LEMMA PrimedForm == RegisteredOnce' <=> Registered'
BY DEF RegisteredOnce, Registered, Places, Due, Listings, Host, Above

LEMMA ListingsAppend ==
    ASSUME NEW q \in Seq(Nat), NEW c \in Nat, NEW i
    PROVE  /\ Listings(q, i) \in Nat
           /\ Listings(Append(q, c), i) = Listings(q, i) + (IF c = i THEN 1 ELSE 0)
<1>. DEFINE n == Len(q)
            Old == {k \in 1 .. n : q[k] = i}
            New == {k \in 1 .. n + 1 : Append(q, c)[k] = i}
<1>1. n \in Nat /\ Len(Append(q, c)) = n + 1
      /\ \A k \in 1 .. n : Append(q, c)[k] = q[k]
      /\ Append(q, c)[n + 1] = c
    BY LenProperties, AppendProperties
<1>2. IsFiniteSet(Old) /\ n + 1 \notin Old
  <2>1. IsFiniteSet(1 .. n) /\ Old \in SUBSET (1 .. n) /\ n + 1 \notin 1 .. n
      BY SMTT(30), <1>1, FS_Interval
  <2>. QED
      BY <2>1, FS_Subset
<1>3. New = IF c = i THEN Old \cup {n + 1} ELSE Old
    BY <1>1
<1>4. Cardinality(Old) \in Nat /\ Cardinality(Old \cup {n + 1}) = Cardinality(Old) + 1
    BY <1>2, FS_CardinalityType, FS_AddElement
<1>. HIDE DEF Old, New
<1>5. Cardinality(New) = Cardinality(Old) + (IF c = i THEN 1 ELSE 0)
    BY <1>3, <1>4
<1>. QED
    BY <1>1, <1>4, <1>5 DEF Listings, Old, New

LEMMA NoListing ==
    ASSUME NEW q, NEW i, \A k \in 1 .. Len(q) : q[k] # i
    PROVE  Listings(q, i) = 0
<1>1. {k \in 1 .. Len(q) : q[k] = i} = {}
    OBVIOUS
<1>. QED
    BY <1>1, FS_EmptySet DEF Listings

LEMMA PacketType ==
    ASSUME NEW m \in Packet, m.type = "JOINING_DATA"
    PROVE  m.id \in Nat /\ m.parent \in Nat
BY DEF Packet, JoiningData, BroadcastIp, TriggerSignal

LEMMA QueueGrows ==
    ASSUME NEW q \in Seq(Packet), NEW m \in Packet
    PROVE  /\ Append(q, m) \in Seq(Packet) /\ Len(q) \in Nat /\ Len(Append(q, m)) = Len(q) + 1
           /\ \A k \in 1 .. Len(q) + 1 : Append(q, m)[k] = IF k = Len(q) + 1 THEN m ELSE q[k]
           /\ \A t : OnWay(Append(q, m), t) <=> OnWay(q, t) \/ m.type = t
<1>1. /\ Append(q, m) \in Seq(Packet) /\ Len(q) \in Nat /\ Len(Append(q, m)) = Len(q) + 1
      /\ \A k \in 1 .. Len(q) + 1 : Append(q, m)[k] = IF k = Len(q) + 1 THEN m ELSE q[k]
    BY LenProperties, AppendProperties
<1>2. /\ Len(q) + 1 \in 1 .. Len(q) + 1
      /\ \A k \in 1 .. Len(q) : k \in 1 .. Len(q) + 1 /\ k # Len(q) + 1
      /\ \A k \in 1 .. Len(q) + 1 : k = Len(q) + 1 \/ k \in 1 .. Len(q)
    BY <1>1
<1>. QED
    BY <1>1, <1>2 DEF OnWay

LEMMA QueueShrinks ==
    ASSUME NEW q \in Seq(Packet), q # << >>
    PROVE  /\ Tail(q) \in Seq(Packet) /\ Len(q) \in Nat /\ Len(Tail(q)) = Len(q) - 1
           /\ 1 \in 1 .. Len(q) /\ Head(q) = q[1] /\ Head(q) \in Packet
           /\ \A k \in 1 .. Len(q) - 1 : k + 1 \in 1 .. Len(q) /\ Tail(q)[k] = q[k + 1]
           /\ \A t : OnWay(q, t) <=> OnWay(Tail(q), t) \/ Head(q).type = t
<1>1. /\ Tail(q) \in Seq(Packet) /\ Len(q) \in Nat \ {0} /\ Len(Tail(q)) = Len(q) - 1
      /\ Head(q) = q[1] /\ Head(q) \in Packet
      /\ \A k \in 1 .. Len(q) - 1 : Tail(q)[k] = q[k + 1]
    BY LenProperties, HeadTailProperties, EmptySeq
<1>2. /\ 1 \in 1 .. Len(q)
      /\ \A k \in 1 .. Len(q) - 1 : k + 1 \in 1 .. Len(q)
      /\ \A k \in 1 .. Len(q) : k = 1 \/ (k - 1 \in 1 .. Len(q) - 1 /\ (k - 1) + 1 = k)
    BY <1>1
<1>. QED
    BY <1>1, <1>2 DEF OnWay

TreeFacts ==
    /\ \A i \in Joined : i \in Nat /\ Host(i) \in Peer /\ Above(i) \in Nat
    /\ \A i \in Joined \ {0} : Above(i) \in Joined /\ Above(i) # i
    /\ current_peers \in Nat \cup {-1}

LEMMA TreeFactsHold == TreeInv => TreeFacts
<1>. SUFFICES ASSUME TreeInv PROVE TreeFacts
    OBVIOUS
<1>1. current_peers \in Nat \cup {-1}
    BY DEF TreeInv, Filling
<1>2. \A i \in Joined : i \in Nat /\ peers_data[i] \in PeerData
    BY <1>1 DEF TreeInv, Placed, Joined
<1>3. \A i \in Joined \ {0} : i \in 1 .. current_peers
    BY <1>1 DEF Joined
<1>4. \A i \in Joined \ {0} : Above(i) \in 0 .. i - 1
    BY <1>3 DEF TreeInv, Placed, PlacedBelow, Above
<1>5. \A i \in Joined \ {0} : Above(i) \in Joined /\ Above(i) # i
    BY <1>1, <1>3, <1>4 DEF Joined
<1>. QED
    BY <1>1, <1>2, <1>5 DEF Host, Above, PeerData, TreeFacts

LEMMA TreeFactsNext == TreeInv' => TreeFacts'
BY TreeFactsHold, PTL

-----------------------------------------------------------------------------
(* The steps, each after which the tree is known to be in order.           *)

LEMMA AskStep ==
    ASSUME RegisterInv, TreeInv', NEW p \in Peer, SendJoinRequest(p)
    PROVE  RegisterInv'
<1>1. /\ ~started[p] /\ started' = [started EXCEPT ![p] = TRUE] /\ joins' = Append(joins, p)
      /\ UNCHANGED <<current_peers, peers_data, id, parent, children, random_pool, trigger,
                     fromManager, addRequests>>
    BY DEF SendJoinRequest, managerVars, peerVars
<1>2. /\ Len(joins) \in Nat /\ Len(joins') = Len(joins) + 1
      /\ \A k \in 1 .. Len(joins) + 1 : joins'[k] = IF k = Len(joins) + 1 THEN p ELSE joins[k]
      /\ \A k \in 1 .. Len(joins) : joins[k] \in Peer
  <2>1. joins \in Seq(Peer)
      BY DEF RegisterInv, TreeInv, Filling
  <2>. QED
      BY <1>1, <2>1, LenProperties, AppendProperties, ElementOfSeq
<1>3. \A u \in Peer : started'[u] = (u = p \/ started[u])
    BY <1>1 DEF RegisterInv, OverlayTypeOK
<1>4. /\ \A k \in 1 .. Len(joins) : joins[k] # p
      /\ \A i \in Joined : Host(i) # p
    BY <1>1 DEF RegisterInv, Applicants
<1>5. \A k \in 1 .. Len(joins) + 1 : k = Len(joins) + 1 \/ k \in 1 .. Len(joins)
    BY <1>2
<1>6. Applicants'
  <2>1. Joined' = Joined /\ \A i : Host(i)' = Host(i)
      BY <1>1 DEF Joined, Host
  <2>2. \A i \in Joined : Host(i) \in Peer /\ started[Host(i)]
      BY TreeFactsHold DEF RegisterInv, Applicants, TreeFacts
  <2>3. \A k \in 1 .. Len(joins) + 1 :
           started'[joins'[k]] /\ \A i \in Joined : Host(i) # joins'[k]
    <3>1. \A k \in 1 .. Len(joins) :
             started[joins[k]] /\ \A i \in Joined : Host(i) # joins[k]
        BY DEF RegisterInv, Applicants
    <3>2. TAKE k \in 1 .. Len(joins) + 1
    <3>3. CASE k = Len(joins) + 1
        BY <1>2, <1>3, <1>4, <3>3
    <3>4. CASE k \in 1 .. Len(joins) /\ k # Len(joins) + 1
      <4>1. joins'[k] = joins[k] /\ joins[k] \in Peer
          BY <1>2, <3>2, <3>4
      <4>. QED
          BY <1>3, <3>1, <3>4, <4>1
    <3>. QED
        BY <1>5, <3>2, <3>3, <3>4
  <2>4. \A k, l \in 1 .. Len(joins) + 1 : joins'[k] = joins'[l] => k = l
      BY <1>2, <1>4, <1>5 DEF RegisterInv, Applicants
  <2>5. \A i \in Joined : started'[Host(i)]
      BY <1>3, <2>2
  <2>6. \A i, k \in Joined : Host(i) = Host(k) => i = k
      BY DEF RegisterInv, Applicants
  <2>. QED
      BY <1>2, <2>1, <2>3, <2>4, <2>5, <2>6 DEF Applicants
<1>7. OverlayTypeOK'
    BY <1>1 DEF RegisterInv, OverlayTypeOK
<1>8. /\ Joined' = Joined /\ \A i : Host(i)' = Host(i) /\ Above(i)' = Above(i)
      /\ \A i, c : Places(i, c)' = Places(i, c) /\ Due(i)' = Due(i)
    BY <1>1 DEF Joined, Host, Above, Places, Due
<1>9. Announced' /\ KnowsItself'
    BY <1>1, <1>8 DEF RegisterInv, Announced, KnowsItself
<1>10. OnlyChildren'
    BY <1>1, <1>8 DEF RegisterInv, OnlyChildren, ChildOf
<1>11. RegisteredOnce'
    BY <1>8, RegisteredForm, PrimedForm DEF RegisterInv, Registered
<1>. QED
    BY <1>6, <1>7, <1>9, <1>10, <1>11 DEF RegisterInv

(* The others keep their places when one more joins. *)
LEMMA JoinKeeps ==
    ASSUME TreeInv, HandleJoinRequest, NEW new, NEW host, NEW under,
           new = current_peers + 1, host = Head(joins), under = current_parent_id'
    PROVE  /\ \A i \in Joined : Host(i)' = Host(i) /\ Above(i)' = Above(i)
           /\ Host(new)' = host /\ Above(new)' = under
<1>a. /\ current_peers \in Nat \cup {-1} /\ new \in Nat
      /\ \A i \in Joined : i \in 0 .. new /\ i # new
    BY DEF TreeInv, Filling, Joined
<1>1. /\ \A i \in Joined : /\ peers_data'[i].host = peers_data[i].host
                           /\ peers_data'[i].parent_id = peers_data[i].parent_id
      /\ peers_data'[new].host = host /\ peers_data'[new].parent_id = under
  <2>. DEFINE u == IF new = 0 \/ HasRoom THEN current_parent_id ELSE current_parent_id + 1
              level == IF u = new THEN 0 ELSE peers_data[u].height + 1
  <2>1. /\ u = under
        /\ peers_data' = [i \in 0 .. new |->
              IF i = new
              THEN [host |-> host, parent_id |-> u, childs |-> << >>, height |-> level]
              ELSE [peers_data[i] EXCEPT !.childs = Childs(i, new, u)]]
      BY DEF HandleJoinRequest
  <2>. HIDE DEF u, level
  <2>2. \A i \in Joined : i \in 0 .. new /\ i # new /\ peers_data[i] \in PeerData
      BY <1>a DEF Joined, TreeInv, Placed
  <2>3. new \in 0 .. new
      BY <1>a
  <2>4. peers_data'[new] = [host |-> host, parent_id |-> u, childs |-> << >>, height |-> level]
      BY <2>1, <2>3
  <2>5. \A i \in Joined : peers_data'[i] = [peers_data[i] EXCEPT !.childs = Childs(i, new, u)]
      BY <2>1, <2>2
  <2>. QED
      BY <2>1, <2>2, <2>4, <2>5 DEF PeerData
<1>. QED
    BY <1>1 DEF Host, Above

(* The new peer has no id yet, nothing on its way and no place in a list. *)
LEMMA JoinRegister ==
    ASSUME RegisterInv, TreeInv', HandleJoinRequest
    PROVE  RegisterInv'
<1>a. PICK new, host, under, m :
         /\ new = current_peers + 1 /\ host = Head(joins) /\ under = current_parent_id'
         /\ m = JoiningData(new, under)
    OBVIOUS
<1>. TreeInv /\ OverlayTypeOK /\ TreeFacts /\ TreeFacts'
    BY TreeFactsHold, TreeFactsNext DEF RegisterInv
<1>1. /\ joins \in Seq(Peer) /\ joins # << >> /\ joins' = Tail(joins)
      /\ current_peers \in Nat \cup {-1} /\ current_peers' = new /\ new \in Nat
      /\ UNCHANGED <<started, id, parent, children, random_pool, trigger, addRequests>>
      /\ fromManager' = [fromManager EXCEPT ![host] = Append(@, m)]
    BY <1>a DEF HandleJoinRequest, peerVars, TreeInv, Filling, TreeFacts
<1>2. /\ Joined' = Joined \cup {new} /\ new \notin Joined
    BY <1>1, <1>a DEF Joined
<1>3. /\ \A i \in Joined : Host(i)' = Host(i) /\ Above(i)' = Above(i)
      /\ Host(new)' = host /\ Above(new)' = under
    BY <1>a, JoinKeeps
<1>4. /\ host = joins[1] /\ host \in Peer /\ Len(joins) \in Nat /\ Len(joins') = Len(joins) - 1
      /\ 1 \in 1 .. Len(joins) /\ joins' \in Seq(Peer)
      /\ \A k \in 1 .. Len(joins) - 1 : joins'[k] = joins[k + 1] /\ k + 1 \in 1 .. Len(joins)
                                        /\ k + 1 # 1
  <2>1. Len(joins) \in Nat \ {0}
      BY <1>1, LenProperties, EmptySeq
  <2>. QED
      BY <1>1, <1>a, <2>1, HeadTailProperties
<1>5. \A i \in Joined : Host(i) # host
    BY <1>4 DEF RegisterInv, Applicants
<1>6. Applicants'
  <2>1. \A k \in 1 .. Len(joins') : started'[joins'[k]]
                                    /\ \A i \in Joined : Host(i)' # joins'[k]
      BY <1>1, <1>3, <1>4 DEF RegisterInv, Applicants
  <2>2. \A k \in 1 .. Len(joins') : Host(new)' # joins'[k]
      BY <1>3, <1>4 DEF RegisterInv, Applicants
  <2>3. \A k, l \in 1 .. Len(joins') : joins'[k] = joins'[l] => k = l
      BY SMTT(30), <1>4 DEF RegisterInv, Applicants
  <2>4. \A i \in Joined : started'[Host(i)']
      BY <1>1, <1>3 DEF RegisterInv, Applicants
  <2>5. started'[Host(new)']
      BY <1>1, <1>3, <1>4 DEF RegisterInv, Applicants
  <2>6. \A i, k \in Joined : Host(i)' = Host(k)' => i = k
      BY <1>3 DEF RegisterInv, Applicants
  <2>7. \A i \in Joined : Host(i)' # Host(new)'
      BY <1>3, <1>5
  <2>. QED
      BY <1>2, <2>1, <2>2, <2>3, <2>4, <2>5, <2>6, <2>7 DEF Applicants
<1>7. id[host] = -1
    BY <1>4, <1>5 DEF RegisterInv, KnowsItself
<1>8. \A k \in 1 .. Len(fromManager[host]) : fromManager[host][k].type # "JOINING_DATA"
    BY <1>4, <1>5 DEF RegisterInv, Announced
<1>9. under \in Nat /\ m \in Packet
  <2>1. under \in Nat
      BY <1>2, <1>3 DEF TreeFacts
  <2>. QED
      BY <1>1, <1>a, <2>1 DEF Packet
<1>10. m.type = "JOINING_DATA" /\ m.id = new /\ m.parent = under
    BY <1>a DEF JoiningData
<1>11. /\ fromManager' \in [Peer -> Seq(Packet)]
       /\ fromManager'[host] = Append(fromManager[host], m)
       /\ \A p \in Peer : p # host => fromManager'[p] = fromManager[p]
  <2>1. Append(fromManager[host], m) \in Seq(Packet)
      BY <1>4, <1>9, QueueGrows DEF OverlayTypeOK
  <2>2. fromManager' = [fromManager EXCEPT ![host] = Append(fromManager[host], m)]
      BY <1>1
  <2>. QED
      BY <1>4, <2>1, <2>2 DEF OverlayTypeOK
<1>12. OverlayTypeOK'
    BY <1>1, <1>11 DEF OverlayTypeOK
<1>13. Announced'
  <2>. SUFFICES ASSUME NEW p \in Peer, NEW k \in 1 .. Len(fromManager'[p]),
                       fromManager'[p][k].type = "JOINING_DATA"
                PROVE  LET d == fromManager'[p][k]
                       IN  /\ d.id \in Joined' /\ peers_data'[d.id].host = p
                           /\ d.parent = peers_data'[d.id].parent_id
                           /\ id'[p] = -1
                           /\ \A l \in 1 .. Len(fromManager'[p]) :
                                 fromManager'[p][l].type = "JOINING_DATA" => k = l
      BY DEF Announced, Host, Above
  <2>. PICK d : d = fromManager'[p][k]
      OBVIOUS
  <2>. SUFFICES /\ d.id \in Joined' /\ Host(d.id)' = p /\ d.parent = Above(d.id)'
                /\ id[p] = -1
                /\ \A l \in 1 .. Len(fromManager'[p]) :
                      fromManager'[p][l].type = "JOINING_DATA" => k = l
      BY <1>1 DEF Host, Above
  <2>1. CASE p # host
    <3>1. fromManager'[p] = fromManager[p]
        BY <1>11, <2>1
    <3>2. /\ d.id \in Joined /\ Host(d.id) = p /\ d.parent = Above(d.id) /\ id[p] = -1
          /\ \A l \in 1 .. Len(fromManager[p]) :
                fromManager[p][l].type = "JOINING_DATA" => k = l
        BY <3>1 DEF RegisterInv, Announced
    <3>. QED
        BY <1>2, <1>3, <3>1, <3>2
  <2>2. CASE p = host
    <3>0. fromManager[p] \in Seq(Packet) /\ fromManager'[p] = Append(fromManager[p], m)
        BY <1>11, <2>2 DEF OverlayTypeOK
    <3>1. /\ Len(fromManager[p]) \in Nat /\ Len(fromManager'[p]) = Len(fromManager[p]) + 1
          /\ \A l \in 1 .. Len(fromManager[p]) + 1 :
                fromManager'[p][l] = IF l = Len(fromManager[p]) + 1 THEN m
                                     ELSE fromManager[p][l]
        BY <1>9, <3>0, QueueGrows
    <3>2. \A l \in 1 .. Len(fromManager[p]) + 1 :
             fromManager'[p][l].type = "JOINING_DATA" => l = Len(fromManager[p]) + 1
        BY <1>8, <2>2, <3>1
    <3>3. d = m
        BY <3>1, <3>2
    <3>. QED
        BY <1>2, <1>3, <1>7, <1>10, <2>2, <3>1, <3>2, <3>3
  <2>. QED
      BY <2>1, <2>2
<1>14. KnowsItself'
    BY <1>1, <1>2, <1>3 DEF RegisterInv, KnowsItself
<1>15. \A p \in Peer : \A c : ChildOf(p, c) => ChildOf(p, c)'
    BY <1>2, <1>3 DEF ChildOf, TreeFacts
<1>16. OnlyChildren'
    BY <1>1, <1>15 DEF RegisterInv, OnlyChildren
<1>17. Registered'
  <2>. SUFFICES ASSUME NEW i \in Joined' \ {0} PROVE Places(Host(Above(i)), i)' = Due(i)'
      BY DEF Registered
  <2>1. CASE i \in Joined
    <3>1. Above(i) \in Joined /\ Above(i)' = Above(i) /\ Host(Above(i))' = Host(Above(i))
          /\ Host(i)' = Host(i)
        BY <1>3, <2>1 DEF TreeFacts
    <3>2. Places(Host(Above(i)), i)' = Places(Host(Above(i)), i) /\ Due(i)' = Due(i)
        BY <1>1, <3>1 DEF Places, Due
    <3>. QED
        BY <2>1, <3>2, RegisteredForm DEF RegisterInv, Registered
  <2>2. CASE i = new
    <3>1. Host(Above(i))' \in Peer
        BY <1>2, <2>2 DEF TreeFacts
    <3>2. ASSUME NEW p \in Peer PROVE Listings(children[p], i) = 0 /\ i \notin addRequests[p]
      <4>1. ~ChildOf(p, i)
          BY <1>2, <2>2 DEF ChildOf
      <4>2. \A k \in 1 .. Len(children[p]) : children[p][k] # i
          BY <4>1 DEF RegisterInv, OnlyChildren
      <4>. QED
          BY <4>1, <4>2, NoListing DEF RegisterInv, OnlyChildren
    <3>3. Places(Host(Above(i)), i)' = 0
        BY <1>1, <3>1, <3>2 DEF Places
    <3>4. Due(i)' = 0
        BY <1>1, <1>3, <1>7, <2>2 DEF Due
    <3>. QED
        BY <3>3, <3>4
  <2>. QED
      BY <1>2, <2>1, <2>2
<1>. QED
    BY <1>6, <1>12, <1>13, <1>14, <1>16, <1>17, PrimedForm DEF RegisterInv

(* A step that only adds packets other than joining data, or takes them. *)
OtherMail(q, q2) ==
    \/ q2 = q
    \/ \E m \in Packet : m.type # "JOINING_DATA" /\ q2 = Append(q, m)
    \/ q # << >> /\ Head(q).type # "JOINING_DATA" /\ q2 = Tail(q)

LEMMA MailRegister ==
    ASSUME RegisterInv, TreeInv',
           UNCHANGED <<joins, current_peers, peers_data, started, id, parent, children,
                       addRequests>>,
           OverlayTypeOK', \A p \in Peer : OtherMail(fromManager[p], fromManager'[p])
    PROVE  RegisterInv'
<1>1. /\ Joined' = Joined /\ \A i : Host(i)' = Host(i) /\ Above(i)' = Above(i)
      /\ \A i, c : Places(i, c)' = Places(i, c) /\ Due(i)' = Due(i)
    BY DEF Joined, Host, Above, Places, Due
<1>2. Applicants' /\ KnowsItself'
    BY <1>1 DEF RegisterInv, Applicants, KnowsItself
<1>3. OnlyChildren'
    BY <1>1 DEF RegisterInv, OnlyChildren, ChildOf
<1>4. RegisteredOnce'
    BY <1>1, RegisteredForm, PrimedForm DEF RegisterInv, Registered
<1>5. ASSUME NEW p \in Peer
      PROVE  \E shift \in Nat :
                \A k \in 1 .. Len(fromManager'[p]) :
                   fromManager'[p][k].type = "JOINING_DATA" =>
                      /\ k + shift \in 1 .. Len(fromManager[p])
                      /\ fromManager'[p][k] = fromManager[p][k + shift]
  <2>. DEFINE q == fromManager[p]
              q2 == fromManager'[p]
  <2>0. q \in Seq(Packet) /\ Len(q) \in Nat
      BY LenProperties DEF RegisterInv, OverlayTypeOK
  <2>1. CASE q2 = q
    <3>1. \A k \in 1 .. Len(q2) : k + 0 \in 1 .. Len(q) /\ q2[k] = q[k + 0]
        BY <2>0, <2>1
    <3>. QED
        BY <3>1
  <2>2. ASSUME NEW m \in Packet, m.type # "JOINING_DATA", q2 = Append(q, m)
        PROVE  \A k \in 1 .. Len(q2) : q2[k].type = "JOINING_DATA" =>
                  k + 0 \in 1 .. Len(q) /\ q2[k] = q[k + 0]
      BY <2>0, <2>2, QueueGrows
  <2>3. CASE q # << >> /\ Head(q).type # "JOINING_DATA" /\ q2 = Tail(q)
    <3>1. \A k \in 1 .. Len(q2) : k + 1 \in 1 .. Len(q) /\ q2[k] = q[k + 1]
        BY <2>0, <2>3, QueueShrinks
    <3>. QED
        BY <3>1
  <2>4. CASE \E m \in Packet : m.type # "JOINING_DATA" /\ q2 = Append(q, m)
    <3>1. \A k \in 1 .. Len(q2) : q2[k].type = "JOINING_DATA" =>
             k + 0 \in 1 .. Len(q) /\ q2[k] = q[k + 0]
        BY <2>2, <2>4
    <3>. QED
        BY <3>1
  <2>. QED
      BY <2>1, <2>3, <2>4 DEF OtherMail
<1>6. Announced'
  <2>. SUFFICES ASSUME NEW p \in Peer, NEW k \in 1 .. Len(fromManager'[p]),
                       fromManager'[p][k].type = "JOINING_DATA"
                PROVE  LET m == fromManager'[p][k]
                       IN  /\ m.id \in Joined /\ Host(m.id) = p /\ m.parent = Above(m.id)
                           /\ id[p] = -1
                           /\ \A l \in 1 .. Len(fromManager'[p]) :
                                 fromManager'[p][l].type = "JOINING_DATA" => k = l
      BY <1>1 DEF Announced
  <2>1. PICK shift \in Nat :
           \A l \in 1 .. Len(fromManager'[p]) :
              fromManager'[p][l].type = "JOINING_DATA" =>
                 /\ l + shift \in 1 .. Len(fromManager[p])
                 /\ fromManager'[p][l] = fromManager[p][l + shift]
      BY <1>5
  <2>2. LET m == fromManager[p][k + shift]
        IN  /\ m.id \in Joined /\ Host(m.id) = p /\ m.parent = Above(m.id)
            /\ id[p] = -1
            /\ \A l \in 1 .. Len(fromManager[p]) :
                  fromManager[p][l].type = "JOINING_DATA" => k + shift = l
      BY <2>1 DEF RegisterInv, Announced
  <2>3. \A l \in 1 .. Len(fromManager'[p]) :
           fromManager'[p][l].type = "JOINING_DATA" => k = l
    <3>. SUFFICES ASSUME NEW l \in 1 .. Len(fromManager'[p]),
                         fromManager'[p][l].type = "JOINING_DATA"
                  PROVE  k = l
        OBVIOUS
    <3>1. l + shift \in 1 .. Len(fromManager[p])
          /\ fromManager[p][l + shift].type = "JOINING_DATA"
        BY <2>1
    <3>2. k + shift = l + shift
        BY <2>2, <3>1
    <3>. QED
        BY <3>2
  <2>. QED
      BY <2>1, <2>2, <2>3
<1>. QED
    BY <1>2, <1>3, <1>4, <1>6 DEF RegisterInv
(* The peer learns its id and registers with its parent. *)
LEMMA LearnRegister ==
    ASSUME RegisterInv, TreeInv', NEW p \in Peer, RecvJoiningData(p)
    PROVE  RegisterInv'
<1>. PICK i, up : i = Head(fromManager[p]).id /\ up = Head(fromManager[p]).parent
    OBVIOUS
<1>. TreeInv /\ OverlayTypeOK /\ TreeFacts
    BY TreeFactsHold DEF RegisterInv
<1>1. /\ UNCHANGED <<joins, current_peers, peers_data, started, children, random_pool, trigger>>
      /\ fromManager[p] # << >> /\ Head(fromManager[p]).type = "JOINING_DATA"
      /\ id' = [id EXCEPT ![p] = i]
      /\ parent' = [parent EXCEPT ![p] = IF i > 0 THEN up ELSE -1]
      /\ addRequests' = IF i > 0 THEN [addRequests EXCEPT ![Host(up)] = @ \cup {i}]
                        ELSE addRequests
      /\ fromManager' = [fromManager EXCEPT ![p] = Tail(@)]
    BY DEF RecvJoiningData, FromManager, managerVars, Host
<1>. DEFINE q == fromManager[p]
<1>2. /\ q \in Seq(Packet) /\ Tail(q) \in Seq(Packet) /\ Len(q) \in Nat
      /\ Len(Tail(q)) = Len(q) - 1 /\ 1 \in 1 .. Len(q) /\ Head(q) = q[1]
      /\ \A k \in 1 .. Len(q) - 1 : k + 1 \in 1 .. Len(q) /\ Tail(q)[k] = q[k + 1]
  <2>1. q \in Seq(Packet) /\ q # << >>
      BY <1>1 DEF OverlayTypeOK
  <2>. QED
      BY <2>1, QueueShrinks
<1>3. /\ i \in Joined /\ Host(i) = p /\ up = Above(i) /\ id[p] = -1
      /\ \A l \in 1 .. Len(q) : q[l].type = "JOINING_DATA" => 1 = l
    BY <1>1, <1>2 DEF RegisterInv, Announced
<1>4. /\ i \in Nat /\ up \in Nat
      /\ i > 0 => i \in Joined \ {0} /\ up \in Joined /\ Host(up) \in Peer
    BY <1>3 DEF TreeFacts
<1>5. /\ Joined' = Joined /\ \A k : Host(k)' = Host(k) /\ Above(k)' = Above(k)
    BY <1>1 DEF Joined, Host, Above
<1>6. /\ id' \in [Peer -> Nat \cup {-1}] /\ id'[p] = i
      /\ \A u \in Peer : u # p => id'[u] = id[u]
      /\ parent' \in [Peer -> Nat \cup {-1}] /\ (i > 0 => parent'[p] = up)
      /\ \A u \in Peer : u # p => parent'[u] = parent[u]
    BY <1>1, <1>4 DEF OverlayTypeOK
<1>7. /\ addRequests' \in [Peer -> SUBSET Nat]
      /\ \A u \in Peer : \A c : c \in addRequests'[u] <=>
            c \in addRequests[u] \/ (i > 0 /\ c = i /\ u = Host(up))
    BY <1>1, <1>4 DEF OverlayTypeOK
<1>8. /\ fromManager' \in [Peer -> Seq(Packet)] /\ fromManager'[p] = Tail(q)
      /\ \A u \in Peer : u # p => fromManager'[u] = fromManager[u]
    BY <1>1, <1>2 DEF OverlayTypeOK
<1>9. OverlayTypeOK'
    BY <1>1, <1>6, <1>7, <1>8 DEF OverlayTypeOK
<1>10. Applicants'
    BY <1>1, <1>5 DEF RegisterInv, Applicants
<1>11. Announced'
  <2>. SUFFICES ASSUME NEW u \in Peer, NEW k \in 1 .. Len(fromManager'[u]),
                       fromManager'[u][k].type = "JOINING_DATA"
                PROVE  LET d == fromManager'[u][k]
                       IN  /\ d.id \in Joined /\ Host(d.id) = u /\ d.parent = Above(d.id)
                           /\ id'[u] = -1
                           /\ \A l \in 1 .. Len(fromManager'[u]) :
                                 fromManager'[u][l].type = "JOINING_DATA" => k = l
      BY <1>5 DEF Announced
  <2>1. u # p
    <3>1. \A l \in 1 .. Len(Tail(q)) : Tail(q)[l].type # "JOINING_DATA"
      <4>1. \A l \in 1 .. Len(Tail(q)) : l + 1 \in 1 .. Len(q) /\ Tail(q)[l] = q[l + 1]
                                         /\ l + 1 # 1
          BY <1>2
      <4>. QED
          BY <1>3, <4>1
    <3>. QED
        BY <1>8, <3>1
  <2>2. fromManager'[u] = fromManager[u] /\ id'[u] = id[u]
      BY <1>6, <1>8, <2>1
  <2>. QED
      BY <2>2 DEF RegisterInv, Announced
<1>12. KnowsItself'
  <2>. SUFFICES ASSUME NEW u \in Peer, id'[u] # -1
                PROVE  /\ id'[u] \in Joined /\ Host(id'[u]) = u
                       /\ id'[u] > 0 => parent'[u] = Above(id'[u])
      BY <1>5 DEF KnowsItself
  <2>1. CASE u = p
      BY <1>3, <1>6, <2>1
  <2>2. CASE u # p
      BY <1>6, <2>2 DEF RegisterInv, KnowsItself
  <2>. QED
      BY <2>1, <2>2
<1>13. OnlyChildren'
  <2>1. \A u, c : ChildOf(u, c)' <=> ChildOf(u, c)
      BY <1>5 DEF ChildOf
  <2>2. i > 0 => ChildOf(Host(up), i)
      BY <1>3, <1>4 DEF ChildOf
  <2>. QED
      BY <1>1, <1>7, <2>1, <2>2 DEF RegisterInv, OnlyChildren
<1>14. Registered'
  <2>. SUFFICES ASSUME NEW k \in Joined \ {0} PROVE Places(Host(Above(k)), k)' = Due(k)'
      BY <1>5 DEF Registered
  <2>. DEFINE u == Host(Above(k))
  <2>1. /\ u \in Peer /\ Host(k) \in Peer /\ children[u] \in Seq(Nat)
        /\ Places(u, k) = Due(k) /\ Listings(children[u], k) \in Nat
    <3>1. u \in Peer /\ Host(k) \in Peer /\ children[u] \in Seq(Nat)
        BY DEF TreeFacts, OverlayTypeOK
    <3>2. Places(u, k) = Due(k)
        BY RegisteredForm DEF RegisterInv, Registered
    <3>. QED
        BY <3>1, <3>2, ListingsAppend DEF TreeFacts
  <2>2. /\ Places(Host(Above(k)), k)'
              = Listings(children[u], k) + (IF k \in addRequests'[u] THEN 1 ELSE 0)
        /\ Due(k)' = IF id'[Host(k)] = k THEN 1 ELSE 0
      BY <1>1, <1>5 DEF Places, Due
  <2>3. CASE k = i
    <3>1. Due(k) = 0 /\ Due(k)' = 1
        BY <1>3, <1>4, <1>6, <2>2, <2>3 DEF Due
    <3>2. Listings(children[u], k) = 0
        BY <2>1, <3>1 DEF Places
    <3>3. k \in addRequests'[u]
        BY <1>3, <1>4, <1>7, <2>1, <2>3
    <3>. QED
        BY <2>2, <3>1, <3>2, <3>3
  <2>4. CASE k # i
    <3>1. Host(k) # p
        BY <1>3, <2>4 DEF RegisterInv, Applicants
    <3>2. Due(k)' = Due(k) /\ (k \in addRequests'[u] <=> k \in addRequests[u])
        BY <1>6, <1>7, <2>1, <2>2, <2>4, <3>1 DEF Due
    <3>. QED
        BY <2>1, <2>2, <3>2 DEF Places
  <2>. QED
      BY <2>3, <2>4
<1>. QED
    BY <1>9, <1>10, <1>11, <1>12, <1>13, <1>14, PrimedForm DEF RegisterInv

(* The parent lists it: it is not the child itself, which has another id. *)
LEMMA ListRegister ==
    ASSUME RegisterInv, TreeInv', NEW p \in Peer, NEW c, RecvNewChild(p, c)
    PROVE  RegisterInv'
<1>. TreeInv /\ OverlayTypeOK /\ TreeFacts
    BY TreeFactsHold DEF RegisterInv
<1>1. ChildOf(p, c) /\ c \in Nat
    BY DEF RecvNewChild, RegisterInv, OnlyChildren, OverlayTypeOK
<1>2. id[p] # c
  <2>. SUFFICES ASSUME id[p] = c PROVE FALSE
      OBVIOUS
  <2>1. Host(c) = p
      BY <1>1 DEF RegisterInv, KnowsItself
  <2>2. Above(c) \in Joined /\ Above(c) # c /\ Host(Above(c)) = p
      BY <1>1 DEF ChildOf, TreeFacts
  <2>. QED
      BY <1>1, <2>1, <2>2 DEF ChildOf, RegisterInv, Applicants
<1>3. /\ UNCHANGED <<joins, current_peers, peers_data, started, id, parent, random_pool,
                     trigger, fromManager>>
      /\ c \in addRequests[p]
      /\ addRequests' = [addRequests EXCEPT ![p] = @ \ {c}]
      /\ children' = [children EXCEPT ![p] = Append(@, c)]
    BY <1>2 DEF RecvNewChild, managerVars
<1>4. /\ Joined' = Joined /\ \A k : Host(k)' = Host(k) /\ Above(k)' = Above(k)
    BY <1>3 DEF Joined, Host, Above
<1>5. /\ children[p] \in Seq(Nat) /\ Append(children[p], c) \in Seq(Nat)
      /\ Len(children[p]) \in Nat /\ Len(Append(children[p], c)) = Len(children[p]) + 1
      /\ \A k \in 1 .. Len(children[p]) + 1 :
            Append(children[p], c)[k] = IF k = Len(children[p]) + 1 THEN c ELSE children[p][k]
  <2>1. children[p] \in Seq(Nat)
      BY DEF OverlayTypeOK
  <2>. QED
      BY <1>1, <2>1, LenProperties, AppendProperties
<1>6. /\ children' \in [Peer -> Seq(Nat)] /\ children'[p] = Append(children[p], c)
      /\ addRequests' \in [Peer -> SUBSET Nat] /\ addRequests'[p] = addRequests[p] \ {c}
      /\ \A u \in Peer : u # p => children'[u] = children[u] /\ addRequests'[u] = addRequests[u]
    BY <1>3, <1>5 DEF OverlayTypeOK
<1>7. OverlayTypeOK'
    BY <1>3, <1>6 DEF OverlayTypeOK
<1>8. Applicants' /\ Announced' /\ KnowsItself'
  <2>1. Applicants' /\ KnowsItself'
      BY <1>3, <1>4 DEF RegisterInv, Applicants, KnowsItself
  <2>2. Announced'
      BY <1>3, <1>4 DEF RegisterInv, Announced
  <2>. QED
      BY <2>1, <2>2
<1>9. OnlyChildren'
  <2>1. \A u, k : ChildOf(u, k)' <=> ChildOf(u, k)
      BY <1>4 DEF ChildOf
  <2>2. \A k \in 1 .. Len(children'[p]) : ChildOf(p, children'[p][k])
    <3>1. \A k \in 1 .. Len(children[p]) + 1 :
             k = Len(children[p]) + 1 \/ k \in 1 .. Len(children[p])
        BY <1>5
    <3>. QED
        BY <1>1, <1>5, <1>6, <3>1 DEF RegisterInv, OnlyChildren
  <2>. QED
      BY <1>6, <2>1, <2>2 DEF RegisterInv, OnlyChildren
<1>10. Registered'
  <2>. SUFFICES ASSUME NEW k \in Joined \ {0} PROVE Places(Host(Above(k)), k)' = Due(k)'
      BY <1>4 DEF Registered
  <2>. DEFINE u == Host(Above(k))
  <2>1. u \in Peer /\ Places(u, k) = Due(k)
    <3>1. u \in Peer
        BY DEF TreeFacts
    <3>2. Places(u, k) = Due(k)
        BY RegisteredForm DEF RegisterInv, Registered
    <3>. QED
        BY <3>1, <3>2
  <2>2. /\ Places(Host(Above(k)), k)'
              = Listings(children'[u], k) + (IF k \in addRequests'[u] THEN 1 ELSE 0)
        /\ Due(k)' = Due(k)
      BY <1>3, <1>4 DEF Places, Due
  <2>3. CASE u = p
    <3>1. /\ Listings(children[p], k) \in Nat
          /\ Listings(children'[p], k)
                = Listings(children[p], k) + (IF c = k THEN 1 ELSE 0)
        BY <1>1, <1>5, <1>6, ListingsAppend
    <3>2. k \in addRequests'[p] <=> k \in addRequests[p] /\ k # c
        BY <1>6
    <3>. QED
        BY <1>3, <2>1, <2>2, <2>3, <3>1, <3>2 DEF Places
  <2>4. CASE u # p
      BY <1>6, <2>1, <2>2, <2>4 DEF Places
  <2>. QED
      BY <2>3, <2>4
<1>. QED
    BY <1>7, <1>8, <1>9, <1>10, PrimedForm DEF RegisterInv

LEMMA RegisterInit == Init => RegisterInv
<1>. SUFFICES ASSUME Init PROVE RegisterInv
    OBVIOUS
<1>1. TreeInv /\ Joined = {} /\ Len(joins) = 0
    BY InitTree DEF Init, Joined
<1>2. OverlayTypeOK
    BY EmptySeq DEF Init, OverlayTypeOK
<1>3. /\ \A p \in Peer : Len(fromManager[p]) = 0 /\ Len(children[p]) = 0
      /\ \A p \in Peer : id[p] = -1 /\ addRequests[p] = {}
    BY DEF Init
<1>4. Applicants /\ Announced /\ KnowsItself /\ OnlyChildren /\ RegisteredOnce
    BY <1>1, <1>3 DEF Applicants, Announced, KnowsItself, OnlyChildren, RegisteredOnce
<1>. QED
    BY <1>1, <1>2, <1>4 DEF RegisterInv

(* What reaches the peers' queues in the steps that carry no joining data. *)
LEMMA MailSteps ==
    ASSUME RegisterInv, TreeInv',
           SendBroadcastIp \/ SendTriggerSignal
              \/ \E p \in Peer : RecvBroadcastIp(p) \/ RecvTrigger(p)
    PROVE  RegisterInv'
<1>. OverlayTypeOK
    BY DEF RegisterInv
<1>1. ASSUME NEW m \in {BroadcastIp, TriggerSignal}, NEW next, SendNext(m, next)
      PROVE  RegisterInv'
  <2>. PICK h : h = peers_data[sentTo].host
      OBVIOUS
  <2>1. /\ UNCHANGED <<joins, current_peers, peers_data, started, id, parent, children,
                       addRequests, random_pool, trigger>>
        /\ fromManager' = [fromManager EXCEPT ![h] = Append(@, m)]
      BY <1>1 DEF SendNext, managerVars, peerVars
  <2>2. m \in Packet /\ m.type # "JOINING_DATA"
      BY DEF Packet, BroadcastIp, TriggerSignal
  <2>3. \A p \in Peer : /\ Append(fromManager[p], m) \in Seq(Packet)
                        /\ fromManager'[p] = IF p = h THEN Append(fromManager[p], m)
                                             ELSE fromManager[p]
      BY <2>1, <2>2, AppendProperties DEF OverlayTypeOK
  <2>4. OverlayTypeOK'
      BY <2>1, <2>3 DEF OverlayTypeOK
  <2>5. \A p \in Peer : OtherMail(fromManager[p], fromManager'[p])
      BY <2>2, <2>3 DEF OtherMail
  <2>. QED
      BY <2>1, <2>4, <2>5, MailRegister
<1>2. ASSUME NEW p \in Peer, RecvBroadcastIp(p) \/ RecvTrigger(p)
      PROVE  RegisterInv'
  <2>1. /\ UNCHANGED <<joins, current_peers, peers_data, started, id, parent, children,
                       addRequests>>
        /\ fromManager[p] # << >> /\ Head(fromManager[p]).type # "JOINING_DATA"
        /\ fromManager' = [fromManager EXCEPT ![p] = Tail(@)]
      BY <1>2 DEF RecvBroadcastIp, RecvTrigger, FromManager, managerVars
  <2>2. DOMAIN random_pool' = Peer /\ trigger' \in [Peer -> BOOLEAN]
      BY <1>2 DEF RecvBroadcastIp, RecvTrigger, OverlayTypeOK
  <2>3. Tail(fromManager[p]) \in Seq(Packet)
      BY <2>1, HeadTailProperties DEF OverlayTypeOK
  <2>4. OverlayTypeOK'
      BY <2>1, <2>2, <2>3 DEF OverlayTypeOK
  <2>5. \A u \in Peer : OtherMail(fromManager[u], fromManager'[u])
      BY <2>1 DEF OtherMail, OverlayTypeOK
  <2>. QED
      BY <2>1, <2>4, <2>5, MailRegister
<1>. QED
    BY <1>1, <1>2 DEF SendBroadcastIp, SendTriggerSignal

LEMMA RegisterStep == RegisterInv /\ [Next]_vars => RegisterInv'
<1>. SUFFICES ASSUME RegisterInv, [Next]_vars PROVE RegisterInv'
    OBVIOUS
<1>1. TreeInv'
    BY TreeStep DEF RegisterInv
<1>2. CASE HandleJoinRequest
    BY <1>1, <1>2, JoinRegister
<1>3. CASE SendBroadcastIp \/ SendTriggerSignal
              \/ \E p \in Peer : RecvBroadcastIp(p) \/ RecvTrigger(p)
    BY <1>1, <1>3, MailSteps
<1>4. ASSUME NEW p \in Peer,
             SendJoinRequest(p) \/ RecvJoiningData(p) \/ \E c \in Ids : RecvNewChild(p, c)
      PROVE  RegisterInv'
    BY <1>1, <1>4, AskStep, LearnRegister, ListRegister
<1>5. CASE UNCHANGED vars
  <2>1. \A p \in Peer : OtherMail(fromManager[p], fromManager'[p])
      BY <1>5 DEF vars, OtherMail
  <2>2. OverlayTypeOK'
      BY <1>5 DEF vars, peerVars, RegisterInv, OverlayTypeOK
  <2>3. UNCHANGED <<joins, current_peers, peers_data, started, id, parent, children,
                    addRequests>>
      BY <1>5 DEF vars, peerVars, managerVars
  <2>. QED
      BY <1>1, <2>1, <2>2, <2>3, MailRegister
<1>. QED
    BY <1>2, <1>3, <1>4, <1>5 DEF Next, Manager, PeerStep, Running

(* A peer that knows its parent is in the parent's list once, or its       *)
(* registration is still on its way: none is lost, repeated or misplaced.  *)
THEOREM ChildrenRegisterOnce == Spec => []RegisteredOnce
<1>1. RegisterInv => RegisteredOnce
    BY DEF RegisterInv
<1>. QED
    BY <1>1, RegisterInit, RegisterStep, PTL DEF Spec
-----------------------------------------------------------------------------
(* The start.  The broadcasts come after the last peer has joined, and     *)
(* what the sleeps are trusted for is carried from one send to the next.   *)

Mail(p, type) == OnWay(fromManager[p], type)
IpsBegun == (phase = "ips" /\ sentTo > 0) \/ phase \in {"triggers", "exited"}
TriggersBegun == (phase = "triggers" /\ sentTo > 0) \/ phase = "exited"
IpSent(i) == (phase = "ips" /\ i < sentTo) \/ phase \in {"triggers", "exited"}

(* Nobody is told of the others before the last one has joined. *)
Phases ==
    /\ phase \in {"joining", "ips", "triggers", "exited"}
    /\ sentTo \in Ids
    /\ IF phase = "joining" THEN current_peers < number_of_peers - 1 /\ sentTo = 0
       ELSE current_peers = number_of_peers - 1
    /\ \A p \in Peer :
          /\ Mail(p, "BROADCAST_IP") => IpsBegun
          /\ trigger[p] \/ Mail(p, "TRIGGER") => TriggersBegun

(* A peer that has joined knows its id or is about to be told. *)
Reached == \A i \in Joined : id[Host(i)] = i \/ Mail(Host(i), "JOINING_DATA")

(* What the two sleeps are for. *)
Slept ==
    sleepsSuffice =>
       /\ IpsBegun => \A p \in Peer : ~Mail(p, "JOINING_DATA") /\ addRequests[p] = {}
       /\ TriggersBegun => \A p \in Peer : ~Mail(p, "BROADCAST_IP")
       /\ \A i \in Ids : IpSent(i) =>
             random_pool[Host(i)] = Ids \ {i} \/ Mail(Host(i), "BROADCAST_IP")

StartInv == RegisterInv /\ Phases /\ Reached /\ Slept

LEMMA PeerCount == number_of_peers \in Nat /\ number_of_peers > 0
<1>1. number_of_peers \in Nat /\ number_of_peers # 0
    BY ManagerAssumption, FS_CardinalityType, FS_EmptySet DEF number_of_peers
<1>. QED
    BY <1>1

LEMMA PhaseFacts ==
    ASSUME TreeFacts, Phases
    PROVE  /\ Joined \subseteq Ids
           /\ phase # "joining" => Joined = Ids
           /\ sentTo \in Nat /\ \A i \in Ids : i \in Nat
           /\ TriggersBegun => IpsBegun
           /\ \A i \in Ids : IpSent(i) => IpsBegun
BY PeerCount DEF TreeFacts, Phases, Joined, Ids, TriggersBegun, IpsBegun, IpSent

(* Sending one packet to one peer, in terms of what is on its way. *)
LEMMA MailSent ==
    ASSUME OverlayTypeOK, NEW h \in Peer, NEW m \in Packet,
           fromManager' = [fromManager EXCEPT ![h] = Append(@, m)]
    PROVE  \A p \in Peer : \A t : Mail(p, t)' <=> Mail(p, t) \/ (p = h /\ m.type = t)
<1>. SUFFICES ASSUME NEW p \in Peer, NEW t
              PROVE  Mail(p, t)' <=> Mail(p, t) \/ (p = h /\ m.type = t)
    OBVIOUS
<1>1. fromManager'[p] = IF p = h THEN Append(fromManager[p], m) ELSE fromManager[p]
    BY DEF OverlayTypeOK
<1>2. OnWay(Append(fromManager[p], m), t) <=> OnWay(fromManager[p], t) \/ m.type = t
  <2>1. fromManager[p] \in Seq(Packet)
      BY DEF OverlayTypeOK
  <2>. QED
      BY <2>1, QueueGrows
<1>. QED
    BY <1>1, <1>2 DEF Mail, OnWay

LEMMA MailTaken ==
    ASSUME OverlayTypeOK, NEW h \in Peer, NEW type, FromManager(h, type),
           fromManager' = [fromManager EXCEPT ![h] = Tail(@)]
    PROVE  /\ Mail(h, type)
           /\ \A p \in Peer : \A t : Mail(p, t)' => Mail(p, t)
           /\ \A p \in Peer : \A t : Mail(p, t) => Mail(p, t)' \/ (p = h /\ t = type)
<1>. DEFINE q == fromManager[h]
<1>1. q \in Seq(Packet) /\ q # << >> /\ Head(q).type = type
    BY DEF OverlayTypeOK, FromManager
<1>2. \A t : OnWay(q, t) <=> OnWay(Tail(q), t) \/ t = type
    BY <1>1, QueueShrinks
<1>3. Mail(h, type)
    BY <1>1, <1>2 DEF Mail
<1>4. ASSUME NEW p \in Peer, NEW t
      PROVE  /\ Mail(p, t)' => Mail(p, t)
             /\ Mail(p, t) => Mail(p, t)' \/ (p = h /\ t = type)
  <2>1. fromManager'[p] = IF p = h THEN Tail(q) ELSE fromManager[p]
      BY DEF OverlayTypeOK
  <2>2. CASE p = h
    <3>1. Mail(p, t)' <=> OnWay(Tail(q), t)
        BY <2>1, <2>2 DEF Mail, OnWay
    <3>. QED
        BY <1>2, <2>2, <3>1 DEF Mail
  <2>3. CASE p # h
      BY <2>1, <2>3 DEF Mail, OnWay
  <2>. QED
      BY <2>2, <2>3
<1>. QED
    BY <1>3, <1>4

LEMMA StartInit == Init => StartInv
<1>. SUFFICES ASSUME Init PROVE StartInv
    OBVIOUS
<1>1. RegisterInv /\ Joined = {}
    BY RegisterInit DEF Init, Joined
<1>2. \A p \in Peer : \A t : ~Mail(p, t)
    BY DEF Init, Mail, OnWay
<1>3. Phases
  <2>1. CASE number_of_peers > 0
      BY <1>2, <2>1, PeerCount DEF Init, Phases, Ids
  <2>. QED
      BY <2>1, PeerCount
<1>4. Reached /\ Slept
    BY <1>1, PeerCount DEF Init, Reached, Slept, IpsBegun, TriggersBegun, IpSent, Ids
<1>. QED
    BY <1>1, <1>3, <1>4 DEF StartInv

(* One more has joined: no broadcast has begun. *)
LEMMA JoinStart ==
    ASSUME StartInv, RegisterInv', HandleJoinRequest
    PROVE  Phases' /\ Reached' /\ Slept'
<1>a. PICK new, host, under, m :
         /\ new = current_peers + 1 /\ host = Head(joins) /\ under = current_parent_id'
         /\ m = JoiningData(new, under)
    OBVIOUS
<1>. /\ TreeInv /\ OverlayTypeOK /\ TreeFacts /\ TreeInv' /\ TreeFacts'
     /\ Phases /\ Reached
    BY TreeFactsHold, TreeFactsNext DEF StartInv, RegisterInv
<1>1. /\ joins \in Seq(Peer) /\ joins # << >> /\ phase = "joining"
      /\ current_peers \in Nat \cup {-1} /\ current_peers' = new /\ new \in Nat
      /\ phase' = IF new = number_of_peers - 1 THEN "ips" ELSE phase
      /\ UNCHANGED <<id, trigger, sentTo>>
      /\ fromManager' = [fromManager EXCEPT ![host] = Append(@, m)]
    BY <1>a DEF HandleJoinRequest, peerVars, TreeInv, Filling, TreeFacts
<1>2. Joined' = Joined \cup {new} /\ new \notin Joined
    BY <1>1, <1>a DEF Joined
<1>3. (\A i \in Joined : Host(i)' = Host(i)) /\ Host(new)' = host
    BY <1>a, JoinKeeps
<1>4. host \in Peer /\ m \in Packet /\ m.type = "JOINING_DATA"
  <2>1. host \in Peer /\ under \in Nat
      BY <1>1, <1>a, HeadTailProperties DEF TreeInv, Filling
  <2>. QED
      BY <1>1, <1>a, <2>1 DEF Packet, JoiningData
<1>5. \A p \in Peer : \A t : Mail(p, t)' <=> Mail(p, t) \/ (p = host /\ m.type = t)
    BY <1>1, <1>4, MailSent
<1>6. /\ sentTo = 0 /\ sentTo' = 0 /\ phase' \in {"joining", "ips"}
      /\ ~IpsBegun /\ ~TriggersBegun /\ ~IpsBegun' /\ ~TriggersBegun'
    BY <1>1 DEF Phases, IpsBegun, TriggersBegun
<1>7. Ids' = Ids /\ \A i \in Ids : ~IpSent(i)'
    BY <1>6, PeerCount DEF Ids, IpSent
<1>8. Phases'
  <2>1. IF phase' = "joining" THEN current_peers' < number_of_peers - 1 /\ sentTo' = 0
        ELSE current_peers' = number_of_peers - 1
      BY <1>1, <1>6, <1>a, PeerCount DEF Phases
  <2>2. \A p \in Peer : /\ ~Mail(p, "BROADCAST_IP")' /\ ~trigger'[p]
                        /\ ~Mail(p, "TRIGGER")'
      BY <1>1, <1>4, <1>5, <1>6 DEF Phases
  <2>. QED
      BY <1>1, <1>6, <1>7, <2>1, <2>2 DEF Phases
<1>9. Reached'
  <2>. SUFFICES ASSUME NEW i \in Joined'
                PROVE  (id[Host(i)] = i)' \/ Mail(Host(i), "JOINING_DATA")'
      BY DEF Reached
  <2>. PICK p : p = Host(i)'
      OBVIOUS
  <2>1. p \in Peer
      BY DEF TreeFacts
  <2>2. id[p] = i \/ Mail(p, "JOINING_DATA") \/ p = host
      BY <1>2, <1>3 DEF Reached
  <2>3. id'[p] = i \/ Mail(p, "JOINING_DATA")'
      BY <1>1, <1>4, <1>5, <2>1, <2>2
  <2>. QED
      BY <2>3 DEF Mail
<1>10. Slept'
    BY <1>6, <1>7 DEF Slept
<1>. QED
    BY <1>8, <1>9, <1>10

(* One send of a broadcast.  When it is the first, Settled is what the     *)
(* sleep before it is trusted for.                                         *)
LEMMA SendStart ==
    ASSUME StartInv, RegisterInv', SendBroadcastIp \/ SendTriggerSignal
    PROVE  Phases' /\ Reached' /\ Slept'
<1>. PICK h, m : /\ h = Host(sentTo)
                 /\ m = IF phase = "ips" THEN BroadcastIp ELSE TriggerSignal
    OBVIOUS
<1>. /\ OverlayTypeOK /\ TreeFacts /\ Phases /\ Reached /\ Slept
    BY TreeFactsHold DEF StartInv, RegisterInv
<1>1. /\ UNCHANGED <<current_peers, peers_data, id, random_pool, trigger, addRequests,
                     sleepsSuffice>>
      /\ fromManager' = [fromManager EXCEPT ![h] = Append(@, m)]
      /\ phase = "ips" \/ phase = "triggers"
      /\ phase' = IF sentTo # number_of_peers - 1 THEN phase
                  ELSE IF phase = "ips" THEN "triggers" ELSE "exited"
      /\ sentTo' = IF sentTo # number_of_peers - 1 THEN sentTo + 1 ELSE 0
    BY DEF SendBroadcastIp, SendTriggerSignal, SendNext, managerVars, peerVars, Host
<1>2. /\ Joined = Ids /\ sentTo \in Ids /\ sentTo \in Nat /\ h \in Peer
      /\ \A i \in Ids : i \in Nat /\ Host(i) \in Peer
    BY <1>1, PhaseFacts DEF TreeFacts, Phases
<1>3. m \in Packet /\ m.type = IF phase = "ips" THEN "BROADCAST_IP" ELSE "TRIGGER"
    BY DEF Packet, BroadcastIp, TriggerSignal
<1>4. \A p \in Peer : \A t : Mail(p, t)' <=> Mail(p, t) \/ (p = h /\ m.type = t)
    BY <1>1, <1>2, <1>3, MailSent
<1>5. Joined' = Joined /\ Ids' = Ids /\ \A i : Host(i)' = Host(i)
    BY <1>1 DEF Joined, Ids, Host
<1>6. sentTo' \in Ids /\ sentTo' \in Nat
    BY <1>1, <1>2, PeerCount DEF Ids
<1>7. /\ IpsBegun'
      /\ TriggersBegun' <=> phase = "triggers"
      /\ phase = "triggers" => IpsBegun
      /\ phase = "ips" => ~TriggersBegun
    BY <1>1, <1>2 DEF IpsBegun, TriggersBegun
<1>8. Phases'
  <2>1. \A p \in Peer : /\ trigger'[p] \/ Mail(p, "TRIGGER")' => TriggersBegun'
                        /\ Mail(p, "BROADCAST_IP")' => IpsBegun'
      BY <1>1, <1>3, <1>4, <1>7 DEF Phases
  <2>. QED
      BY <1>1, <1>5, <1>6, <2>1 DEF Phases
<1>9. Reached'
  <2>1. \A i \in Joined : id[Host(i)] = i \/ OnWay(fromManager'[Host(i)], "JOINING_DATA")
      BY <1>2, <1>4 DEF Reached, Mail
  <2>2. \A i \in Joined : id'[Host(i)'] = i \/ OnWay(fromManager'[Host(i)'], "JOINING_DATA")
      BY <1>1, <1>5, <2>1 DEF Mail
  <2>. QED
      BY <1>5, <2>2 DEF Reached, Mail
<1>10. Slept'
  <2>. SUFFICES ASSUME sleepsSuffice PROVE Slept'
      BY <1>1 DEF Slept
  <2>1. \A p \in Peer : ~Mail(p, "JOINING_DATA") /\ addRequests[p] = {}
    <3>1. CASE IpsBegun
        BY <3>1 DEF Slept
    <3>2. CASE ~IpsBegun
      <4>1. phase = "ips" /\ sentTo = 0 /\ Settled("JOINING_DATA")
          BY <1>1, <1>2, <1>7, <3>2 DEF SendBroadcastIp, SendTriggerSignal, IpsBegun
      <4>. QED
          BY <4>1 DEF Settled, Mail, OnWay
    <3>. QED
        BY <3>1, <3>2
  <2>2. phase = "triggers" => \A p \in Peer : ~Mail(p, "BROADCAST_IP")
    <3>. SUFFICES ASSUME phase = "triggers" PROVE \A p \in Peer : ~Mail(p, "BROADCAST_IP")
        OBVIOUS
    <3>1. CASE TriggersBegun
        BY <3>1 DEF Slept
    <3>2. CASE ~TriggersBegun
      <4>1. sentTo = 0 /\ Settled("BROADCAST_IP")
          BY <1>2, <3>2 DEF SendBroadcastIp, SendTriggerSignal, TriggersBegun
      <4>. QED
          BY <4>1 DEF Settled, Mail, OnWay
    <3>. QED
        BY <3>1, <3>2
  <2>3. ASSUME NEW i \in Ids, IpSent(i)'
        PROVE  random_pool[Host(i)] = Ids \ {i} \/ OnWay(fromManager'[Host(i)], "BROADCAST_IP")
    <3>1. IpSent(i) \/ (phase = "ips" /\ i = sentTo)
        BY <1>1, <1>2, <2>3 DEF IpSent, Ids
    <3>2. CASE IpSent(i)
        BY <1>2, <1>4, <3>2 DEF Slept, Mail
    <3>3. CASE phase = "ips" /\ i = sentTo
        BY <1>2, <1>3, <1>4, <3>3 DEF Mail
    <3>. QED
        BY <3>1, <3>2, <3>3
  <2>4. \A p \in Peer : ~Mail(p, "JOINING_DATA")' /\ addRequests'[p] = {}
      BY <1>1, <1>3, <1>4, <2>1
  <2>5. TriggersBegun' => \A p \in Peer : ~Mail(p, "BROADCAST_IP")'
      BY <1>3, <1>4, <1>7, <2>2
  <2>6. \A i \in Ids : IpSent(i)' =>
           random_pool'[Host(i)'] = Ids \ {i} \/ OnWay(fromManager'[Host(i)'], "BROADCAST_IP")
      BY <1>1, <1>5, <2>3 DEF Mail
  <2>. QED
      BY <1>5, <2>4, <2>5, <2>6 DEF Slept, Mail
<1>. QED
    BY <1>8, <1>9, <1>10

(* A peer takes its joining data: before the first sleep is over. *)
LEMMA LearnStart ==
    ASSUME StartInv, RegisterInv', NEW p \in Peer, RecvJoiningData(p)
    PROVE  Phases' /\ Reached' /\ Slept'
<1>. PICK i : i = Head(fromManager[p]).id
    OBVIOUS
<1>. /\ OverlayTypeOK /\ TreeFacts /\ Phases /\ Reached /\ Slept
    BY TreeFactsHold DEF StartInv, RegisterInv
<1>1. /\ UNCHANGED <<current_peers, peers_data, phase, sentTo, random_pool, trigger,
                     sleepsSuffice>>
      /\ FromManager(p, "JOINING_DATA")
      /\ id' = [id EXCEPT ![p] = i]
      /\ fromManager' = [fromManager EXCEPT ![p] = Tail(@)]
    BY DEF RecvJoiningData, managerVars
<1>2. /\ Mail(p, "JOINING_DATA")
      /\ \A u \in Peer : \A t : Mail(u, t)' => Mail(u, t)
      /\ \A u \in Peer : \A t : Mail(u, t) => Mail(u, t)' \/ (u = p /\ t = "JOINING_DATA")
    BY <1>1, MailTaken
<1>3. i \in Joined /\ Host(i) = p
  <2>1. fromManager[p] \in Seq(Packet) /\ fromManager[p] # << >>
        /\ Head(fromManager[p]).type = "JOINING_DATA"
      BY <1>1 DEF FromManager, OverlayTypeOK
  <2>2. 1 \in 1 .. Len(fromManager[p]) /\ Head(fromManager[p]) = fromManager[p][1]
      BY <2>1, QueueShrinks
  <2>. QED
      BY <2>1, <2>2 DEF StartInv, RegisterInv, Announced
<1>4. /\ Joined' = Joined /\ Ids' = Ids /\ (\A k : Host(k)' = Host(k) /\ IpSent(k)' = IpSent(k))
      /\ IpsBegun' = IpsBegun /\ TriggersBegun' = TriggersBegun
    BY <1>1 DEF Joined, Ids, Host, IpSent, IpsBegun, TriggersBegun
<1>5. Phases'
    BY <1>1, <1>2, <1>4 DEF Phases
<1>6. Reached'
  <2>1. \A k \in Joined : id'[Host(k)] = k \/ OnWay(fromManager'[Host(k)], "JOINING_DATA")
    <3>. SUFFICES ASSUME NEW k \in Joined
                  PROVE  id'[Host(k)] = k \/ OnWay(fromManager'[Host(k)], "JOINING_DATA")
        OBVIOUS
    <3>1. CASE Host(k) = p
      <4>1. k = i
          BY <1>3, <3>1 DEF StartInv, RegisterInv, Applicants
      <4>. QED
          BY <1>1, <3>1, <4>1 DEF OverlayTypeOK
    <3>2. CASE Host(k) # p
        BY <1>1, <1>2, <3>2 DEF OverlayTypeOK, Reached, TreeFacts, Mail
    <3>. QED
        BY <3>1, <3>2
  <2>2. \A k \in Joined : id'[Host(k)'] = k \/ OnWay(fromManager'[Host(k)'], "JOINING_DATA")
      BY <1>4, <2>1 DEF Mail
  <2>. QED
      BY <1>4, <2>2 DEF Reached, Mail
<1>7. Slept'
  <2>1. sleepsSuffice => ~IpsBegun
      BY <1>2 DEF Slept
  <2>2. sleepsSuffice => ~TriggersBegun /\ \A k \in Ids : ~IpSent(k)
      BY <2>1, PhaseFacts
  <2>. QED
      BY <1>1, <1>4, <2>1, <2>2 DEF Slept
<1>. QED
    BY <1>5, <1>6, <1>7

(* The other steps of a peer, which has its id by then. *)
LEMMA PeerStart ==
    ASSUME StartInv, RegisterInv', NEW p \in Peer,
           SendJoinRequest(p) \/ RecvBroadcastIp(p) \/ RecvTrigger(p)
              \/ \E c \in Ids : RecvNewChild(p, c)
    PROVE  Phases' /\ Reached' /\ Slept'
<1>. /\ OverlayTypeOK /\ TreeFacts /\ Phases /\ Reached /\ Slept
    BY TreeFactsHold DEF StartInv, RegisterInv
<1>1. UNCHANGED <<current_peers, peers_data, phase, sentTo, id, sleepsSuffice>>
    BY DEF SendJoinRequest, RecvBroadcastIp, RecvTrigger, RecvNewChild, managerVars, peerVars
<1>2. /\ Joined' = Joined /\ Ids' = Ids /\ (\A k : Host(k)' = Host(k) /\ IpSent(k)' = IpSent(k))
      /\ IpsBegun' = IpsBegun /\ TriggersBegun' = TriggersBegun
    BY <1>1 DEF Joined, Ids, Host, IpSent, IpsBegun, TriggersBegun
<1>3. /\ \A u \in Peer : \A t : Mail(u, t)' => Mail(u, t)
      /\ \A u \in Peer : \A t : Mail(u, t) =>
            Mail(u, t)' \/ (u = p /\ t = "BROADCAST_IP" /\ RecvBroadcastIp(p)) \/ t = "TRIGGER"
      /\ RecvBroadcastIp(p) => Mail(p, "BROADCAST_IP")
      /\ \A u \in Peer : trigger'[u] => trigger[u] \/ Mail(u, "TRIGGER")
  <2>1. CASE RecvBroadcastIp(p)
    <3>1. /\ FromManager(p, "BROADCAST_IP") /\ UNCHANGED trigger
          /\ fromManager' = [fromManager EXCEPT ![p] = Tail(@)]
        BY <2>1 DEF RecvBroadcastIp
    <3>. QED
        BY <2>1, <3>1, MailTaken
  <2>2. CASE RecvTrigger(p)
    <3>1. /\ FromManager(p, "TRIGGER") /\ trigger' = [trigger EXCEPT ![p] = TRUE]
          /\ fromManager' = [fromManager EXCEPT ![p] = Tail(@)]
        BY <2>2 DEF RecvTrigger
    <3>2. /\ Mail(p, "TRIGGER")
          /\ \A u \in Peer : \A t : Mail(u, t)' => Mail(u, t)
          /\ \A u \in Peer : \A t : Mail(u, t) => Mail(u, t)' \/ (u = p /\ t = "TRIGGER")
        BY <3>1, MailTaken
    <3>3. RecvBroadcastIp(p) => Mail(p, "BROADCAST_IP")
        BY <3>1 DEF RecvBroadcastIp, FromManager
    <3>. QED
        BY <3>1, <3>2, <3>3 DEF OverlayTypeOK
  <2>3. CASE SendJoinRequest(p) \/ \E c \in Ids : RecvNewChild(p, c)
    <3>1. UNCHANGED <<fromManager, trigger>>
        BY <2>3 DEF SendJoinRequest, RecvNewChild, peerVars
    <3>2. \A u : \A t : Mail(u, t)' <=> Mail(u, t)
        BY <3>1 DEF Mail
    <3>3. RecvBroadcastIp(p) => Mail(p, "BROADCAST_IP")
      <4>1. RecvBroadcastIp(p) => FromManager(p, "BROADCAST_IP")
                                  /\ fromManager' = [fromManager EXCEPT ![p] = Tail(@)]
          BY DEF RecvBroadcastIp
      <4>. QED
          BY <4>1, MailTaken
    <3>. QED
        BY <3>1, <3>2, <3>3
  <2>. QED
      BY <2>1, <2>2, <2>3
<1>4. Phases'
    BY <1>1, <1>2, <1>3 DEF Phases
<1>5. Reached'
  <2>1. \A k \in Joined : id[Host(k)] = k \/ OnWay(fromManager'[Host(k)], "JOINING_DATA")
      BY <1>3 DEF Reached, TreeFacts, Mail
  <2>2. \A k \in Joined : id'[Host(k)'] = k \/ OnWay(fromManager'[Host(k)'], "JOINING_DATA")
      BY <1>1, <1>2, <2>1 DEF Mail
  <2>. QED
      BY <1>2, <2>2 DEF Reached, Mail
<1>6. Slept'
  <2>. SUFFICES ASSUME sleepsSuffice PROVE Slept'
      BY <1>1 DEF Slept
  <2>1. IpsBegun => \A u \in Peer : ~Mail(u, "JOINING_DATA")' /\ addRequests'[u] = {}
    <3>1. IpsBegun => \A u \in Peer : ~Mail(u, "JOINING_DATA") /\ addRequests[u] = {}
        BY DEF Slept
    <3>2. \A u \in Peer : addRequests'[u] \subseteq addRequests[u]
      <4>1. CASE UNCHANGED addRequests
          BY <4>1
      <4>2. ASSUME NEW c \in Ids, addRequests' = [addRequests EXCEPT ![p] = @ \ {c}]
            PROVE  \A u \in Peer : addRequests'[u] \subseteq addRequests[u]
          BY <4>2 DEF OverlayTypeOK
      <4>. QED
          BY <4>1, <4>2 DEF SendJoinRequest, RecvBroadcastIp, RecvTrigger, RecvNewChild
    <3>. QED
        BY <1>3, <3>1, <3>2
  <2>2. TriggersBegun => \A u \in Peer : ~Mail(u, "BROADCAST_IP")'
      BY <1>3 DEF Slept
  <2>3. ASSUME NEW i \in Ids, IpSent(i)
        PROVE  random_pool'[Host(i)] = Ids \ {i} \/ OnWay(fromManager'[Host(i)], "BROADCAST_IP")
    <3>1. IpsBegun /\ Joined \subseteq Ids
        BY <2>3, PhaseFacts
    <3>2. phase # "joining" /\ Joined = Ids
        BY <3>1, PhaseFacts DEF IpsBegun
    <3>3. id[Host(i)] = i /\ Host(i) \in Peer
        BY <3>1, <3>2 DEF Slept, Reached, TreeFacts
    <3>4. CASE RecvBroadcastIp(p) /\ Host(i) = p
        BY <3>3, <3>4 DEF RecvBroadcastIp, OverlayTypeOK
    <3>5. CASE ~(RecvBroadcastIp(p) /\ Host(i) = p)
      <4>1. random_pool'[Host(i)] = random_pool[Host(i)]
          BY <3>3, <3>5 DEF SendJoinRequest, RecvBroadcastIp, RecvTrigger, RecvNewChild,
                            peerVars, OverlayTypeOK
      <4>. QED
          BY <1>3, <2>3, <3>3, <3>5, <4>1 DEF Slept, Mail
    <3>. QED
        BY <3>4, <3>5
  <2>4. \A i \in Ids : IpSent(i)' =>
           random_pool'[Host(i)'] = Ids \ {i} \/ OnWay(fromManager'[Host(i)'], "BROADCAST_IP")
      BY <1>2, <2>3 DEF Mail
  <2>. QED
      BY <1>2, <2>1, <2>2, <2>4 DEF Slept, Mail
<1>. QED
    BY <1>4, <1>5, <1>6

LEMMA StartStep == StartInv /\ [Next]_vars => StartInv'
<1>. SUFFICES ASSUME StartInv, [Next]_vars PROVE StartInv'
    OBVIOUS
<1>1. RegisterInv'
    BY RegisterStep DEF StartInv
<1>2. CASE HandleJoinRequest
    BY <1>1, <1>2, JoinStart DEF StartInv
<1>3. CASE SendBroadcastIp \/ SendTriggerSignal
    BY <1>1, <1>3, SendStart DEF StartInv
<1>4. ASSUME NEW p \in Peer, RecvJoiningData(p)
      PROVE  StartInv'
    BY <1>1, <1>4, LearnStart DEF StartInv
<1>5. ASSUME NEW p \in Peer,
             SendJoinRequest(p) \/ RecvBroadcastIp(p) \/ RecvTrigger(p)
                \/ \E c \in Ids : RecvNewChild(p, c)
      PROVE  StartInv'
    BY <1>1, <1>5, PeerStart DEF StartInv
<1>6. CASE UNCHANGED vars
  <2>1. (Phases <=> Phases') /\ (Reached <=> Reached') /\ (Slept <=> Slept')
      BY <1>6 DEF vars, managerVars, peerVars, Phases, Reached, Slept, IpsBegun,
                  TriggersBegun, IpSent, Mail, Host, Joined, Ids
  <2>. QED
      BY <1>1, <2>1 DEF StartInv
<1>. QED
    BY <1>2, <1>3, <1>4, <1>5, <1>6 DEF Next, Manager, PeerStep, Running

LEMMA StartedComplete == StartInv => StartsComplete
<1>. SUFFICES ASSUME StartInv, sleepsSuffice, NEW u \in Peer, trigger[u], NEW i \in Ids
              PROVE  /\ id[Host(i)] = i
                     /\ ChildrenOf(Host(i)) = {c \in Ids \ {0} : Above(c) = i}
                     /\ \A c \in ChildrenOf(Host(i)) : parent[Host(c)] = i
                     /\ random_pool[Host(i)] = Ids \ {i}
    BY DEF StartsComplete, Host, Above
<1>. /\ OverlayTypeOK /\ TreeFacts /\ Phases /\ Reached /\ Slept
    BY TreeFactsHold DEF StartInv, RegisterInv
<1>1. TriggersBegun
    BY DEF Phases
<1>2. /\ Joined = Ids /\ IpsBegun /\ \A k \in Ids : IpSent(k) /\ k \in Nat
    BY <1>1, PhaseFacts DEF TriggersBegun, IpSent
<1>3. \A k \in Ids : Host(k) \in Peer
    BY <1>2 DEF TreeFacts
<1>4. \A p \in Peer : /\ ~Mail(p, "JOINING_DATA") /\ ~Mail(p, "BROADCAST_IP")
                      /\ addRequests[p] = {}
    BY <1>1, <1>2 DEF Slept
<1>5. \A k \in Ids : id[Host(k)] = k /\ random_pool[Host(k)] = Ids \ {k}
    BY <1>2, <1>3, <1>4 DEF Reached, Slept
<1>6. \A k \in Ids \ {0} : parent[Host(k)] = Above(k)
  <2>1. \A k \in Ids \ {0} : id[Host(k)] = k /\ k # -1 /\ k > 0
      BY <1>2, <1>5
  <2>. QED
      BY <1>3, <2>1 DEF StartInv, RegisterInv, KnowsItself
<1>7. ASSUME NEW c \in ChildrenOf(Host(i))
      PROVE  c \in Ids \ {0} /\ Above(c) = i
  <2>1. ChildOf(Host(i), c)
      BY <1>3, <1>7 DEF ChildrenOf, StartInv, RegisterInv, OnlyChildren
  <2>2. c \in Joined \ {0} /\ Host(Above(c)) = Host(i) /\ Above(c) \in Joined
      BY <2>1 DEF ChildOf, TreeFacts
  <2>. QED
      BY <1>2, <2>2 DEF StartInv, RegisterInv, Applicants
<1>8. ASSUME NEW c \in Ids \ {0}, Above(c) = i
      PROVE  c \in ChildrenOf(Host(i))
  <2>1. Places(Host(i), c) = 1
    <3>1. Places(Host(Above(c)), c) = Due(c)
        BY <1>2, RegisteredForm DEF StartInv, RegisterInv, Registered
    <3>. QED
        BY <1>5, <1>8, <3>1 DEF Due
  <2>2. Listings(children[Host(i)], c) # 0
    <3>1. addRequests[Host(i)] = {}
        BY <1>3, <1>4
    <3>. QED
        BY <2>1, <3>1 DEF Places
  <2>3. \E k \in 1 .. Len(children[Host(i)]) : children[Host(i)][k] = c
      BY <2>2, NoListing
  <2>. QED
      BY <2>3 DEF ChildrenOf
<1>. QED
    BY <1>5, <1>6, <1>7, <1>8

(* If the sleeps outlast the packets that are on their way when they       *)
(* begin, the first peer that is triggered finds every peer with its id,   *)
(* its parent, its whole list of children and every other peer to ask,     *)
(* which is what WorkStealing starts from.                                 *)
THEOREM StartIsComplete == Spec => []StartsComplete
<1>. QED
    BY StartInit, StartStep, StartedComplete, PTL DEF Spec
=============================================================================
