-------------------------- MODULE PacketQueueProofs --------------------------
(***************************************************************************)
(* The packets container is sound and first in, first out for any number   *)
(* of containers and packets, whatever the two threads do, and so it is    *)
(* below the sockets that fill it: a pass of the protocol takes half of    *)
(* what has come, and packets come whole and in the order of each sender.  *)
(***************************************************************************)
EXTENDS Sockets, FiniteSetTheorems, SequenceTheorems, TLAPS
LOCAL INSTANCE FiniteSetsExt

(* WellLinked by itself is not enough: that the list is in order needs the *)
(* number of the packet being linked in, and both need the types.          *)
QueueInv == TypeOK /\ WellLinked /\ InOrder

(* What a sequence of containers looks like with one more at its end, and  *)
(* with its first one gone.                                                *)
LEMMA AppendAt ==
    ASSUME NEW S, NEW s \in Seq(S), NEW e \in S
    PROVE  /\ Append(s, e) \in Seq(S) /\ Append(s, e) # << >>
           /\ Len(Append(s, e)) = Len(s) + 1
           /\ \A i \in 1 .. Len(s) + 1 :
                 Append(s, e)[i] = IF i = Len(s) + 1 THEN e ELSE s[i]
<1>1. Len(s) \in Nat
    BY LenProperties
<1>. QED
    BY <1>1, AppendProperties

LEMMA TailAt ==
    ASSUME NEW S, NEW s \in Seq(S), s # << >>
    PROVE  /\ Tail(s) \in Seq(S) /\ Len(s) \in Nat \ {0}
           /\ Len(Tail(s)) = Len(s) - 1
           /\ \A i \in 1 .. Len(s) - 1 : Tail(s)[i] = s[i + 1]
           /\ Tail(s) = << >> <=> Len(s) = 1
<1>1. Len(s) \in Nat \ {0} /\ Len(Tail(s)) = Len(s) - 1
    BY EmptySeq, HeadTailProperties
<1>2. Tail(s) \in Seq(S) /\ \A i \in 1 .. Len(s) - 1 : Tail(s)[i] = s[i + 1]
    BY <1>1, HeadTailProperties
<1>3. Tail(s) = << >> <=> Len(s) = 1
    BY SMTT(30), <1>1, <1>2, EmptySeq
<1>. QED
    BY <1>1, <1>2, <1>3

(* The types of the lengths, and when the list is empty. *)
LEMMA Lengths ==
    ASSUME QueueInv
    PROVE  /\ Len(chain) \in Nat /\ Len(handled) \in Nat
           /\ number_of_packets \in Nat /\ arrived \in Nat
           /\ chain = << >> <=> Len(chain) = 0
           /\ \A i \in 1 .. Len(chain) : chain[i] \in Container
<1>. chain \in Seq(Container) /\ handled \in Seq(Nat)
    BY DEF QueueInv, TypeOK
<1>. QED
    BY LenProperties, EmptySeq, ElementOfSeq DEF QueueInv, TypeOK

-----------------------------------------------------------------------------
LEMMA InitInv == Init => QueueInv
<1>. SUFFICES ASSUME Init PROVE QueueInv
    OBVIOUS
<1>1. TypeOK
    BY EmptySeq DEF Init, TypeOK
<1>2. Len(chain) = 0 /\ Len(handled) = 0
    BY DEF Init
<1>3. WellLinked
    BY <1>2, ContainerAssumption DEF Init, WellLinked, MutexFree
<1>4. InOrder
    BY <1>2 DEF Init, InOrder, MutexFree
<1>. QED
    BY <1>1, <1>3, <1>4 DEF QueueInv

(* The container that malloc returns is linked nowhere. *)
LEMMA AddCountStep ==
    ASSUME QueueInv, AddCount
    PROVE  QueueInv'
<1>1. PICK c \in Container \ allocated :
         /\ adding' = c
         /\ allocated' = allocated \cup {c}
         /\ data_packet' = [data_packet EXCEPT ![c] = arrived']
    BY DEF AddCount
<1>2. /\ adding = NULL /\ c # NULL
      /\ arrived' = arrived + 1 /\ number_of_packets' = number_of_packets + 1
      /\ UNCHANGED <<first_container, last_container, next_container,
                     previous_container, chain, pass, j, atStart, handled>>
    BY ContainerAssumption DEF AddCount, MutexFree, passVars
<1>3. TypeOK'
    BY <1>1, <1>2 DEF QueueInv, TypeOK
<1>4. \A i \in 1 .. Len(chain) : chain[i] # c
    BY <1>1 DEF QueueInv, WellLinked
<1>5. WellLinked'
    BY <1>1, <1>2, <1>4, Lengths DEF QueueInv, WellLinked, MutexFree
<1>6. InOrder'
    BY SMTT(30), <1>1, <1>2, <1>4, Lengths DEF QueueInv, TypeOK, InOrder, MutexFree
<1>. QED
    BY <1>3, <1>5, <1>6 DEF QueueInv

(* It becomes the last container: the only one, or behind the last. *)
LEMMA AddLinkStep ==
    ASSUME QueueInv, AddLink
    PROVE  QueueInv'
<1>. DEFINE n == Len(chain)
<1>1. /\ adding # NULL /\ adding \in Container /\ chain \in Seq(Container)
      /\ adding' = NULL /\ chain' = Append(chain, adding) /\ last_container' = adding
      /\ UNCHANGED <<number_of_packets, data_packet, allocated, arrived, handled>>
    BY DEF AddLink, MutexFree, QueueInv, TypeOK
<1>2. /\ n \in Nat /\ number_of_packets = n + 1
      /\ \A i \in 1 .. n : chain[i] \in Container /\ chain[i] # adding
      /\ \A i, k \in 1 .. n : chain[i] = chain[k] => i = k
      /\ chain = << >> <=> n = 0
    BY <1>1, Lengths DEF QueueInv, WellLinked, MutexFree
<1>3. /\ chain' \in Seq(Container) /\ chain' # << >> /\ Len(chain') = n + 1
      /\ \A i \in 1 .. n + 1 : chain'[i] = IF i = n + 1 THEN adding ELSE chain[i]
    BY <1>1, AppendAt
<1>4. TypeOK'
    BY <1>1, <1>3 DEF AddLink, QueueInv, TypeOK, passVars
<1>5. WellLinked'
  <2>1. allocated' = {chain'[i] : i \in 1 .. Len(chain')} \cup ({adding'} \ {NULL})
    <3>1. allocated = {chain[i] : i \in 1 .. n} \cup {adding}
        BY <1>1 DEF QueueInv, WellLinked
    <3>2. {chain'[i] : i \in 1 .. n + 1} = {chain[i] : i \in 1 .. n} \cup {adding}
      <4>1. \A i \in 1 .. n : i \in 1 .. n + 1 /\ chain'[i] = chain[i]
          BY <1>2, <1>3
      <4>2. n + 1 \in 1 .. n + 1 /\ chain'[n + 1] = adding
          BY <1>2, <1>3
      <4>3. \A i \in 1 .. n + 1 : i \in 1 .. n \/ i = n + 1
          BY <1>2
      <4>. QED
          BY <4>1, <4>2, <4>3
    <3>. QED
        BY <1>1, <1>3, <3>1, <3>2
  <2>2. \A i, k \in 1 .. n + 1 : chain'[i] = chain'[k] => i = k
      BY <1>2, <1>3
  <2>3. \A i \in 1 .. n + 1 : chain'[i] # NULL
      BY <1>1, <1>2, <1>3, ContainerAssumption
  <2>4. /\ number_of_packets' = n + 1
        /\ last_container' = chain'[n + 1]
      BY <1>1, <1>2, <1>3
  <2>5. CASE n = 0
    <3>1. /\ first_container' = adding
          /\ next_container'[adding] = NULL /\ previous_container'[adding] = NULL
        BY <1>1, <1>2, <2>5 DEF AddLink, QueueInv, TypeOK
    <3>. QED
        BY <1>1, <1>3, <2>1, <2>2, <2>3, <2>4, <2>5, <3>1 DEF WellLinked, MutexFree
  <2>6. CASE n > 0
    <3>1. /\ first_container' = first_container /\ first_container = chain[1]
          /\ last_container = chain[n]
          /\ next_container' =
                [next_container EXCEPT ![adding] = NULL, ![last_container] = adding]
          /\ previous_container' = [previous_container EXCEPT ![adding] = last_container]
        BY <1>1, <1>2, <2>6 DEF AddLink, QueueInv, WellLinked
    <3>2. first_container' = chain'[1]
        BY <1>2, <1>3, <2>6, <3>1
    <3>3. \A i \in 1 .. n + 1 :
             next_container'[chain'[i]] = IF i = n + 1 THEN NULL ELSE chain'[i + 1]
      <4>. SUFFICES ASSUME NEW i \in 1 .. n + 1
                    PROVE  next_container'[chain'[i]]
                              = IF i = n + 1 THEN NULL ELSE chain'[i + 1]
          OBVIOUS
      <4>1. next_container \in [Container -> Container \cup {NULL}]
          BY DEF QueueInv, TypeOK
      <4>2. CASE i = n + 1
          BY <1>1, <1>2, <1>3, <2>6, <3>1, <4>1, <4>2
      <4>3. CASE i = n
          BY <1>1, <1>2, <1>3, <2>6, <3>1, <4>1, <4>3
      <4>4. CASE i \in 1 .. n - 1
        <5>1. next_container[chain[i]] = chain[i + 1]
            BY <1>2, <4>4 DEF QueueInv, WellLinked
        <5>2. chain[i] # adding /\ chain[i] # chain[n] /\ chain'[i] = chain[i]
              /\ chain'[i + 1] = chain[i + 1] /\ chain[i] \in Container
            BY <1>2, <1>3, <4>4
        <5>. QED
            BY <1>1, <1>2, <3>1, <4>1, <4>4, <5>1, <5>2
      <4>. QED
          BY <1>2, <4>2, <4>3, <4>4
    <3>4. \A i \in 1 .. n + 1 :
             previous_container'[chain'[i]] = IF i = 1 THEN NULL ELSE chain'[i - 1]
      <4>. SUFFICES ASSUME NEW i \in 1 .. n + 1
                    PROVE  previous_container'[chain'[i]]
                              = IF i = 1 THEN NULL ELSE chain'[i - 1]
          OBVIOUS
      <4>1. previous_container \in [Container -> Container \cup {NULL}]
          BY DEF QueueInv, TypeOK
      <4>2. CASE i = n + 1
          BY <1>1, <1>2, <1>3, <2>6, <3>1, <4>1, <4>2
      <4>3. CASE i \in 1 .. n
        <5>1. previous_container[chain[i]] = IF i = 1 THEN NULL ELSE chain[i - 1]
            BY <1>2, <4>3 DEF QueueInv, WellLinked
        <5>2. chain[i] # adding /\ chain'[i] = chain[i] /\ chain[i] \in Container
              /\ (i # 1 => chain'[i - 1] = chain[i - 1])
            BY <1>2, <1>3, <4>3
        <5>. QED
            BY <1>1, <3>1, <4>1, <5>1, <5>2
      <4>. QED
          BY <1>2, <4>2, <4>3
    <3>. QED
        BY SMTT(30), <1>1, <1>3, <2>1, <2>2, <2>3, <2>4, <3>2, <3>3, <3>4 DEF WellLinked, MutexFree
  <2>. QED
      BY <1>2, <2>5, <2>6
<1>6. InOrder'
  <2>1. /\ data_packet[adding] = arrived /\ Len(handled) + n + 1 = arrived
        /\ Len(handled) \in Nat
        /\ \A i \in 1 .. n : data_packet[chain[i]] = Len(handled) + i
        /\ \A i \in 1 .. Len(handled) : handled[i] = i
      BY <1>1, <1>2, Lengths DEF QueueInv, InOrder, MutexFree
  <2>2. \A i \in 1 .. n + 1 : data_packet[chain'[i]] = Len(handled) + i
    <3>. SUFFICES ASSUME NEW i \in 1 .. n + 1
                  PROVE  data_packet[chain'[i]] = Len(handled) + i
        OBVIOUS
    <3>1. CASE i = n + 1
        BY <1>2, <1>3, <2>1, <3>1
    <3>2. CASE i \in 1 .. n
        BY <1>2, <1>3, <2>1, <3>2
    <3>. QED
        BY <1>2, <3>1, <3>2
  <2>. QED
      BY <1>1, <1>2, <1>3, <2>1, <2>2 DEF InOrder, MutexFree
<1>. QED
    BY <1>4, <1>5, <1>6 DEF QueueInv

(* The loop of the pass touches neither the list nor the packets. *)
LEMMA PassStep ==
    ASSUME QueueInv, StartPass \/ TestCount \/ UNCHANGED vars
    PROVE  QueueInv'
<1>1. UNCHANGED <<listVars, adding, arrived, handled>>
    BY DEF StartPass, TestCount, vars
<1>2. TypeOK'
    BY <1>1, Lengths DEF StartPass, TestCount, vars, passVars, listVars, QueueInv, TypeOK
<1>3. WellLinked' /\ InOrder'
    BY <1>1 DEF listVars, QueueInv, WellLinked, InOrder, MutexFree
<1>. QED
    BY <1>2, <1>3 DEF QueueInv

(* The first container goes, with the oldest packet. *)
LEMMA GetPacketStep ==
    ASSUME QueueInv, GetPacket
    PROVE  QueueInv'
<1>. DEFINE n == Len(chain)
<1>1. /\ adding = NULL /\ adding' = NULL /\ n \in Nat /\ number_of_packets = n
      /\ chain \in Seq(Container) /\ (chain = << >> <=> n = 0)
      /\ pass' = "test" /\ j' = j + 1
      /\ UNCHANGED <<next_container, data_packet, arrived, atStart>>
    BY Lengths DEF GetPacket, MutexFree, QueueInv, TypeOK, WellLinked
<1>2. CASE n = 0
  <2>1. number_of_packets' = number_of_packets
        /\ UNCHANGED <<handled, allocated, chain, first_container, last_container,
                       previous_container>>
      BY <1>1, <1>2 DEF GetPacket, Remaining
  <2>2. TypeOK'
      BY <1>1, <2>1 DEF QueueInv, TypeOK
  <2>3. WellLinked' /\ InOrder'
      BY <1>1, <2>1 DEF QueueInv, WellLinked, InOrder, MutexFree
  <2>. QED
      BY <2>2, <2>3 DEF QueueInv
<1>3. CASE n > 0
  <2>1. /\ handled' = Append(handled, data_packet[first_container])
        /\ allocated' = allocated \ {first_container}
        /\ chain' = Tail(chain) /\ number_of_packets' = n - 1 /\ Unlink
      BY <1>1, <1>3 DEF GetPacket, Remaining
  <2>2. /\ first_container = chain[1] /\ first_container \in Container
        /\ \A i \in 1 .. n : chain[i] \in Container
        /\ \A i, k \in 1 .. n : chain[i] = chain[k] => i = k
        /\ \A i \in 1 .. n : next_container[chain[i]] = IF i = n THEN NULL ELSE chain[i + 1]
      BY <1>1, <1>3, Lengths DEF QueueInv, WellLinked
  <2>3. /\ chain' \in Seq(Container) /\ Len(chain') = n - 1
        /\ \A i \in 1 .. n - 1 : chain'[i] = chain[i + 1]
        /\ chain' = << >> <=> n = 1
      BY <1>1, <1>3, <2>1, TailAt
  <2>4. first_container' = IF n = 1 THEN NULL ELSE chain[2]
      BY <1>1, <1>3, <2>1, <2>2 DEF Unlink
  <2>5. last_container' = IF n = 1 THEN NULL ELSE chain[n]
      BY <1>1, <1>3, <2>1, <2>2 DEF Unlink, QueueInv, WellLinked
  <2>6. previous_container' =
           IF n = 1 THEN previous_container ELSE [previous_container EXCEPT ![chain[2]] = NULL]
      BY <1>1, <1>3, <2>1, <2>2 DEF Unlink
  <2>7. data_packet[first_container] = Len(handled) + 1 /\ handled \in Seq(Nat)
        /\ Len(handled) \in Nat /\ Len(handled) + n = arrived
    <3>1. Len(handled) \in Nat /\ handled \in Seq(Nat)
        BY Lengths DEF QueueInv, TypeOK
    <3>2. /\ \A i \in 1 .. n : data_packet[chain[i]] = Len(handled) + i
          /\ Len(handled) + n = arrived
        BY <1>1 DEF QueueInv, InOrder, MutexFree
    <3>3. 1 \in 1 .. n
        BY <1>1, <1>3
    <3>. QED
        BY <2>2, <3>1, <3>2, <3>3
  <2>8. /\ handled' \in Seq(Nat) /\ Len(handled') = Len(handled) + 1
        /\ \A i \in 1 .. Len(handled) + 1 :
              handled'[i] = IF i = Len(handled) + 1 THEN Len(handled) + 1 ELSE handled[i]
      BY <2>1, <2>7, AppendAt
  <2>9. TypeOK'
    <3>1. first_container' \in Container \cup {NULL} /\ last_container' \in Container \cup {NULL}
        BY <1>3, <1>1, <2>2, <2>4, <2>5
    <3>2. previous_container' \in [Container -> Container \cup {NULL}]
        BY <2>6 DEF QueueInv, TypeOK
    <3>3. number_of_packets' \in Nat
        BY <1>1, <1>3, <2>1
    <3>4. allocated' \subseteq Container /\ j' \in Nat
        BY <1>1, <2>1 DEF QueueInv, TypeOK
    <3>. QED
        BY <1>1, <2>3, <2>8, <3>1, <3>2, <3>3, <3>4 DEF QueueInv, TypeOK
  <2>10. WellLinked'
    <3>1. allocated' = {chain'[i] : i \in 1 .. n - 1}
      <4>1. allocated = {chain[i] : i \in 1 .. n}
          BY <1>1 DEF QueueInv, WellLinked
      <4>2. \A i \in 1 .. n - 1 : chain'[i] \in allocated /\ chain'[i] # chain[1]
          BY <1>1, <1>3, <2>2, <2>3, <4>1
      <4>3. \A i \in 2 .. n : i - 1 \in 1 .. n - 1 /\ chain'[i - 1] = chain[i]
          BY <1>1, <2>3
      <4>4. \A i \in 1 .. n : i = 1 \/ i \in 2 .. n
          BY <1>1
      <4>5. ASSUME NEW c \in allocated' PROVE \E i \in 1 .. n - 1 : c = chain'[i]
        <5>1. PICK i \in 1 .. n : c = chain[i]
            BY <2>1, <4>1
        <5>2. i \in 2 .. n
            BY <2>1, <2>2, <4>4, <5>1
        <5>. QED
            BY <4>3, <5>1, <5>2
      <4>6. allocated' \subseteq {chain'[i] : i \in 1 .. n - 1}
          BY <4>5
      <4>7. {chain'[i] : i \in 1 .. n - 1} \subseteq allocated'
          BY <2>1, <2>2, <4>2
      <4>. QED
          BY <4>6, <4>7
    <3>2. \A i, k \in 1 .. n - 1 : chain'[i] = chain'[k] => i = k
        BY <1>1, <2>2, <2>3
    <3>3. \A i \in 1 .. n - 1 : chain'[i] # NULL
        BY <1>1, <2>2, <2>3, ContainerAssumption
    <3>4. first_container' = IF chain' = << >> THEN NULL ELSE chain'[1]
        BY <1>1, <1>3, <2>3, <2>4
    <3>5. last_container' = IF chain' = << >> THEN NULL ELSE chain'[n - 1]
        BY <1>1, <1>3, <2>3, <2>5
    <3>6. \A i \in 1 .. n - 1 :
             next_container'[chain'[i]] = IF i = n - 1 THEN NULL ELSE chain'[i + 1]
        BY <1>1, <2>2, <2>3
    <3>7. \A i \in 1 .. n - 1 :
             previous_container'[chain'[i]] = IF i = 1 THEN NULL ELSE chain'[i - 1]
      <4>. SUFFICES ASSUME NEW i \in 1 .. n - 1
                    PROVE  previous_container'[chain'[i]]
                              = IF i = 1 THEN NULL ELSE chain'[i - 1]
          OBVIOUS
      <4>0. i + 1 \in 1 .. n /\ 2 \in 1 .. n /\ n # 1
          BY <1>1
      <4>1. /\ previous_container \in [Container -> Container \cup {NULL}]
            /\ chain'[i] = chain[i + 1] /\ i + 1 \in 1 .. n /\ n # 1
            /\ chain[i + 1] \in Container /\ chain[2] \in Container
          BY <2>2, <2>3, <4>0 DEF QueueInv, TypeOK
      <4>2. previous_container[chain[i + 1]] = chain[i]
          BY <1>1, <4>1 DEF QueueInv, WellLinked
      <4>3. CASE i = 1
          BY <2>6, <4>1, <4>3
      <4>4. CASE i # 1
        <5>1. chain[i + 1] # chain[2] /\ i - 1 \in 1 .. n - 1 /\ chain'[i - 1] = chain[i]
            BY <1>1, <2>2, <2>3, <4>1, <4>4
        <5>. QED
            BY <2>6, <4>1, <4>2, <4>4, <5>1
      <4>. QED
          BY <4>3, <4>4
    <3>8. Len(chain') = n - 1 /\ adding' = NULL
        BY <1>1, <2>3
    <3>9. /\ allocated' = {chain'[i] : i \in 1 .. Len(chain')} \cup ({adding'} \ {NULL})
          /\ \A i \in 1 .. Len(chain') : chain'[i] # adding'
        BY <3>1, <3>3, <3>8
    <3>10. number_of_packets' = Len(chain') + (IF adding' = NULL THEN 0 ELSE 1)
        BY <1>1, <2>1, <3>8
    <3>. QED
        BY <3>2, <3>4, <3>5, <3>6, <3>7, <3>8, <3>9, <3>10
        DEF WellLinked, MutexFree
  <2>11. InOrder'
    <3>1. \A i \in 1 .. n : data_packet[chain[i]] = Len(handled) + i
        BY DEF QueueInv, InOrder
    <3>2. \A i \in 1 .. n - 1 : data_packet'[chain'[i]] = Len(handled') + i
        BY <1>1, <2>3, <2>7, <2>8, <3>1
    <3>3. \A i \in 1 .. Len(handled') : handled'[i] = i
      <4>1. \A i \in 1 .. Len(handled) : handled[i] = i
          BY DEF QueueInv, InOrder
      <4>. SUFFICES ASSUME NEW i \in 1 .. Len(handled) + 1 PROVE handled'[i] = i
          BY <2>8
      <4>2. CASE i = Len(handled) + 1
          BY <2>8, <4>2
      <4>3. CASE i \in 1 .. Len(handled)
          BY <2>7, <2>8, <4>1, <4>3
      <4>. QED
          BY <2>7, <4>2, <4>3
    <3>. QED
        BY SMTT(30), <1>1, <2>1, <2>3, <2>7, <2>8, <3>2, <3>3 DEF InOrder, MutexFree
  <2>. QED
      BY <2>9, <2>10, <2>11 DEF QueueInv
<1>. QED
    BY <1>1, <1>2, <1>3

THEOREM QueueInvariant == Spec => []QueueInv
<1>1. QueueInv /\ [Next]_vars => QueueInv'
    BY AddCountStep, AddLinkStep, PassStep, GetPacketStep DEF Next, Listener, Processing
<1>. QED
    BY <1>1, InitInv, PTL DEF Spec

-----------------------------------------------------------------------------
(* The container is a FIFO queue, with every packet whose container is     *)
(* linked: counting a packet changes nothing for the reader, linking it in *)
(* adds it, and getting one takes the oldest.                              *)

Waiting == [i \in 1 .. Len(chain) |-> data_packet[chain[i]]]
Added == IF MutexFree THEN arrived ELSE arrived - 1

LEMMA WaitingType ==
    ASSUME NEW linked \in Seq(Container), NEW packet \in [Container -> Nat],
           NEW w, w = [i \in 1 .. Len(linked) |-> packet[linked[i]]]
    PROVE  w \in Seq(Nat) /\ Len(w) = Len(linked)
<1>1. \A i \in 1 .. Len(linked) : packet[linked[i]] \in Nat
    BY ElementOfSeq
<1>. QED
    BY <1>1, LenProperties

LEMMA CountAddsNothing ==
    ASSUME QueueInv, AddCount
    PROVE  UNCHANGED <<Waiting, Added, handled>>
<1>1. PICK c \in Container \ allocated :
         adding' = c /\ data_packet' = [data_packet EXCEPT ![c] = arrived']
    BY DEF AddCount
<1>2. adding = NULL /\ c # NULL /\ arrived' = arrived + 1 /\ UNCHANGED <<chain, handled>>
    BY ContainerAssumption DEF AddCount, MutexFree
<1>3. \A i \in 1 .. Len(chain) : data_packet'[chain[i]] = data_packet[chain[i]]
    BY <1>1, Lengths DEF QueueInv, TypeOK, WellLinked
<1>4. Waiting' = Waiting
    BY <1>2, <1>3 DEF Waiting
<1>5. Added' = Added
    BY <1>1, <1>2, Lengths DEF Added, MutexFree
<1>. QED
    BY <1>2, <1>4, <1>5

LEMMA LinkAdds ==
    ASSUME QueueInv, AddLink
    PROVE  Added' = Added + 1 /\ Waiting' = Append(Waiting, Added') /\ UNCHANGED handled
<1>. DEFINE n == Len(chain)
<1>1. /\ adding # NULL /\ adding \in Container /\ chain \in Seq(Container)
      /\ adding' = NULL /\ chain' = Append(chain, adding)
      /\ UNCHANGED <<data_packet, arrived, handled>>
    BY DEF AddLink, MutexFree, QueueInv, TypeOK
<1>2. Added' = arrived /\ Added' = Added + 1 /\ data_packet[adding] = arrived /\ arrived \in Nat
    BY <1>1, Lengths DEF Added, MutexFree, QueueInv, InOrder
<1>3. /\ n \in Nat /\ Len(chain') = n + 1
      /\ \A i \in 1 .. n + 1 : chain'[i] = IF i = n + 1 THEN adding ELSE chain[i]
    BY <1>1, AppendAt, Lengths
<1>4. QueueInv'
    BY AddLinkStep
<1>5. /\ Waiting \in Seq(Nat) /\ Len(Waiting) = n
      /\ Waiting' \in Seq(Nat) /\ Len(Waiting') = n + 1
  <2>1. /\ chain \in Seq(Container) /\ data_packet \in [Container -> Nat]
        /\ chain' \in Seq(Container) /\ data_packet' \in [Container -> Nat]
      BY <1>4 DEF QueueInv, TypeOK
  <2>. QED
      BY SMTT(30), <1>3, <2>1, WaitingType DEF Waiting
<1>6. /\ Append(Waiting, Added') \in Seq(Nat) /\ Len(Append(Waiting, Added')) = n + 1
      /\ \A i \in 1 .. n + 1 :
            Append(Waiting, Added')[i] = IF i = n + 1 THEN Added' ELSE Waiting[i]
    BY <1>2, <1>5, AppendAt
<1>7. ASSUME NEW i \in 1 .. n + 1 PROVE Waiting'[i] = Append(Waiting, Added')[i]
  <2>1. Waiting'[i] = data_packet[chain'[i]]
      BY <1>1, <1>3 DEF Waiting
  <2>2. CASE i = n + 1
    <3>1. chain'[i] = adding /\ Append(Waiting, Added')[i] = Added'
        BY <1>3, <1>6, <2>2
    <3>. QED
        BY <1>2, <2>1, <3>1
  <2>3. CASE i \in 1 .. n
    <3>1. chain'[i] = chain[i] /\ Append(Waiting, Added')[i] = Waiting[i]
        BY <1>3, <1>6, <2>3
    <3>2. Waiting[i] = data_packet[chain[i]]
        BY <2>3 DEF Waiting
    <3>. QED
        BY <2>1, <3>1, <3>2
  <2>4. i = n + 1 \/ i \in 1 .. n
      BY <1>3
  <2>. QED
      BY <2>2, <2>3, <2>4
<1>8. Waiting' = Append(Waiting, Added')
    BY <1>5, <1>6, <1>7, SeqEqual
<1>. QED
    BY <1>1, <1>2, <1>8

LEMMA GetTakes ==
    ASSUME QueueInv, GetPacket
    PROVE  \/ Queue!Take
           \/ UNCHANGED <<Waiting, Added, handled>>
<1>. DEFINE n == Len(chain)
<1>1. /\ adding = NULL /\ adding' = NULL /\ n \in Nat /\ number_of_packets = n
      /\ chain \in Seq(Container) /\ (chain = << >> <=> n = 0)
      /\ UNCHANGED <<data_packet, arrived>>
    BY Lengths DEF GetPacket, MutexFree, QueueInv, TypeOK, WellLinked
<1>2. Added' = Added
    BY <1>1 DEF Added, MutexFree
<1>3. CASE n = 0
  <2>1. UNCHANGED <<handled, chain>>
      BY <1>1, <1>3 DEF GetPacket
  <2>. QED
      BY <1>1, <1>2, <2>1 DEF Waiting
<1>4. CASE n > 0
  <2>1. /\ handled' = Append(handled, data_packet[first_container])
        /\ chain' = Tail(chain) /\ first_container = chain[1]
      BY <1>1, <1>4 DEF GetPacket, QueueInv, WellLinked
  <2>2. /\ Len(chain') = n - 1
        /\ \A i \in 1 .. n - 1 : chain'[i] = chain[i + 1]
      BY <1>1, <1>4, <2>1, TailAt
  <2>3. QueueInv'
      BY GetPacketStep
  <2>4. /\ Waiting \in Seq(Nat) /\ Len(Waiting) = n /\ Waiting # << >>
        /\ Waiting' \in Seq(Nat) /\ Len(Waiting') = n - 1
    <3>1. /\ chain \in Seq(Container) /\ data_packet \in [Container -> Nat]
          /\ chain' \in Seq(Container) /\ data_packet' \in [Container -> Nat]
        BY <2>3 DEF QueueInv, TypeOK
    <3>2. Waiting \in Seq(Nat) /\ Len(Waiting) = n
        BY <3>1, WaitingType DEF Waiting
    <3>3. Waiting' \in Seq(Nat) /\ Len(Waiting') = Len(chain')
        BY <3>1, WaitingType DEF Waiting
    <3>. QED
        BY <1>4, <2>2, <3>2, <3>3, EmptySeq
  <2>5. /\ Tail(Waiting) \in Seq(Nat) /\ Len(Tail(Waiting)) = n - 1
        /\ \A i \in 1 .. n - 1 : Tail(Waiting)[i] = Waiting[i + 1]
      BY <2>4, TailAt
  <2>6. ASSUME NEW i \in 1 .. n - 1 PROVE Waiting'[i] = Tail(Waiting)[i]
    <3>1. i + 1 \in 1 .. n
        BY <1>1
    <3>2. Waiting'[i] = data_packet[chain[i + 1]] /\ Waiting[i + 1] = data_packet[chain[i + 1]]
        BY <1>1, <2>2, <3>1 DEF Waiting
    <3>. QED
        BY <2>5, <3>2
  <2>7. Waiting' = Tail(Waiting)
      BY <2>4, <2>5, <2>6, SeqEqual
  <2>8. Head(Waiting) = data_packet[first_container]
      BY <1>1, <1>4, <2>1, <2>4 DEF Waiting
  <2>. QED
      BY <1>2, <2>1, <2>4, <2>7, <2>8 DEF Queue!Take, Waiting, Added
<1>. QED
    BY <1>1, <1>3, <1>4

(* Every behaviour of the list and its mutex is one of a FIFO queue. *)
THEOREM QueueRefines == Spec => ImplementsQueue
<1>1. Init => Queue!Init
    BY DEF Init, MutexFree, Queue!Init
<1>2. QueueInv /\ [Next]_vars => [Queue!Next]_(Queue!vars)
  <2>. SUFFICES ASSUME QueueInv, [Next]_vars
                PROVE  Queue!Next \/ UNCHANGED <<Waiting, Added, handled>>
      BY DEF Queue!vars, Waiting, Added
  <2>1. CASE AddCount
      BY <2>1, CountAddsNothing
  <2>2. CASE AddLink
      BY <2>2, LinkAdds DEF Queue!Next, Queue!Add, Waiting, Added
  <2>3. CASE GetPacket
      BY <2>3, GetTakes DEF Queue!Next
  <2>4. CASE StartPass \/ TestCount \/ UNCHANGED vars
      BY <2>4 DEF StartPass, TestCount, vars, listVars, Waiting, Added, MutexFree
  <2>. QED
      BY <2>1, <2>2, <2>3, <2>4 DEF Next, Listener, Processing
<1>. QED
    BY <1>1, <1>2, QueueInvariant, PTL DEF Spec, ImplementsQueue, Queue!Spec

-----------------------------------------------------------------------------
(* Below the sockets the two halves of add_packet are steps of the         *)
(* listener between others, and the processing thread stops with it.       *)

LEMMA SocketStep == [SocketNext]_allVars => [Next]_vars
<1>. SUFFICES ASSUME SocketNext PROVE [Next]_vars
    BY DEF allVars
<1>1. CASE \E s \in Sender : SenderStep(s) \/ Dies(s)
    BY <1>1 DEF SenderStep, SendMessage, Lookup, TryFails, Connect, Write, WriteToNobody, Dies
<1>2. CASE ListenerStep
    BY <1>2 DEF ListenerStep, Accept, ReadHeader, ReadData, CheckHeader, Deliver, Link,
                Next, Listener
<1>3. CASE CallFails
    BY <1>3 DEF CallFails, WriteFails, ReadHeaderFails, ReadDataFails
<1>4. CASE ProcessingStep
    BY <1>4 DEF ProcessingStep, Next
<1>5. CASE Ended
    BY <1>5 DEF Ended, allVars
<1>. QED
    BY <1>1, <1>2, <1>3, <1>4, <1>5 DEF SocketNext

THEOREM SocketsUseQueue == SocketSpec => Spec
BY SocketStep, PTL DEF SocketSpec, Spec, SocketInit

(* No pointer of the list dangles and no container leaks. *)
THEOREM ListSound == SocketSpec => []WellLinked
<1>1. QueueInv => WellLinked
    BY DEF QueueInv
<1>. QED
    BY <1>1, QueueInvariant, SocketsUseQueue, PTL

(* Packets are handled in the order in which they were queued. *)
THEOREM ListInOrder == SocketSpec => []InOrder
<1>1. QueueInv => InOrder
    BY DEF QueueInv
<1>. QED
    BY <1>1, QueueInvariant, SocketsUseQueue, PTL

(* What the processing thread reads is a FIFO queue, whatever the sockets do. *)
THEOREM SocketsRefineQueue == SocketSpec => ImplementsQueue
BY QueueRefines, SocketsUseQueue, PTL
-----------------------------------------------------------------------------
(* A pass reads the count without the mutex.  What it relies on is that    *)
(* only the processing thread lowers the count: as many packets are taken  *)
(* as the index says, and what waited when the pass began and has not been *)
(* taken is still counted.                                                 *)
Underway ==
    pass # "over" =>
       /\ Len(handled) - atStart.handled = j
       /\ number_of_packets >= atStart.waiting - j
       /\ pass = "get" => j < number_of_packets

PassInv == QueueInv /\ Underway /\ PassHandlesHalf

LEMMA PassInvStep ==
    ASSUME PassInv, [Next]_vars
    PROVE  PassInv'
<1>. QueueInv /\ TypeOK
    BY DEF PassInv, QueueInv
<1>1. QueueInv'
    BY AddCountStep, AddLinkStep, PassStep, GetPacketStep DEF Next, Listener, Processing
<1>2. /\ number_of_packets \in Nat /\ j \in Nat /\ Len(handled) \in Nat /\ Len(chain) \in Nat
      /\ number_of_packets >= Len(chain)
      /\ atStart.waiting \in Nat /\ atStart.handled \in Nat
    BY Lengths DEF TypeOK, QueueInv, WellLinked
<1>3. CASE Listener
  <2>1. UNCHANGED <<pass, j, atStart, handled>>
        /\ (number_of_packets' = number_of_packets \/ number_of_packets' = number_of_packets + 1)
      BY <1>3 DEF Listener, AddCount, AddLink, passVars
  <2>. QED
      BY <1>1, <1>2, <2>1 DEF PassInv, Underway, PassHandlesHalf
<1>4. CASE StartPass
  <2>1. /\ pass' = "test" /\ j' = 0 /\ UNCHANGED <<number_of_packets, handled>>
        /\ atStart'.waiting = Len(chain) /\ atStart'.handled = Len(handled)
      BY <1>4 DEF StartPass, listVars
  <2>. QED
      BY <1>1, <1>2, <2>1 DEF PassInv, Underway, PassHandlesHalf
<1>5. CASE TestCount
  <2>1. /\ pass = "test" /\ pass' = IF j < number_of_packets THEN "get" ELSE "over"
        /\ UNCHANGED <<number_of_packets, handled, j, atStart>>
      BY <1>5 DEF TestCount, listVars
  <2>. QED
      BY SMTT(30), <1>1, <1>2, <2>1 DEF PassInv, Underway, PassHandlesHalf
<1>6. CASE GetPacket
  <2>1. /\ pass = "get" /\ pass' = "test" /\ j' = j + 1 /\ atStart' = atStart
        /\ j < number_of_packets /\ Len(handled) - atStart.handled = j
        /\ number_of_packets >= atStart.waiting - j
      BY <1>6 DEF GetPacket, PassInv, Underway
  <2>2. /\ number_of_packets' = number_of_packets - 1
        /\ Len(handled') = Len(handled) + 1
    <3>1. first_container \in Container
        BY <1>2, <1>6, <2>1, Lengths DEF GetPacket, QueueInv, WellLinked
    <3>2. data_packet[first_container] \in Nat /\ handled \in Seq(Nat)
        BY <3>1 DEF TypeOK
    <3>. QED
        BY <1>2, <1>6, <2>1, <3>2, AppendAt DEF GetPacket, Remaining
  <2>3. Len(handled') - atStart'.handled = j'
      BY <1>2, <2>1, <2>2
  <2>4. number_of_packets' >= atStart'.waiting - j'
      BY <1>2, <2>1, <2>2
  <2>5. Underway' /\ PassHandlesHalf'
      BY <2>1, <2>3, <2>4 DEF Underway, PassHandlesHalf
  <2>. QED
      BY <1>1, <2>5 DEF PassInv
<1>7. CASE UNCHANGED vars
  <2>1. UNCHANGED <<pass, j, atStart, handled, number_of_packets>>
      BY <1>7 DEF vars, passVars, listVars
  <2>. QED
      BY <1>1, <2>1 DEF PassInv, Underway, PassHandlesHalf
<1>. QED
    BY <1>3, <1>4, <1>5, <1>6, <1>7 DEF Next, Processing

(* A pass handles at least half of what waited, though packets arrive and  *)
(* the count changes between its test and its get.                         *)
THEOREM PassTakesHalf == SocketSpec => []PassHandlesHalf
<1>1. Init => PassInv
  <2>. SUFFICES ASSUME Init PROVE PassInv
      OBVIOUS
  <2>1. QueueInv /\ pass = "over" /\ Len(handled) = 0
        /\ atStart.waiting = 0 /\ atStart.handled = 0
      BY InitInv DEF Init
  <2>. QED
      BY <2>1 DEF PassInv, Underway, PassHandlesHalf
<1>2. PassInv => PassHandlesHalf
    BY DEF PassInv
<1>. QED
    BY <1>1, <1>2, PassInvStep, SocketsUseQueue, PTL DEF Spec
-----------------------------------------------------------------------------
(* What the sockets deliver.  Got counts what was received from a sender;  *)
(* Queued says that a connection still carries its packet p.               *)

Got(r, s) == Cardinality({h \in 1 .. Len(r) : r[h].from = s})
Queued(q, s, p) == \E i \in 1 .. Len(q) : q[i].from = s /\ q[i].packet = p
Ordered(q, r) ==
    \A i \in 1 .. Len(q) :
       /\ q[i].packet > Got(r, q[i].from)
       /\ \A k \in 1 .. i - 1 : q[k].from = q[i].from => q[k].packet < q[i].packet
       /\ \A p \in Got(r, q[i].from) + 1 .. q[i].packet : Queued(q, q[i].from, p)

Kept == {"all", "header", "none"}
Connection == [from : Sender, packet : Nat \ {0}, bytes : Nat, open : BOOLEAN, kept : Kept]
Receipt == [from : Sender, packet : Nat, kept : Kept, holds : Kept]

SocketTypeOK ==
    /\ step \in [Sender -> {"ready", "lookup", "connect", "write", Exits}]
    /\ sent \in [Sender -> Nat]
    /\ num_byte_remain \in [Sender -> Nat]
    /\ connections \in Seq(Connection)
    /\ nbytes \in Nat
    /\ byte_to_read \in Nat
    /\ received \in Seq(Receipt)
    /\ \A s \in Sender : step[s] \in {"lookup", "connect", "write"} => sent[s] < Len(DataSize[s])
    /\ \A i \in 1 .. Len(connections) : connections[i].packet \in Packets(connections[i].from)

Listening ==
    /\ listener \in {"header", "data", "add"} => connections # << >>
    /\ listener = "add" => nbytes >= HeaderSize /\ byte_to_read = 0
    /\ listener \in {"data", "add"} /\ connections[1].kept # "none" => nbytes <= HeaderSize
    /\ listener = Exits => connections = << >>

Total(c) == HeaderSize + DataSize[c.from][c.packet]
Left(i) ==
    IF i = 1 /\ listener \in {"data", "add"} /\ nbytes = HeaderSize THEN byte_to_read
    ELSE Total(connections[i])
Unwritten(c) == IF c.open THEN num_byte_remain[c.from] ELSE 0
Streams ==
    /\ \A i \in 1 .. Len(connections) :
          LET c == connections[i]
          IN  /\ c.open => step[c.from] = "write" /\ c.packet = sent[c.from] + 1
              /\ ~c.open /\ step[c.from] # Exits => c.packet <= sent[c.from]
              /\ c.kept = "all" => c.bytes + Unwritten(c) <= Left(i)
    /\ \A s \in Sender : step[s] = "write" => num_byte_remain[s] > 0

(* The last packet that s has a connection for, or had: one that a failed  *)
(* call has spoilt may be received before it is written.                   *)
Reached(s) == IF step[s] = "write" THEN sent[s] + 1 ELSE sent[s]
NoneSkipped ==
    \A s \in Sender : listener # Exits /\ step[s] # Exits =>
       /\ Got(received, s) <= Reached(s)
       /\ \A p \in Got(received, s) + 1 .. Reached(s) : Queued(connections, s, p)

SocketInv ==
    /\ SocketTypeOK /\ Listening /\ Streams
    /\ Ordered(connections, received) /\ NoneSkipped /\ WholeAndInOrder

LEMMA GotType ==
    ASSUME NEW r \in Seq(Receipt), NEW s
    PROVE  Got(r, s) \in Nat
<1>1. IsFiniteSet(1 .. Len(r))
    BY LenProperties, FS_Interval
<1>2. {h \in 1 .. Len(r) : r[h].from = s} \in SUBSET (1 .. Len(r))
    OBVIOUS
<1>. QED
    BY <1>1, <1>2, FS_Subset, FS_CardinalityType DEF Got

LEMMA GotNext ==
    ASSUME NEW r \in Seq(Receipt), NEW e \in Receipt, NEW s
    PROVE  /\ Got(r, s) \in Nat
           /\ Got(Append(r, e), s) = Got(r, s) + (IF e.from = s THEN 1 ELSE 0)
<1>. DEFINE n == Len(r)
            Old == {h \in 1 .. n : r[h].from = s}
            New == {h \in 1 .. n + 1 : Append(r, e)[h].from = s}
<1>1. n \in Nat
    BY LenProperties
<1>2. /\ Len(Append(r, e)) = n + 1
      /\ \A h \in 1 .. n + 1 : Append(r, e)[h] = IF h = n + 1 THEN e ELSE r[h]
    BY AppendAt
<1>3. IsFiniteSet(Old) /\ n + 1 \notin Old
  <2>1. IsFiniteSet(1 .. n) /\ Old \in SUBSET (1 .. n) /\ n + 1 \notin 1 .. n
      BY SMTT(30), <1>1, FS_Interval
  <2>. QED
      BY <2>1, FS_Subset
<1>4. New = IF e.from = s THEN Old \cup {n + 1} ELSE Old
    BY <1>1, <1>2
<1>5. Cardinality(Old) \in Nat
    BY <1>3, FS_CardinalityType
<1>6. Cardinality(Old \cup {n + 1}) = Cardinality(Old) + 1
    BY <1>3, FS_AddElement
<1>. HIDE DEF Old, New
<1>7. Cardinality(New) = Cardinality(Old) + (IF e.from = s THEN 1 ELSE 0)
    BY <1>4, <1>5, <1>6
<1>. QED
    BY <1>2, <1>5, <1>7 DEF Got, Old, New

(* What bytes and open ends say nothing about. *)
LEMMA SameShape ==
    ASSUME NEW q, NEW q2, NEW r, Len(q2) = Len(q),
           \A i \in 1 .. Len(q) : q2[i].from = q[i].from /\ q2[i].packet = q[i].packet
    PROVE  /\ \A s, p : Queued(q2, s, p) <=> Queued(q, s, p)
           /\ Ordered(q, r) => Ordered(q2, r)
<1>1. \A s, p : Queued(q2, s, p) <=> Queued(q, s, p)
    BY DEF Queued
<1>. SUFFICES ASSUME Ordered(q, r), Len(q) \in Nat PROVE Ordered(q2, r)
    BY <1>1
<1>. QED
    BY <1>1 DEF Ordered

(* A packet behind all those of its sender that wait. *)
LEMMA OneMore ==
    ASSUME NEW q \in Seq(Connection), NEW r \in Seq(Receipt), NEW c \in Connection,
           Ordered(q, r), c.packet > Got(r, c.from),
           \A i \in 1 .. Len(q) : q[i].from = c.from => q[i].packet < c.packet,
           \A p \in Got(r, c.from) + 1 .. c.packet - 1 : Queued(q, c.from, p)
    PROVE  /\ Ordered(Append(q, c), r)
           /\ \A s, p : Queued(q, s, p) => Queued(Append(q, c), s, p)
<1>. DEFINE n == Len(q)
            q2 == Append(q, c)
<1>0. \A s : Got(r, s) \in Nat
    BY GotType
<1>1. n \in Nat /\ Len(q2) = n + 1
      /\ \A i \in 1 .. n + 1 : q2[i] = IF i = n + 1 THEN c ELSE q[i]
    BY AppendAt, LenProperties
<1>2. \A s, p : Queued(q, s, p) => Queued(q2, s, p)
    BY <1>1 DEF Queued
<1>3. Queued(q2, c.from, c.packet)
    BY <1>1 DEF Queued
<1>. HIDE DEF q2
<1>4. ASSUME NEW i \in 1 .. n + 1
      PROVE  /\ q2[i].packet > Got(r, q2[i].from)
             /\ \A k \in 1 .. i - 1 : q2[k].from = q2[i].from => q2[k].packet < q2[i].packet
             /\ \A p \in Got(r, q2[i].from) + 1 .. q2[i].packet : Queued(q2, q2[i].from, p)
  <2>1. CASE i = n + 1
    <3>1. \A p \in Got(r, c.from) + 1 .. c.packet :
             p = c.packet \/ p \in Got(r, c.from) + 1 .. c.packet - 1
      <4>1. c.packet \in Nat
          BY DEF Connection
      <4>2. Got(r, c.from) \in Nat
          BY <1>0
      <4>. QED
          BY <4>1, <4>2
    <3>2. \A p \in Got(r, c.from) + 1 .. c.packet : Queued(q2, c.from, p)
        BY <1>2, <1>3, <3>1
    <3>. QED
        BY <1>1, <2>1, <3>2
  <2>2. CASE i \in 1 .. n
    <3>1. /\ q[i].packet > Got(r, q[i].from)
          /\ \A k \in 1 .. i - 1 : q[k].from = q[i].from => q[k].packet < q[i].packet
          /\ \A p \in Got(r, q[i].from) + 1 .. q[i].packet : Queued(q2, q[i].from, p)
        BY SMTT(30), <1>2, <2>2 DEF Ordered
    <3>2. q2[i] = q[i] /\ \A k \in 1 .. i - 1 : q2[k] = q[k]
        BY SMTT(30), <1>1, <2>2
    <3>3. /\ q2[i].packet > Got(r, q2[i].from)
          /\ \A p \in Got(r, q2[i].from) + 1 .. q2[i].packet : Queued(q2, q2[i].from, p)
        BY <3>1, <3>2
    <3>4. \A k \in 1 .. i - 1 : q2[k].from = q2[i].from => q2[k].packet < q2[i].packet
        BY <3>1, <3>2
    <3>. QED
        BY <3>3, <3>4
  <2>. QED
      BY <1>1, <2>1, <2>2
<1>. QED
    BY <1>1, <1>2, <1>4 DEF Ordered, q2

(* The first connection carries the next packet of its sender, and the     *)
(* others keep their order when it has been taken.                         *)
LEMMA OneLess ==
    ASSUME NEW q \in Seq(Connection), NEW r \in Seq(Receipt), NEW e \in Receipt,
           q # << >>, Ordered(q, r), e.from = q[1].from
    PROVE  /\ q[1].packet = Got(r, q[1].from) + 1
           /\ Ordered(Tail(q), Append(r, e))
           /\ \A s : \A p \in Nat : Queued(q, s, p) /\ p > Got(Append(r, e), s)
                                       => Queued(Tail(q), s, p)
<1>. DEFINE n == Len(q)
            f == q[1].from
            r2 == Append(r, e)
            q2 == Tail(q)
<1>1. /\ n \in Nat \ {0} /\ Len(q2) = n - 1
      /\ \A i \in 1 .. n - 1 : q2[i] = q[i + 1]
    BY TailAt
<1>2. \A s : Got(r, s) \in Nat /\ Got(r2, s) = Got(r, s) + (IF f = s THEN 1 ELSE 0)
    BY GotNext
<1>3. \A i \in 1 .. n : q[i].packet \in Nat
  <2>1. \A i \in 1 .. n : q[i] \in Connection
      BY ElementOfSeq
  <2>. QED
      BY <2>1 DEF Connection
<1>4. q[1].packet = Got(r, f) + 1
  <2>1. 1 \in 1 .. n /\ q[1].packet > Got(r, f)
      BY <1>1 DEF Ordered
  <2>2. Queued(q, f, Got(r, f) + 1)
    <3>1. \A p \in Got(r, f) + 1 .. q[1].packet : Queued(q, f, p)
        BY <2>1 DEF Ordered
    <3>2. Got(r, f) \in Nat /\ q[1].packet \in Nat
        BY <1>2, <1>3, <2>1
    <3>3. Got(r, f) + 1 \in Got(r, f) + 1 .. q[1].packet
        BY <2>1, <3>2
    <3>. QED
        BY <3>1, <3>3
  <2>3. PICK i \in 1 .. n : q[i].from = f /\ q[i].packet = Got(r, f) + 1
      BY <2>2 DEF Queued
  <2>4. CASE i = 1
      BY <2>3, <2>4
  <2>5. CASE i # 1
    <3>1. 1 \in 1 .. i - 1
        BY <1>1, <2>5
    <3>2. q[1].packet < q[i].packet
        BY <2>3, <3>1 DEF Ordered
    <3>. QED
        BY <1>2, <1>3, <2>1, <2>3, <3>2
  <2>. QED
      BY <2>4, <2>5
<1>5. ASSUME NEW s, NEW p \in Nat, Queued(q, s, p), p > Got(r2, s) PROVE Queued(q2, s, p)
  <2>1. PICK i \in 1 .. n : q[i].from = s /\ q[i].packet = p
      BY <1>5 DEF Queued
  <2>2. i # 1
      BY <1>2, <1>4, <1>5, <2>1
  <2>3. i - 1 \in 1 .. n - 1 /\ q2[i - 1] = q[i]
      BY <1>1, <2>2
  <2>. QED
      BY <1>1, <2>1, <2>3 DEF Queued
<1>6. ASSUME NEW i \in 1 .. n - 1
      PROVE  /\ q2[i].packet > Got(r2, q2[i].from)
             /\ \A k \in 1 .. i - 1 : q2[k].from = q2[i].from => q2[k].packet < q2[i].packet
             /\ \A p \in Got(r2, q2[i].from) + 1 .. q2[i].packet : Queued(q2, q2[i].from, p)
  <2>. DEFINE s == q2[i].from
  <2>1. /\ i + 1 \in 1 .. n /\ q2[i] = q[i + 1] /\ 1 \in 1 .. i
        /\ \A k \in 1 .. i - 1 : k + 1 \in 1 .. (i + 1) - 1 /\ q2[k] = q[k + 1]
      BY <1>1
  <2>2. /\ q[i + 1].packet > Got(r, s)
        /\ \A k \in 1 .. (i + 1) - 1 : q[k].from = s => q[k].packet < q[i + 1].packet
        /\ \A p \in Got(r, s) + 1 .. q[i + 1].packet : Queued(q, s, p)
      BY <2>1 DEF Ordered
  <2>3. q2[i].packet > Got(r2, s)
    <3>1. f = s => q[1].packet < q[i + 1].packet
        BY <2>1, <2>2
    <3>. QED
        BY <1>2, <1>3, <1>4, <2>1, <2>2, <3>1
  <2>4. \A k \in 1 .. i - 1 : q2[k].from = s => q2[k].packet < q2[i].packet
      BY <2>1, <2>2
  <2>5. ASSUME NEW p \in Got(r2, s) + 1 .. q2[i].packet PROVE Queued(q2, s, p)
    <3>1. /\ Got(r, s) \in Nat /\ Got(r2, s) \in Nat /\ Got(r, s) <= Got(r2, s)
          /\ q2[i].packet = q[i + 1].packet /\ q[i + 1].packet \in Nat
        BY SMTT(30), <1>2, <1>3, <2>1
    <3>2. p \in Nat /\ p > Got(r2, s) /\ p \in Got(r, s) + 1 .. q[i + 1].packet
        BY <2>5, <3>1
    <3>. QED
        BY <1>5, <2>2, <3>2
  <2>. QED
      BY <2>3, <2>4, <2>5
<1>. QED
    BY <1>1, <1>4, <1>5, <1>6 DEF Ordered
-----------------------------------------------------------------------------
(* The steps of the senders and of the listener.                           *)

LEMMA SocketFacts ==
    ASSUME SocketInv
    PROVE  /\ Len(connections) \in Nat
           /\ \A i \in 1 .. Len(connections) :
                 /\ connections[i] \in Connection /\ connections[i].from \in Sender
                 /\ connections[i].packet \in Nat /\ connections[i].bytes \in Nat
                 /\ connections[i].open \in BOOLEAN /\ Total(connections[i]) \in Nat
                 /\ connections[i].kept \in Kept /\ Left(i) \in Nat
           /\ \A s : Got(received, s) \in Nat
           /\ HeaderSize \in Nat /\ HeaderSize > 0
<1>. SocketTypeOK
    BY DEF SocketInv
<1>1. Len(connections) \in Nat
    BY LenProperties DEF SocketTypeOK
<1>2. \A i \in 1 .. Len(connections) : connections[i] \in Connection
    BY ElementOfSeq DEF SocketTypeOK
<1>3. \A i \in 1 .. Len(connections) : DataSize[connections[i].from][connections[i].packet] \in Nat
  <2>. SUFFICES ASSUME NEW i \in 1 .. Len(connections)
                PROVE  DataSize[connections[i].from][connections[i].packet] \in Nat
      OBVIOUS
  <2>1. connections[i].from \in Sender
      BY <1>2 DEF Connection
  <2>2. DataSize[connections[i].from] \in Seq(Nat)
      BY <2>1, SocketAssumption
  <2>. QED
      BY <2>2, ElementOfSeq DEF SocketTypeOK, Packets
<1>4. \A s : Got(received, s) \in Nat
    BY GotType DEF SocketTypeOK
<1>5. HeaderSize \in Nat \ {0}
    BY SocketAssumption
<1>6. \A i \in 1 .. Len(connections) : Total(connections[i]) \in Nat
    BY <1>3, <1>5 DEF Total
<1>7. \A i \in 1 .. Len(connections) : Left(i) \in Nat
    BY <1>6 DEF Left, SocketTypeOK
<1>. QED
    BY <1>1, <1>2, <1>4, <1>5, <1>6, <1>7 DEF Connection

(* The connection that the listener has accepted. *)
LEMMA CurrentFacts ==
    ASSUME SocketInv, connections # << >>
    PROVE  /\ 1 \in 1 .. Len(connections) /\ current = connections[1]
           /\ current \in Connection /\ current.from \in Sender
           /\ current.bytes \in Nat /\ Total(current) \in Nat /\ Left(1) \in Nat
<1>1. connections \in Seq(Connection)
    BY DEF SocketInv, SocketTypeOK
<1>2. Len(connections) \in Nat /\ Len(connections) # 0
    BY <1>1, SocketFacts, EmptySeq
<1>3. 1 \in 1 .. Len(connections)
    BY <1>2
<1>4. current = connections[1]
    BY <1>1 DEF current
<1>. QED
    BY <1>3, <1>4, SocketFacts

(* The state of the connections after a step that neither opens one nor    *)
(* takes one away: a sender that is still there has reached what it had.   *)
SameStreams ==
    /\ UNCHANGED <<received, arrived>>
    /\ Len(connections') = Len(connections)
    /\ \A i \in 1 .. Len(connections) :
          /\ connections'[i].from = connections[i].from
          /\ connections'[i].packet = connections[i].packet
    /\ \A s \in Sender : listener' # Exits /\ step'[s] # Exits =>
          /\ listener # Exits /\ step[s] # Exits
          /\ Reached(s)' = Reached(s)

LEMMA SameStreamsStep ==
    ASSUME SocketInv, SameStreams, SocketTypeOK', Listening', Streams'
    PROVE  SocketInv'
<1>1. /\ \A s, p : Queued(connections', s, p) <=> Queued(connections, s, p)
      /\ Ordered(connections', received)
    BY SameShape DEF SameStreams, SocketInv
<1>2. NoneSkipped'
  <2>. SUFFICES ASSUME NEW s \in Sender, listener' # Exits, step'[s] # Exits
                PROVE  /\ Got(received, s) <= Reached(s)
                       /\ \A p \in Got(received, s) + 1 .. Reached(s) : Queued(connections, s, p)
      BY <1>1 DEF NoneSkipped, SameStreams
  <2>. QED
      BY DEF SameStreams, SocketInv, NoneSkipped
<1>3. WholeAndInOrder'
    BY DEF SameStreams, SocketInv, WholeAndInOrder
<1>. QED
    BY <1>1, <1>2, <1>3 DEF SameStreams, SocketInv

(* A sender that is not writing. *)
LEMMA QuietSenderStep ==
    ASSUME SocketInv, NEW s \in Sender, SendMessage(s) \/ Lookup(s) \/ TryFails(s)
    PROVE  SocketInv'
<1>1. UNCHANGED <<connections, listener, nbytes, byte_to_read, received, num_byte_remain,
                  arrived, sent>>
    BY DEF SendMessage, Lookup, TryFails, Fails, readVars, vars
<1>2. /\ step[s] # "write" /\ step' \in [Sender -> {"ready", "lookup", "connect", "write", Exits}]
      /\ step'[s] # "write" /\ (step'[s] \in {"lookup", "connect"} => sent[s] < Len(DataSize[s]))
      /\ \A u \in Sender : u # s => step'[u] = step[u]
      /\ (step'[s] # Exits => step[s] # Exits)
    BY DEF SendMessage, Lookup, TryFails, Fails, SocketInv, SocketTypeOK, Exits
<1>3. SocketTypeOK'
    BY <1>1, <1>2 DEF SocketInv, SocketTypeOK
<1>4. SameStreams
    BY <1>1, <1>2 DEF SameStreams, Reached
<1>5. Listening'
    BY <1>1 DEF SocketInv, Listening
<1>6. Streams'
    BY <1>1, <1>2, SocketFacts DEF SocketInv, Streams, Left, Total, Unwritten
<1>. QED
    BY <1>3, <1>4, <1>5, <1>6, SameStreamsStep

(* A sender has one open connection: another would carry the same packet. *)
LEMMA OneOwn ==
    ASSUME SocketInv, NEW s \in Sender, NEW i \in 1 .. Len(connections), Own(s, i),
           NEW h \in 1 .. Len(connections), Own(s, h)
    PROVE  h = i
<1>. SUFFICES ASSUME h # i PROVE FALSE
    OBVIOUS
<1>1. /\ connections[h].packet = connections[i].packet /\ connections[i].packet \in Nat
      /\ connections[h].from = connections[i].from
    BY SocketFacts DEF SocketInv, Streams, Own
<1>2. h \in 1 .. i - 1 \/ i \in 1 .. h - 1
    BY SocketFacts
<1>3. connections[h].packet < connections[i].packet \/ connections[i].packet < connections[h].packet
    BY <1>1, <1>2 DEF SocketInv, Ordered
<1>. QED
    BY <1>1, <1>3

(* The rest of the write goes to the one connection that is still open. *)
LEMMA WriteStep ==
    ASSUME SocketInv, NEW s \in Sender, Write(s)
    PROVE  SocketInv'
<1>. SocketTypeOK
    BY DEF SocketInv
<1>1. PICK i \in 1 .. Len(connections), k \in 1 .. num_byte_remain[s] :
         /\ Own(s, i)
         /\ connections' =
               [connections EXCEPT ![i].bytes = @ + k, ![i].open = k < num_byte_remain[s]]
         /\ num_byte_remain' = [num_byte_remain EXCEPT ![s] = @ - k]
         /\ IF k < num_byte_remain[s] THEN UNCHANGED <<step, sent>>
            ELSE /\ step' = [step EXCEPT ![s] = "ready"]
                 /\ sent' = [sent EXCEPT ![s] = @ + 1]
  <2>1. DOMAIN connections = 1 .. Len(connections)
      BY LenProperties DEF SocketTypeOK
  <2>. QED
      BY <2>1 DEF Write
<1>2. /\ step[s] = "write"
      /\ UNCHANGED <<listener, nbytes, byte_to_read, received, arrived>>
    BY DEF Write, readVars, vars
<1>. DEFINE c == connections[i]
            left == num_byte_remain[s]
<1>3. /\ c \in Connection /\ c.from = s /\ c.open /\ c.packet = sent[s] + 1
      /\ left \in Nat /\ k \in Nat /\ 0 < k /\ k <= left /\ c.bytes \in Nat /\ sent[s] \in Nat
      /\ c.kept = "all" => c.bytes + left <= Left(i)
  <2>1. c.from = s /\ c.open
      BY <1>1 DEF Own
  <2>2. c \in Connection /\ c.bytes \in Nat
      BY SocketFacts
  <2>3. c.packet = sent[s] + 1 /\ (c.kept = "all" => c.bytes + Unwritten(c) <= Left(i))
      BY <2>1 DEF SocketInv, Streams
  <2>4. Unwritten(c) = left
      BY <2>1 DEF Unwritten
  <2>5. left \in Nat /\ sent[s] \in Nat
      BY DEF SocketTypeOK
  <2>. QED
      BY <2>1, <2>2, <2>3, <2>4, <2>5
<1>4. /\ connections' \in Seq(Connection) /\ Len(connections') = Len(connections)
      /\ \A h \in 1 .. Len(connections) : h # i => connections'[h] = connections[h]
      /\ connections'[i] \in Connection
      /\ connections'[i].from = s /\ connections'[i].packet = c.packet
      /\ connections'[i].bytes = c.bytes + k /\ connections'[i].open = (k < left)
      /\ connections'[i].kept = c.kept
  <2>. DEFINE d == [c EXCEPT !.bytes = c.bytes + k, !.open = (k < left)]
  <2>1. /\ d \in Connection /\ d.from = s /\ d.packet = c.packet
        /\ d.bytes = c.bytes + k /\ d.open = (k < left) /\ d.kept = c.kept
    <3>. DEFINE o == k < left
                m == c.bytes + k
    <3>1. m \in Nat /\ o \in BOOLEAN
        BY <1>3
    <3>. HIDE DEF o, m
    <3>2. LET e == [c EXCEPT !.bytes = m, !.open = o]
          IN  /\ e \in Connection /\ e.from = s /\ e.packet = c.packet
              /\ e.bytes = m /\ e.open = o /\ e.kept = c.kept
        BY <1>3, <3>1 DEF Connection
    <3>. QED
        BY <3>2 DEF o, m
  <2>2. connections' = [connections EXCEPT ![i] = d]
      BY <1>1
  <2>. HIDE DEF d
  <2>3. [connections EXCEPT ![i] = d] \in Seq(Connection)
        /\ Len([connections EXCEPT ![i] = d]) = Len(connections)
        /\ \A h \in 1 .. Len(connections) :
              [connections EXCEPT ![i] = d][h] = IF h = i THEN d ELSE connections[h]
      BY <2>1, ExceptSeq DEF SocketTypeOK
  <2>. QED
      BY <2>1, <2>2, <2>3
<1>5. \A h \in 1 .. Len(connections) : connections[h].from = s /\ connections[h].open => h = i
    BY <1>1, OneOwn DEF Own
<1>6. /\ step' \in [Sender -> {"ready", "lookup", "connect", "write", Exits}]
      /\ sent' \in [Sender -> Nat] /\ num_byte_remain' \in [Sender -> Nat]
      /\ num_byte_remain'[s] = left - k
      /\ \A u \in Sender : u # s => /\ step'[u] = step[u] /\ sent'[u] = sent[u]
                                    /\ num_byte_remain'[u] = num_byte_remain[u]
      /\ IF k < left THEN step'[s] = "write" /\ sent'[s] = sent[s]
         ELSE step'[s] = "ready" /\ sent'[s] = sent[s] + 1
  <2>1. left - k \in Nat /\ sent[s] + 1 \in Nat
      BY <1>3
  <2>2. /\ num_byte_remain' \in [Sender -> Nat] /\ num_byte_remain'[s] = left - k
        /\ \A u \in Sender : u # s => num_byte_remain'[u] = num_byte_remain[u]
      BY <1>1, <2>1 DEF SocketTypeOK
  <2>3. CASE k < left
      BY <1>1, <1>2, <2>2, <2>3 DEF SocketTypeOK
  <2>4. CASE ~(k < left)
      BY <1>1, <1>2, <2>1, <2>2, <2>4 DEF SocketTypeOK
  <2>. QED
      BY <2>3, <2>4
<1>7. SocketTypeOK'
  <2>1. \A u \in Sender : step'[u] \in {"lookup", "connect", "write"} => sent'[u] < Len(DataSize[u])
      BY <1>2, <1>6 DEF SocketTypeOK
  <2>2. \A h \in 1 .. Len(connections') : connections'[h].packet \in Packets(connections'[h].from)
      BY <1>3, <1>4 DEF SocketTypeOK
  <2>. QED
      BY <1>2, <1>4, <1>6, <2>1, <2>2 DEF SocketTypeOK
<1>8. SameStreams
  <2>1. \A u \in Sender : Reached(u)' = Reached(u)
    <3>. SUFFICES ASSUME NEW u \in Sender PROVE Reached(u)' = Reached(u)
        OBVIOUS
    <3>1. CASE u = s
        BY <1>2, <1>6, <3>1 DEF Reached
    <3>2. CASE u # s
        BY <1>6, <3>2 DEF Reached
    <3>. QED
        BY <3>1, <3>2
  <2>. QED
      BY <1>2, <1>3, <1>4, <1>6, <2>1 DEF SameStreams, Exits
<1>9. Listening'
  <2>1. connections # << >> /\ connections' # << >> /\ connections'[1].kept = connections[1].kept
    <3>1. connections # << >> /\ connections' # << >>
        BY <1>1, <1>4, EmptySeq
    <3>2. 1 \in 1 .. Len(connections)
        BY <3>1, CurrentFacts
    <3>. QED
        BY <1>3, <1>4, <3>1, <3>2
  <2>. QED
      BY <1>2, <2>1 DEF SocketInv, Listening
<1>10. Streams'
  <2>1. ASSUME NEW h \in 1 .. Len(connections)
        PROVE  Left(h)' = Left(h)
    <3>1. Total(connections[h])' = Total(connections[h])
        BY <1>3, <1>4 DEF Total
    <3>. QED
        BY <1>2, <3>1 DEF Left
  <2>2. ASSUME NEW h \in 1 .. Len(connections), NEW e, e = connections'[h]
        PROVE  /\ e.open => step'[e.from] = "write" /\ e.packet = sent'[e.from] + 1
               /\ ~e.open /\ step'[e.from] # Exits => e.packet <= sent'[e.from]
               /\ e.kept = "all" => e.bytes + Unwritten(e)' <= Left(h)
    <3>1. CASE h = i
      <4>1. /\ e.from = s /\ e.packet = sent[s] + 1 /\ e.bytes = c.bytes + k
            /\ e.open <=> k < left
            /\ e.kept = c.kept
          BY <1>3, <1>4, <2>2, <3>1
      <4>2. CASE k < left
        <5>1. Unwritten(e)' = left - k /\ e.open
            BY <1>6, <2>2, <4>1, <4>2 DEF Unwritten
        <5>2. e.kept = "all" => e.bytes + Unwritten(e)' <= Left(h)
            BY SMTT(30), <1>3, <3>1, <4>1, <5>1, SocketFacts
        <5>. QED
            BY <1>6, <4>1, <4>2, <5>1, <5>2
      <4>3. CASE ~(k < left)
        <5>1. Unwritten(e)' = 0
            BY <1>6, <2>2, <4>1, <4>3 DEF Unwritten
        <5>. QED
            BY <1>3, <1>6, <3>1, <4>1, <4>3, <5>1
      <4>. QED
          BY <4>2, <4>3
    <3>2. CASE h # i
      <4>1. e = connections[h] /\ e.from \in Sender /\ (e.open => e.from # s)
          BY <1>4, <1>5, <2>2, <3>2, SocketFacts
      <4>2. /\ e.open => step[e.from] = "write" /\ e.packet = sent[e.from] + 1
            /\ ~e.open /\ step[e.from] # Exits => e.packet <= sent[e.from]
            /\ e.kept = "all" => e.bytes + Unwritten(e) <= Left(h)
          BY <4>1 DEF SocketInv, Streams
      <4>3. Unwritten(e)' = Unwritten(e)
          BY <1>6, <2>2, <4>1 DEF Unwritten
      <4>4. ~e.open /\ step'[e.from] # Exits => e.packet <= sent'[e.from]
        <5>1. e.from = s => e.packet <= sent[s] \/ e.open
            BY <1>2, <4>2 DEF Exits
        <5>2. e.packet \in Nat
            BY <4>1, SocketFacts
        <5>. QED
            BY SMTT(30), <1>3, <1>6, <4>1, <4>2, <5>1, <5>2
      <4>. QED
          BY <1>6, <4>1, <4>2, <4>3, <4>4
    <3>. QED
        BY <3>1, <3>2
  <2>3. \A u \in Sender : step'[u] = "write" => num_byte_remain'[u] > 0
    <3>. SUFFICES ASSUME NEW u \in Sender, step'[u] = "write" PROVE num_byte_remain'[u] > 0
        OBVIOUS
    <3>1. CASE u = s
        BY <1>3, <1>6, <3>1
    <3>2. CASE u # s
        BY <1>6, <3>2 DEF SocketInv, Streams
    <3>. QED
        BY <3>1, <3>2
  <2>. QED
      BY <1>4, <2>1, <2>2, <2>3 DEF Streams, Unwritten
<1>. QED
    BY <1>7, <1>8, <1>9, <1>10, SameStreamsStep

(* Once the listener has closed the connection, or this peer has gone,     *)
(* there is none that the sender could still have open.                    *)
LEMMA WriteToNobodyStep ==
    ASSUME SocketInv, NEW s \in Sender, WriteToNobody(s)
    PROVE  SocketInv'
<1>. SocketTypeOK
    BY DEF SocketInv
<1>1. /\ step[s] = "write" /\ sent[s] \in Nat
      /\ UNCHANGED <<connections, listener, nbytes, byte_to_read, received, arrived>>
      /\ step' \in [Sender -> {"ready", "lookup", "connect", "write", Exits}]
      /\ \/ step'[s] = Exits /\ sent'[s] = sent[s]
         \/ step'[s] = "ready" /\ sent'[s] = sent[s] + 1
      /\ sent' \in [Sender -> Nat] /\ num_byte_remain' \in [Sender -> Nat]
      /\ \A u \in Sender : u # s => /\ step'[u] = step[u] /\ sent'[u] = sent[u]
                                    /\ num_byte_remain'[u] = num_byte_remain[u]
  <2>1. sent[s] \in Nat /\ sent[s] + 1 \in Nat
      BY DEF SocketTypeOK
  <2>2. CASE step' = [step EXCEPT ![s] = Exits] /\ UNCHANGED <<sent, num_byte_remain>>
      BY <2>1, <2>2 DEF WriteToNobody, readVars, vars, SocketTypeOK, Exits
  <2>3. CASE /\ step' = [step EXCEPT ![s] = "ready"]
             /\ sent' = [sent EXCEPT ![s] = @ + 1]
             /\ num_byte_remain' = [num_byte_remain EXCEPT ![s] = 0]
      BY <2>1, <2>3 DEF WriteToNobody, readVars, vars, SocketTypeOK
  <2>. QED
      BY <2>2, <2>3 DEF WriteToNobody
<1>2. \A i \in 1 .. Len(connections) : connections[i].from = s => ~connections[i].open
  <2>1. DOMAIN connections = 1 .. Len(connections)
      BY LenProperties DEF SocketTypeOK
  <2>. QED
      BY <2>1 DEF WriteToNobody, Own
<1>3. SocketTypeOK'
  <2>1. \A u \in Sender : step'[u] \in {"lookup", "connect", "write"} => sent'[u] < Len(DataSize[u])
      BY <1>1 DEF SocketTypeOK, Exits
  <2>. QED
      BY <1>1, <2>1 DEF SocketTypeOK
<1>4. SameStreams
  <2>1. \A u \in Sender : step'[u] # Exits => Reached(u)' = Reached(u)
      BY <1>1 DEF Reached
  <2>2. step[s] # Exits
      BY <1>1 DEF Exits
  <2>. QED
      BY <1>1, <2>1, <2>2 DEF SameStreams
<1>5. Listening'
    BY <1>1 DEF SocketInv, Listening
<1>6. Streams'
  <2>1. \A u \in Sender : step'[u] = "write" => num_byte_remain'[u] > 0
      BY <1>1 DEF Exits, SocketInv, Streams
  <2>2. ASSUME NEW i \in 1 .. Len(connections), NEW c, c = connections[i]
        PROVE  /\ c.open => step'[c.from] = "write" /\ c.packet = sent'[c.from] + 1
               /\ ~c.open /\ step'[c.from] # Exits => c.packet <= sent'[c.from]
               /\ c.kept = "all" => c.bytes + Unwritten(c)' <= Left(i)
    <3>1. /\ c.from \in Sender /\ c.packet \in Nat
          /\ c.open => step[c.from] = "write" /\ c.packet = sent[c.from] + 1
          /\ ~c.open /\ step[c.from] # Exits => c.packet <= sent[c.from]
          /\ c.kept = "all" => c.bytes + Unwritten(c) <= Left(i)
        BY <2>2, SocketFacts DEF SocketInv, Streams
    <3>2. CASE c.from = s
        BY <1>1, <1>2, <2>2, <3>1, <3>2 DEF Unwritten, Exits
    <3>3. CASE c.from # s
        BY <1>1, <3>1, <3>3 DEF Unwritten
    <3>. QED
        BY <3>2, <3>3
  <2>3. \A i : Left(i)' = Left(i)
      BY <1>1 DEF Left, Total
  <2>. QED
      BY <1>1, <2>1, <2>2, <2>3 DEF Streams, Unwritten
<1>. QED
    BY <1>3, <1>4, <1>5, <1>6, SameStreamsStep

(* What a sender leaves behind is shorter than it announced. *)
LEMMA DiesStep ==
    ASSUME SocketInv, NEW s \in Sender, Dies(s)
    PROVE  SocketInv'
<1>. SocketTypeOK
    BY DEF SocketInv
<1>1. /\ UNCHANGED <<listener, nbytes, byte_to_read, received, arrived, sent, num_byte_remain>>
      /\ step' \in [Sender -> {"ready", "lookup", "connect", "write", Exits}]
      /\ step'[s] = Exits /\ \A u \in Sender : u # s => step'[u] = step[u]
    BY DEF Dies, readVars, vars, SocketTypeOK
<1>2. connections' = [i \in 1 .. Len(connections) |->
          IF Own(s, i) THEN [connections[i] EXCEPT !.open = FALSE] ELSE connections[i]]
  <2>1. DOMAIN connections = 1 .. Len(connections)
      BY LenProperties DEF SocketTypeOK
  <2>. QED
      BY <2>1 DEF Dies
<1>3. \A i \in 1 .. Len(connections) :
         /\ connections'[i] \in Connection
         /\ connections'[i].from = connections[i].from
         /\ connections'[i].packet = connections[i].packet
         /\ connections'[i].bytes = connections[i].bytes
         /\ connections'[i].kept = connections[i].kept
         /\ connections'[i].open => connections[i].open /\ connections[i].from # s
         /\ connections[i].from # s => connections'[i] = connections[i]
  <2>. SUFFICES ASSUME NEW i \in 1 .. Len(connections)
                PROVE  /\ connections'[i] \in Connection
                       /\ connections'[i].from = connections[i].from
                       /\ connections'[i].packet = connections[i].packet
                       /\ connections'[i].bytes = connections[i].bytes
                       /\ connections'[i].kept = connections[i].kept
                       /\ connections'[i].open => connections[i].open /\ connections[i].from # s
                       /\ connections[i].from # s => connections'[i] = connections[i]
      OBVIOUS
  <2>1. connections[i] \in Connection
      BY SocketFacts
  <2>2. CASE Own(s, i)
    <3>1. connections'[i] = [connections[i] EXCEPT !.open = FALSE]
        BY <1>2, <2>2
    <3>. QED
        BY <2>1, <2>2, <3>1 DEF Connection, Own
  <2>3. CASE ~Own(s, i)
    <3>1. connections'[i] = connections[i]
        BY <1>2, <2>3
    <3>. QED
        BY <2>1, <2>3, <3>1 DEF Own
  <2>. QED
      BY <2>2, <2>3
<1>4. Len(connections) \in Nat /\ connections' \in Seq(Connection)
      /\ Len(connections') = Len(connections)
  <2>1. Len(connections) \in Nat
      BY SocketFacts
  <2>. QED
      BY <1>2, <1>3, <2>1, LenProperties
<1>5. SocketTypeOK'
  <2>1. \A u \in Sender : step'[u] \in {"lookup", "connect", "write"} => sent'[u] < Len(DataSize[u])
      BY <1>1 DEF SocketTypeOK, Exits
  <2>2. \A i \in 1 .. Len(connections') : connections'[i].packet \in Packets(connections'[i].from)
      BY <1>3, <1>4 DEF SocketTypeOK
  <2>. QED
      BY <1>1, <1>4, <2>1, <2>2 DEF SocketTypeOK
<1>6. SameStreams
    BY <1>1, <1>3, <1>4 DEF SameStreams, Reached
<1>7. Listening'
  <2>1. \/ connections = << >> /\ connections' = << >>
        \/ /\ connections # << >> /\ connections' # << >>
           /\ connections'[1].kept = connections[1].kept
      BY <1>3, <1>4, EmptySeq DEF SocketTypeOK
  <2>. QED
      BY <1>1, <2>1 DEF SocketInv, Listening, Exits
<1>8. Streams'
  <2>1. ASSUME NEW i \in 1 .. Len(connections)
        PROVE  Left(i)' = Left(i)
    <3>1. Total(connections[i])' = Total(connections[i])
        BY <1>3 DEF Total
    <3>. QED
        BY <1>1, <3>1 DEF Left
  <2>2. ASSUME NEW i \in 1 .. Len(connections), NEW e, e = connections'[i]
        PROVE  /\ e.open => step'[e.from] = "write" /\ e.packet = sent'[e.from] + 1
               /\ ~e.open /\ step'[e.from] # Exits => e.packet <= sent'[e.from]
               /\ e.kept = "all" => e.bytes + Unwritten(e)' <= Left(i)
    <3>. DEFINE c == connections[i]
    <3>1. /\ c \in Connection /\ c.from \in Sender
          /\ c.open => step[c.from] = "write" /\ c.packet = sent[c.from] + 1
          /\ ~c.open /\ step[c.from] # Exits => c.packet <= sent[c.from]
          /\ c.kept = "all" => c.bytes + Unwritten(c) <= Left(i)
        BY SocketFacts DEF SocketInv, Streams
    <3>2. CASE c.from = s
      <4>1. ~e.open /\ e.from = s /\ e.bytes = c.bytes /\ e.kept = c.kept
          BY <1>3, <2>2, <3>2
      <4>2. Unwritten(e)' = 0 /\ c.bytes \in Nat /\ Unwritten(c) \in Nat /\ Left(i) \in Nat
          BY <3>1, <4>1, SocketFacts DEF Unwritten, SocketTypeOK
      <4>. QED
          BY <1>1, <3>1, <4>1, <4>2
    <3>3. CASE c.from # s
      <4>1. e = c /\ step'[e.from] = step[e.from]
          BY <1>1, <1>3, <2>2, <3>1, <3>3
      <4>2. Unwritten(e)' = Unwritten(c)
          BY <1>1, <4>1 DEF Unwritten
      <4>. QED
          BY <1>1, <3>1, <4>1, <4>2
    <3>. QED
        BY <3>2, <3>3
  <2>3. \A u \in Sender : step'[u] = "write" => num_byte_remain'[u] > 0
      BY <1>1 DEF Exits, SocketInv, Streams
  <2>. QED
      BY <1>4, <2>1, <2>2, <2>3 DEF Streams, Unwritten
<1>. QED
    BY <1>5, <1>6, <1>7, <1>8, SameStreamsStep

LEMMA MinOfTwo ==
    ASSUME NEW a \in Nat, NEW b \in Nat
    PROVE  Min({a, b}) = IF a <= b THEN a ELSE b
BY DEF Min

(* A call for the connection that the listener has accepted, which becomes *)
(* d: if all of its packet is kept, no more is waited for than the sender  *)
(* has announced and not written.                                          *)
LEMMA FirstStep ==
    ASSUME SocketInv, connections # << >>, NEW d \in Connection,
           connections' = [connections EXCEPT ![1] = d],
           d.from = current.from, d.packet = current.packet, d.open = current.open,
           UNCHANGED <<senderVars, received, arrived>>,
           listener' = "data", nbytes' \in Nat, byte_to_read' \in Nat, listener # Exits,
           d.kept # "none" => nbytes' <= HeaderSize,
           d.kept = "all" =>
              /\ current.kept = "all" /\ d.bytes <= current.bytes
              /\ IF nbytes' = HeaderSize
                 THEN Left(1) - (current.bytes - d.bytes) <= byte_to_read'
                 ELSE Left(1) = Total(current)
    PROVE  SocketInv'
<1>. SocketTypeOK
    BY DEF SocketInv
<1>. DEFINE c == connections[1]
<1>1. /\ Len(connections) \in Nat /\ 1 \in 1 .. Len(connections) /\ current = c
      /\ c \in Connection /\ c.bytes \in Nat /\ d.bytes \in Nat
  <2>1. Len(connections) \in Nat
      BY SocketFacts
  <2>2. d.bytes \in Nat
      BY DEF Connection
  <2>. QED
      BY <2>1, <2>2, CurrentFacts
<1>2. /\ connections' \in Seq(Connection) /\ Len(connections') = Len(connections)
      /\ \A h \in 1 .. Len(connections) : h # 1 => connections'[h] = connections[h]
      /\ connections'[1] = d
  <2>1. /\ [connections EXCEPT ![1] = d] \in Seq(Connection)
        /\ Len([connections EXCEPT ![1] = d]) = Len(connections)
        /\ \A h \in 1 .. Len(connections) :
              [connections EXCEPT ![1] = d][h] = IF h = 1 THEN d ELSE connections[h]
      BY <1>1, ExceptSeq DEF SocketTypeOK
  <2>. QED
      BY <1>1, <2>1
<1>3. UNCHANGED <<step, sent, num_byte_remain, received, arrived>>
    BY DEF senderVars
<1>4. \A h \in 1 .. Len(connections) :
         /\ connections'[h].from = connections[h].from
         /\ connections'[h].packet = connections[h].packet
         /\ connections'[h].open = connections[h].open
    BY <1>1, <1>2
<1>5. SocketTypeOK'
  <2>1. \A h \in 1 .. Len(connections') : connections'[h].packet \in Packets(connections'[h].from)
      BY <1>2, <1>4 DEF SocketTypeOK
  <2>. QED
      BY <1>2, <1>3, <2>1 DEF SocketTypeOK
<1>6. SameStreams
    BY <1>2, <1>3, <1>4 DEF SameStreams, Reached
<1>7. Listening'
    BY <1>1, <1>2, EmptySeq DEF Listening, Exits
<1>8. Streams'
  <2>1. \A h \in 1 .. Len(connections) : Total(connections[h])' = Total(connections[h])
      BY <1>4 DEF Total
  <2>2. ASSUME NEW h \in 1 .. Len(connections), NEW e, e = connections'[h], e.kept = "all"
        PROVE  e.bytes + Unwritten(connections[h]) <= Left(h)'
    <3>1. /\ connections[h].kept = "all" =>
                connections[h].bytes + Unwritten(connections[h]) <= Left(h)
          /\ Unwritten(connections[h]) \in Nat
      <4>1. connections[h] \in Connection
          BY SocketFacts
      <4>. QED
          BY <4>1 DEF SocketInv, Streams, Unwritten, Connection, SocketTypeOK
    <3>2. CASE h = 1
      <4>1. /\ e = d /\ c.kept = "all" /\ d.bytes <= c.bytes
            /\ IF nbytes' = HeaderSize THEN Left(1) - (c.bytes - d.bytes) <= byte_to_read'
               ELSE Left(1) = Total(c)
          BY <1>1, <1>2, <2>2, <3>2
      <4>2. Left(1) \in Nat /\ c.bytes + Unwritten(c) <= Left(1)
          BY <1>1, <3>1, <3>2, <4>1, SocketFacts
      <4>3. CASE nbytes' = HeaderSize
        <5>1. Left(h)' = byte_to_read'
            BY <3>2, <4>3 DEF Left
        <5>. QED
            BY <1>1, <3>1, <3>2, <4>1, <4>2, <4>3, <5>1
      <4>4. CASE nbytes' # HeaderSize
        <5>1. Left(h)' = Left(1)
            BY <1>1, <2>1, <3>2, <4>1, <4>4 DEF Left
        <5>. QED
            BY <1>1, <3>1, <3>2, <4>1, <4>2, <5>1
      <4>. QED
          BY <4>3, <4>4
    <3>3. CASE h # 1
      <4>1. Left(h)' = Left(h) /\ e = connections[h]
          BY <1>2, <2>1, <2>2, <3>3 DEF Left
      <4>. QED
          BY <2>2, <3>1, <4>1
    <3>. QED
        BY <3>2, <3>3
  <2>3. \A h \in 1 .. Len(connections) :
           Unwritten(connections[h])' = Unwritten(connections[h])
      BY <1>3, <1>4 DEF Unwritten
  <2>. QED
      BY <1>2, <1>3, <1>4, <2>2, <2>3 DEF SocketInv, Streams
<1>. QED
    BY <1>5, <1>6, <1>7, <1>8, SameStreamsStep

(* A read of n bytes. *)
LEMMA TakenStep ==
    ASSUME SocketInv, connections # << >>, NEW n \in Nat, n <= current.bytes,
           connections' = Taken(n), UNCHANGED <<senderVars, received, arrived>>,
           listener' = "data", nbytes' \in Nat, byte_to_read' \in Nat, listener # Exits,
           current.kept # "none" => nbytes' <= HeaderSize,
           current.kept = "all" =>
              IF nbytes' = HeaderSize THEN Left(1) - n <= byte_to_read'
              ELSE Left(1) = Total(current)
    PROVE  SocketInv'
<1>. DEFINE m == current.bytes - n
            d == [current EXCEPT !.bytes = m]
<1>1. /\ current = connections[1] /\ current \in Connection /\ current.bytes \in Nat
      /\ Left(1) \in Nat
    BY CurrentFacts
<1>2. m \in Nat /\ m <= current.bytes /\ current.bytes - m = n
    BY <1>1
<1>3. connections' = [connections EXCEPT ![1] = d]
    BY <1>1 DEF Taken
<1>. HIDE DEF m
<1>4. /\ d \in Connection /\ d.from = current.from /\ d.packet = current.packet
      /\ d.bytes = m /\ d.open = current.open /\ d.kept = current.kept
    BY <1>1, <1>2 DEF Connection
<1>. HIDE DEF d
<1>5. d.kept # "none" => nbytes' <= HeaderSize
    BY <1>4
<1>6. d.kept = "all" =>
         /\ current.kept = "all" /\ d.bytes <= current.bytes
         /\ IF nbytes' = HeaderSize THEN Left(1) - (current.bytes - d.bytes) <= byte_to_read'
            ELSE Left(1) = Total(current)
    BY <1>2, <1>4
<1>. QED
    BY <1>3, <1>4, <1>5, <1>6, FirstStep

(* A failed call says nothing of the bytes that are on their way, and      *)
(* spoils no more than the one packet.                                     *)
LEMMA SpoiltFacts ==
    ASSUME NEW c \in Connection, NEW b \in BOOLEAN
    PROVE  /\ Spoilt(c, b) \in Connection
           /\ Spoilt(c, b).from = c.from /\ Spoilt(c, b).packet = c.packet
           /\ Spoilt(c, b).bytes = c.bytes /\ Spoilt(c, b).open = c.open
           /\ Spoilt(c, b).kept # "all"
           /\ Spoilt(c, b).kept # "none" => c.kept # "none" /\ ~b
<1>. DEFINE k == IF b THEN "none" ELSE IF c.kept = "all" THEN "header" ELSE c.kept
            d == [c EXCEPT !.kept = k]
<1>1. Spoilt(c, b) = d
    BY DEF Spoilt
<1>2. k \in Kept /\ k # "all" /\ (k # "none" => c.kept # "none" /\ ~b)
    BY DEF Connection, Kept
<1>. HIDE DEF k
<1>3. /\ d \in Connection /\ d.from = c.from /\ d.packet = c.packet
      /\ d.bytes = c.bytes /\ d.open = c.open /\ d.kept = k
    BY <1>2 DEF Connection
<1>. QED
    BY <1>1, <1>2, <1>3

(* A process that ends takes every connection with it. *)
LEMMA EndStep ==
    ASSUME SocketInv, listener' = Exits, connections' = << >>,
           UNCHANGED <<step, sent, num_byte_remain, received, arrived>>,
           nbytes' \in Nat, byte_to_read' \in Nat
    PROVE  SocketInv'
<1>1. Len(connections') = 0 /\ connections' \in Seq(Connection)
    OBVIOUS
<1>2. SocketTypeOK'
    BY <1>1 DEF SocketInv, SocketTypeOK
<1>3. Listening' /\ NoneSkipped'
    BY DEF Listening, NoneSkipped, Exits
<1>4. Streams' /\ Ordered(connections', received')
    BY <1>1 DEF SocketInv, Streams, Ordered
<1>5. WholeAndInOrder'
    BY DEF SocketInv, WholeAndInOrder
<1>. QED
    BY <1>2, <1>3, <1>4, <1>5 DEF SocketInv

(* Malloc gives the memory that the header asks for, or this process ends. *)
LEMMA AllocateFacts ==
    ASSUME SocketInv, connections # << >>, NEW known \in BOOLEAN, NEW left,
           AllocateData(known, left)
    PROVE  /\ byte_to_read' \in Nat
           /\ \/ /\ connections' = left /\ listener' = "data"
                 /\ known => byte_to_read' = DataSize[current.from][current.packet]
              \/ ~known /\ connections' = << >> /\ listener' = Exits
           /\ Total(current) = HeaderSize + DataSize[current.from][current.packet]
           /\ DataSize[current.from][current.packet] \in Nat
<1>1. 1 \in 1 .. Len(connections) /\ current = connections[1]
    BY CurrentFacts
<1>2. current.from \in Sender /\ current.packet \in Packets(current.from)
    BY <1>1, SocketFacts DEF SocketInv, SocketTypeOK
<1>3. DataSize[current.from] \in Seq(Nat)
    BY <1>2, SocketAssumption
<1>4. DataSize[current.from][current.packet] \in Nat
    BY <1>2, <1>3, ElementOfSeq DEF Packets
<1>5. AnySize \subseteq Nat /\ byte_to_read \in Nat
    BY SocketAssumption DEF SocketInv, SocketTypeOK
<1>. QED
    BY <1>4, <1>5 DEF AllocateData, Total

LEMMA ReadHeaderStep ==
    ASSUME SocketInv, ReadHeader
    PROVE  SocketInv'
<1>. DEFINE known == nbytes' = HeaderSize /\ current.kept # "none"
<1>1. /\ listener = "header" /\ connections # << >> /\ listener # Exits
      /\ nbytes' = Min({HeaderSize, current.bytes})
      /\ AllocateData(known, Taken(nbytes'))
      /\ UNCHANGED <<senderVars, received, arrived>>
    BY DEF ReadHeader, SocketInv, Listening, vars, Exits
<1>2. /\ current \in Connection /\ current.bytes \in Nat /\ Total(current) \in Nat
      /\ current = connections[1] /\ HeaderSize \in Nat /\ HeaderSize > 0
    BY <1>1, CurrentFacts, SocketFacts
<1>3. nbytes' \in Nat /\ nbytes' <= current.bytes /\ nbytes' <= HeaderSize
  <2>1. Min({HeaderSize, current.bytes}) = IF HeaderSize <= current.bytes THEN HeaderSize
                                           ELSE current.bytes
      BY <1>2, MinOfTwo
  <2>. QED
      BY <1>1, <1>2, <2>1
<1>4. Left(1) = Total(current)
    BY <1>1, <1>2 DEF Left
<1>5. known \in BOOLEAN
    OBVIOUS
<1>6. known <=> nbytes' = HeaderSize /\ current.kept # "none"
    OBVIOUS
<1>. HIDE DEF known
<1>7. /\ byte_to_read' \in Nat
      /\ \/ /\ connections' = Taken(nbytes') /\ listener' = "data"
            /\ known => byte_to_read' = DataSize[current.from][current.packet]
         \/ ~known /\ connections' = << >> /\ listener' = Exits
      /\ Total(current) = HeaderSize + DataSize[current.from][current.packet]
      /\ DataSize[current.from][current.packet] \in Nat
    BY <1>1, <1>5, AllocateFacts
<1>8. CASE /\ connections' = Taken(nbytes') /\ listener' = "data"
           /\ known => byte_to_read' = DataSize[current.from][current.packet]
  <2>1. current.kept = "all" =>
           IF nbytes' = HeaderSize THEN Left(1) - nbytes' <= byte_to_read'
           ELSE Left(1) = Total(current)
      BY <1>2, <1>4, <1>6, <1>7, <1>8
  <2>. QED
      BY <1>1, <1>3, <1>7, <1>8, <2>1, TakenStep
<1>9. CASE connections' = << >> /\ listener' = Exits
    BY <1>1, <1>3, <1>7, <1>9, EndStep DEF senderVars
<1>. QED
    BY <1>7, <1>8, <1>9

(* The read of the header returns -1. *)
LEMMA ReadHeaderFailsStep ==
    ASSUME SocketInv, ReadHeaderFails
    PROVE  SocketInv'
<1>. DEFINE d == Spoilt(current, TRUE)
            left == [connections EXCEPT ![1] = d]
<1>1. /\ listener = "header" /\ connections # << >> /\ listener # Exits
      /\ nbytes' = SIZE_MAX
      /\ UNCHANGED <<senderVars, received, arrived>>
    BY DEF ReadHeaderFails, SocketInv, Listening, vars, Exits
<1>2. 1 \in 1 .. Len(connections) /\ current = connections[1]
    BY <1>1, CurrentFacts
<1>3. current \in Connection /\ nbytes' \in Nat
    BY <1>1, <1>2, SocketFacts, SocketAssumption
<1>4. AllocateData(FALSE, left)
    BY <1>2 DEF ReadHeaderFails
<1>5. /\ d \in Connection /\ d.from = current.from /\ d.packet = current.packet
      /\ d.open = current.open /\ d.kept = "none"
    BY <1>3, SpoiltFacts DEF Connection, Kept
<1>6. left = [connections EXCEPT ![1] = d]
    OBVIOUS
<1>. HIDE DEF d, left
<1>7. /\ byte_to_read' \in Nat
      /\ \/ connections' = left /\ listener' = "data"
         \/ connections' = << >> /\ listener' = Exits
    BY <1>1, <1>4, AllocateFacts
<1>8. CASE connections' = left /\ listener' = "data"
    BY <1>1, <1>3, <1>5, <1>6, <1>7, <1>8, FirstStep
<1>9. CASE connections' = << >> /\ listener' = Exits
    BY <1>1, <1>3, <1>7, <1>9, EndStep DEF senderVars
<1>. QED
    BY <1>7, <1>8, <1>9

LEMMA ReadDataStep ==
    ASSUME SocketInv, ReadData
    PROVE  SocketInv'
<1>1. PICK n : /\ n = Min({byte_to_read, current.bytes})
               /\ byte_to_read' = byte_to_read - n
               /\ connections' = Taken(n)
    BY DEF ReadData
<1>2. /\ listener = "data" /\ listener' = "data" /\ connections # << >>
      /\ nbytes' = nbytes /\ UNCHANGED <<senderVars, received, arrived>>
    BY DEF ReadData, SocketInv, Listening, vars
<1>3. /\ 1 \in 1 .. Len(connections) /\ current = connections[1]
      /\ current.bytes \in Nat /\ byte_to_read \in Nat /\ nbytes \in Nat
      /\ Total(current) \in Nat
  <2>1. byte_to_read \in Nat /\ nbytes \in Nat
      BY DEF SocketInv, SocketTypeOK
  <2>. QED
      BY <1>2, <2>1, CurrentFacts
<1>4. n \in Nat /\ n <= current.bytes /\ n <= byte_to_read /\ byte_to_read' \in Nat
    BY <1>1, <1>3, MinOfTwo
<1>5. IF nbytes' = HeaderSize THEN Left(1) - n <= byte_to_read' ELSE Left(1) = Total(current)
    BY <1>1, <1>2, <1>3, <1>4 DEF Left
<1>6. current.kept # "none" => nbytes' <= HeaderSize
    BY <1>2, <1>3 DEF SocketInv, Listening
<1>7. listener # Exits
    BY <1>2 DEF Exits
<1>8. nbytes' \in Nat
    BY <1>2, <1>3
<1>. QED
    BY <1>1, <1>2, <1>4, <1>5, <1>6, <1>7, <1>8, TakenStep

(* A read of the data returns -1. *)
LEMMA ReadDataFailsStep ==
    ASSUME SocketInv, ReadDataFails
    PROVE  SocketInv'
<1>. DEFINE d == Spoilt(current, FALSE)
<1>1. /\ listener = "data" /\ listener' = "data" /\ connections # << >> /\ listener # Exits
      /\ nbytes' = nbytes /\ UNCHANGED <<senderVars, received, arrived>>
      /\ byte_to_read' = byte_to_read + 1
    BY DEF ReadDataFails, SocketInv, Listening, vars, Exits
<1>2. 1 \in 1 .. Len(connections) /\ current = connections[1]
    BY <1>1, CurrentFacts
<1>3. current \in Connection /\ nbytes' \in Nat /\ byte_to_read' \in Nat
    BY <1>1, <1>2, SocketFacts DEF SocketInv, SocketTypeOK
<1>4. connections' = [connections EXCEPT ![1] = d]
    BY <1>2 DEF ReadDataFails
<1>5. /\ d \in Connection /\ d.from = current.from /\ d.packet = current.packet
      /\ d.open = current.open /\ d.kept # "all"
      /\ d.kept # "none" => current.kept # "none"
    BY <1>3, SpoiltFacts
<1>6. current.kept # "none" => nbytes' <= HeaderSize
    BY <1>1, <1>2 DEF SocketInv, Listening
<1>. HIDE DEF d
<1>. QED
    BY <1>1, <1>3, <1>4, <1>5, <1>6, FirstStep

(* A write returns -1: the sender has a byte more to write.  The listener *)
(* may have accepted the connection, and knows nothing of it.              *)
LEMMA WriteFailsStep ==
    ASSUME SocketInv, NEW s \in Sender, WriteFails(s)
    PROVE  SocketInv'
<1>. SocketTypeOK
    BY DEF SocketInv
<1>1. PICK i \in 1 .. Len(connections) :
         /\ Own(s, i)
         /\ connections' = [connections EXCEPT ![i] =
                Spoilt(@, @.kept = "all" /\ num_byte_remain[s] > DataSize[s][@.packet])]
  <2>1. DOMAIN connections = 1 .. Len(connections)
      BY LenProperties DEF SocketTypeOK
  <2>. QED
      BY <2>1 DEF WriteFails
<1>. DEFINE c == connections[i]
            b == c.kept = "all" /\ num_byte_remain[s] > DataSize[s][c.packet]
            d == Spoilt(c, b)
<1>2. /\ UNCHANGED <<step, sent, listener, nbytes, byte_to_read, received, arrived>>
      /\ num_byte_remain' \in [Sender -> Nat] /\ num_byte_remain'[s] > 0
      /\ \A u \in Sender : u # s => num_byte_remain'[u] = num_byte_remain[u]
  <2>1. num_byte_remain[s] + 1 \in Nat /\ num_byte_remain[s] + 1 > 0
      BY DEF SocketTypeOK
  <2>. QED
      BY <2>1 DEF WriteFails, vars, SocketTypeOK
<1>3. c \in Connection /\ c.from = s /\ c.open /\ Len(connections) \in Nat
    BY <1>1, SocketFacts DEF Own
<1>4. /\ d \in Connection /\ d.from = c.from /\ d.packet = c.packet /\ d.open = c.open
      /\ d.kept # "all" /\ (d.kept # "none" => c.kept # "none")
  <2>1. b \in BOOLEAN
      OBVIOUS
  <2>. HIDE DEF b
  <2>. QED
      BY ZenonT(60), <1>3, <2>1, SpoiltFacts
<1>5. connections' = [connections EXCEPT ![i] = d]
    BY <1>1
<1>. HIDE DEF d
<1>6. /\ connections' \in Seq(Connection) /\ Len(connections') = Len(connections)
      /\ \A h \in 1 .. Len(connections) : connections'[h] = IF h = i THEN d ELSE connections[h]
    BY <1>4, <1>5, ExceptSeq DEF SocketTypeOK
<1>7. \A h \in 1 .. Len(connections) :
         /\ connections'[h].from = connections[h].from
         /\ connections'[h].packet = connections[h].packet
         /\ connections'[h].open = connections[h].open
         /\ connections'[h].kept # "none" => connections[h].kept # "none"
    BY <1>4, <1>6
<1>8. SocketTypeOK'
  <2>1. \A h \in 1 .. Len(connections') : connections'[h].packet \in Packets(connections'[h].from)
      BY <1>6, <1>7 DEF SocketTypeOK
  <2>. QED
      BY <1>2, <1>6, <2>1 DEF SocketTypeOK
<1>9. SameStreams
    BY <1>2, <1>6, <1>7 DEF SameStreams, Reached
<1>10. Listening'
  <2>1. /\ connections # << >> /\ connections' # << >>
        /\ connections'[1].kept # "none" => connections[1].kept # "none"
    <3>1. connections # << >> /\ connections' # << >>
        BY <1>1, <1>6, EmptySeq
    <3>2. 1 \in 1 .. Len(connections)
        BY <3>1, CurrentFacts
    <3>. QED
        BY <1>7, <3>1, <3>2
  <2>. QED
      BY <1>2, <2>1 DEF SocketInv, Listening
<1>11. Streams'
  <2>1. ASSUME NEW h \in 1 .. Len(connections)
        PROVE  Left(h)' = Left(h)
    <3>1. Total(connections[h])' = Total(connections[h])
        BY <1>7 DEF Total
    <3>. QED
        BY <1>2, <3>1 DEF Left
  <2>2. ASSUME NEW h \in 1 .. Len(connections), NEW e, e = connections'[h]
        PROVE  /\ e.open => step'[e.from] = "write" /\ e.packet = sent'[e.from] + 1
               /\ ~e.open /\ step'[e.from] # Exits => e.packet <= sent'[e.from]
               /\ e.kept = "all" => e.bytes + Unwritten(e)' <= Left(h)
    <3>1. /\ connections[h].open => /\ step[connections[h].from] = "write"
                                    /\ connections[h].packet = sent[connections[h].from] + 1
          /\ ~connections[h].open /\ step[connections[h].from] # Exits =>
                connections[h].packet <= sent[connections[h].from]
          /\ connections[h].kept = "all" =>
                connections[h].bytes + Unwritten(connections[h]) <= Left(h)
        BY DEF SocketInv, Streams
    <3>2. CASE h = i
        BY <1>2, <1>4, <1>6, <1>7, <2>2, <3>1, <3>2
    <3>3. CASE h # i
      <4>1. e = connections[h] /\ e.from \in Sender
          BY <1>6, <2>2, <3>3, SocketFacts
      <4>2. ~(e.from = s /\ e.open)
          BY <1>1, <3>3, <4>1, OneOwn DEF Own
      <4>3. Unwritten(e)' = Unwritten(e)
          BY <1>2, <4>1, <4>2 DEF Unwritten
      <4>. QED
          BY <1>2, <3>1, <4>1, <4>3
    <3>. QED
        BY <3>2, <3>3
  <2>3. \A u \in Sender : step'[u] = "write" => num_byte_remain'[u] > 0
    <3>. SUFFICES ASSUME NEW u \in Sender, step'[u] = "write" PROVE num_byte_remain'[u] > 0
        OBVIOUS
    <3>1. CASE u = s
        BY <1>2, <3>1
    <3>2. CASE u # s
        BY <1>2, <3>2 DEF SocketInv, Streams
    <3>. QED
        BY <3>1, <3>2
  <2>. QED
      BY <1>6, <2>1, <2>2, <2>3 DEF Streams, Unwritten
<1>. QED
    BY <1>8, <1>9, <1>10, <1>11, SameStreamsStep

LEMMA AcceptStep ==
    ASSUME SocketInv, Accept
    PROVE  SocketInv'
<1>1. /\ listener = "accept" /\ listener' = "header" /\ connections # << >>
      /\ UNCHANGED <<step, sent, num_byte_remain, connections, nbytes, byte_to_read,
                     received, arrived>>
    BY DEF Accept, senderVars, readVars, vars
<1>2. SocketTypeOK' /\ Listening' /\ SameStreams
    BY <1>1 DEF SocketInv, SocketTypeOK, Listening, SameStreams, Reached, Exits
<1>3. \A i : Left(i)' = Left(i)
    BY <1>1 DEF Left, Total
<1>4. Streams'
    BY <1>1, <1>3 DEF SocketInv, Streams, Unwritten
<1>. QED
    BY <1>2, <1>4, SameStreamsStep

(* An incomplete header ends this process, and with it every connection. *)
LEMMA CheckHeaderStep ==
    ASSUME SocketInv, CheckHeader
    PROVE  SocketInv'
<1>1. /\ listener = "data" /\ byte_to_read = 0 /\ nbytes \in Nat
      /\ UNCHANGED <<step, sent, num_byte_remain, nbytes, byte_to_read, received, arrived>>
    BY DEF CheckHeader, AllRead, senderVars, readVars, vars, SocketInv, SocketTypeOK
<1>2. CASE HeaderRead
  <2>1. /\ nbytes >= HeaderSize /\ listener' = "add" /\ connections' = connections
        /\ connections # << >>
      BY <1>1, <1>2 DEF CheckHeader, HeaderRead, SocketInv, Listening
  <2>2. SocketTypeOK' /\ Listening' /\ SameStreams
      BY <1>1, <2>1 DEF SocketInv, SocketTypeOK, Listening, SameStreams, Reached, Exits
  <2>3. \A i : Left(i)' = Left(i)
      BY <1>1, <2>1 DEF Left, Total
  <2>4. Streams'
      BY <1>1, <2>1, <2>3 DEF SocketInv, Streams, Unwritten
  <2>. QED
      BY <2>2, <2>4, SameStreamsStep
<1>3. CASE ~HeaderRead
  <2>1. listener' = Exits /\ connections' = << >>
      BY <1>3 DEF CheckHeader
  <2>. QED
      BY <1>1, <2>1, EndStep
<1>. QED
    BY <1>2, <1>3

(* Steps of the processing thread, the last half of add_packet and the end. *)
LEMMA OtherStep ==
    ASSUME SocketInv, Link \/ ProcessingStep \/ Ended \/ UNCHANGED allVars
    PROVE  SocketInv'
<1>1. /\ UNCHANGED <<step, sent, num_byte_remain, connections, nbytes, byte_to_read,
                     received, arrived>>
      /\ listener' = listener \/ (listener = "link" /\ listener' = "accept")
    BY DEF Link, AddLink, ProcessingStep, Processing, StartPass, TestCount, GetPacket, Ended,
           allVars, socketVars, senderVars, readVars, vars
<1>2. SocketTypeOK' /\ Listening' /\ SameStreams
    BY <1>1 DEF SocketInv, SocketTypeOK, Listening, SameStreams, Reached, Exits
<1>3. \A i : Left(i)' = Left(i)
    BY <1>1 DEF Left, Total
<1>4. Streams'
    BY <1>1, <1>3 DEF SocketInv, Streams, Unwritten
<1>. QED
    BY <1>2, <1>4, SameStreamsStep

(* A connection begins empty, with the next packet of its sender. *)
LEMMA ConnectStep ==
    ASSUME SocketInv, NEW s \in Sender, Connect(s)
    PROVE  SocketInv'
<1>. SocketTypeOK
    BY DEF SocketInv
<1>. DEFINE n == Len(connections)
            c == [from |-> s, packet |-> sent[s] + 1, bytes |-> 0, open |-> TRUE,
                  kept |-> "all"]
<1>1. /\ step[s] = "connect" /\ listener # Exits /\ connections' = Append(connections, c)
      /\ UNCHANGED <<sent, listener, nbytes, byte_to_read, received, arrived>>
      /\ step' \in [Sender -> {"ready", "lookup", "connect", "write", Exits}]
      /\ step'[s] = "write" /\ \A u \in Sender : u # s => step'[u] = step[u]
    BY DEF Connect, readVars, vars, SocketTypeOK
<1>2. sent[s] \in Nat /\ sent[s] < Len(DataSize[s]) /\ n \in Nat
    BY <1>1, SocketFacts DEF SocketTypeOK
<1>3. sent[s] + 1 \in Packets(s) /\ DataSize[s][sent[s] + 1] \in Nat
  <2>1. DataSize[s] \in Seq(Nat)
      BY SocketAssumption
  <2>2. sent[s] + 1 \in 1 .. Len(DataSize[s])
      BY <1>2, <2>1, LenProperties
  <2>. QED
      BY <2>1, <2>2, ElementOfSeq DEF Packets
<1>4. c \in Connection /\ c.from = s /\ c.packet = sent[s] + 1 /\ c.bytes = 0 /\ c.open
    BY <1>2 DEF Connection, Kept
<1>. HIDE DEF c
<1>5. /\ Total(c) \in Nat /\ Total(c) > 0
      /\ num_byte_remain' \in [Sender -> Nat] /\ num_byte_remain'[s] = Total(c)
      /\ \A u \in Sender : u # s => num_byte_remain'[u] = num_byte_remain[u]
  <2>1. Total(c) = HeaderSize + DataSize[s][sent[s] + 1] /\ Total(c) \in Nat /\ Total(c) > 0
      BY <1>3, <1>4, SocketFacts DEF Total
  <2>2. num_byte_remain' = [num_byte_remain EXCEPT ![s] = Total(c)]
      BY <2>1 DEF Connect
  <2>. QED
      BY <2>1, <2>2 DEF SocketTypeOK
<1>6. /\ connections' \in Seq(Connection) /\ Len(connections') = n + 1 /\ connections' # << >>
      /\ \A i \in 1 .. n + 1 : connections'[i] = IF i = n + 1 THEN c ELSE connections[i]
    BY <1>1, <1>4, AppendAt DEF SocketTypeOK
<1>7. \A i \in 1 .. n : connections[i].from = s =>
         ~connections[i].open /\ connections[i].packet <= sent[s]
    BY <1>1 DEF SocketInv, Streams, Exits
<1>8. SocketTypeOK'
  <2>1. \A u \in Sender : step'[u] \in {"lookup", "connect", "write"} => sent'[u] < Len(DataSize[u])
      BY <1>1, <1>2 DEF SocketTypeOK
  <2>2. \A i \in 1 .. Len(connections') : connections'[i].packet \in Packets(connections'[i].from)
    <3>. SUFFICES ASSUME NEW i \in 1 .. n + 1
                  PROVE  connections'[i].packet \in Packets(connections'[i].from)
        BY <1>6
    <3>1. CASE i = n + 1
      <4>1. connections'[i] = c
          BY <1>6, <3>1
      <4>. QED
          BY <1>3, <1>4, <4>1
    <3>2. CASE i \in 1 .. n
      <4>1. connections'[i] = connections[i]
          BY <1>2, <1>6, <3>2
      <4>. QED
          BY <3>2, <4>1 DEF SocketTypeOK
    <3>. QED
        BY <1>2, <3>1, <3>2
  <2>. QED
      BY <1>1, <1>5, <1>6, <2>1, <2>2 DEF SocketTypeOK
<1>9. Listening'
  <2>1. connections # << >> => connections'[1] = connections[1]
    <3>. SUFFICES ASSUME connections # << >> PROVE connections'[1] = connections[1]
        OBVIOUS
    <3>1. 1 \in 1 .. n
        BY CurrentFacts
    <3>2. 1 \in 1 .. n + 1 /\ 1 # n + 1
        BY <1>2, <3>1
    <3>. QED
        BY <1>6, <3>2
  <2>. QED
      BY <1>1, <1>6, <2>1 DEF SocketInv, Listening
<1>10. /\ Ordered(connections', received)
       /\ \A u, p : Queued(connections, u, p) => Queued(connections', u, p)
  <2>1. /\ Got(received, s) \in Nat /\ Got(received, s) <= sent[s]
        /\ \A p \in Got(received, s) + 1 .. sent[s] : Queued(connections, s, p)
      BY <1>1, SocketFacts DEF SocketInv, NoneSkipped, Reached, Exits
  <2>2. c.packet > Got(received, c.from) /\ c.packet - 1 = sent[s]
      BY <1>2, <1>4, <2>1
  <2>3. \A i \in 1 .. n : connections[i].from = c.from => connections[i].packet < c.packet
      BY <1>2, <1>4, <1>7, SocketFacts
  <2>4. \A p \in Got(received, c.from) + 1 .. c.packet - 1 : Queued(connections, c.from, p)
      BY <1>4, <2>1, <2>2
  <2>. QED
      BY <1>1, <1>4, <2>2, <2>3, <2>4, OneMore DEF SocketInv, SocketTypeOK
<1>11. NoneSkipped'
  <2>. SUFFICES ASSUME NEW u \in Sender, step'[u] # Exits
                PROVE  /\ Got(received, u) <= Reached(u)'
                       /\ \A p \in Got(received, u) + 1 .. Reached(u)' : Queued(connections', u, p)
      BY <1>1 DEF NoneSkipped
  <2>1. /\ Got(received, u) \in Nat /\ Got(received, u) <= Reached(u)
        /\ \A p \in Got(received, u) + 1 .. Reached(u) : Queued(connections', u, p)
      BY <1>1, <1>10, SocketFacts DEF SocketInv, NoneSkipped, Exits
  <2>2. CASE u = s
    <3>1. Reached(u) = sent[s] /\ Reached(u)' = sent[s] + 1
        BY <1>1, <2>2 DEF Reached
    <3>2. Queued(connections', s, sent[s] + 1)
        BY <1>2, <1>4, <1>6 DEF Queued
    <3>3. \A p \in Got(received, u) + 1 .. sent[s] + 1 :
             p = sent[s] + 1 \/ p \in Got(received, u) + 1 .. sent[s]
        BY <1>2, <2>1
    <3>. QED
        BY <1>2, <2>1, <2>2, <3>1, <3>2, <3>3
  <2>3. CASE u # s
      BY <1>1, <2>1, <2>3 DEF Reached
  <2>. QED
      BY <2>2, <2>3
<1>12. WholeAndInOrder'
    BY <1>1 DEF SocketInv, WholeAndInOrder
<1>13. Streams'
  <2>1. ASSUME NEW i \in 1 .. n + 1, NEW e, e = connections'[i]
        PROVE  /\ e.open => step'[e.from] = "write" /\ e.packet = sent'[e.from] + 1
               /\ ~e.open /\ step'[e.from] # Exits => e.packet <= sent'[e.from]
               /\ e.kept = "all" => e.bytes + Unwritten(e)' <= Left(i)'
    <3>1. CASE i = n + 1
      <4>1. e = c
          BY <1>6, <2>1, <3>1
      <4>2. Unwritten(e)' = Total(c)
          BY <1>4, <1>5, <4>1 DEF Unwritten
      <4>3. Left(i)' = Total(c)
        <5>1. i = 1 => connections = << >>
            BY <1>2, <3>1, EmptySeq DEF SocketTypeOK
        <5>2. ~(i = 1 /\ listener' \in {"data", "add"})
            BY <1>1, <5>1 DEF SocketInv, Listening
        <5>. QED
            BY <1>6, <3>1, <5>2 DEF Left, Total
      <4>. QED
          BY <1>1, <1>4, <1>5, <4>1, <4>2, <4>3
    <3>2. CASE i \in 1 .. n
      <4>1. /\ e = connections[i] /\ e.from \in Sender /\ (e.open => e.from # s)
          BY <1>6, <1>7, <2>1, <3>2, SocketFacts
      <4>2. /\ e.open => step[e.from] = "write" /\ e.packet = sent[e.from] + 1
            /\ ~e.open /\ step[e.from] # Exits => e.packet <= sent[e.from]
            /\ e.kept = "all" => e.bytes + Unwritten(e) <= Left(i)
          BY <3>2, <4>1 DEF SocketInv, Streams
      <4>3. Unwritten(e)' = Unwritten(e)
          BY <1>5, <4>1 DEF Unwritten
      <4>4. Left(i)' = Left(i)
          BY <1>1, <2>1, <4>1 DEF Left, Total
      <4>5. e.from = s => e.packet <= sent[s]
          BY <1>7, <3>2, <4>1
      <4>. QED
          BY <1>1, <4>1, <4>2, <4>3, <4>4, <4>5
    <3>. QED
        BY <1>2, <3>1, <3>2
  <2>2. \A u \in Sender : step'[u] = "write" => num_byte_remain'[u] > 0
    <3>. SUFFICES ASSUME NEW u \in Sender, step'[u] = "write" PROVE num_byte_remain'[u] > 0
        OBVIOUS
    <3>1. CASE u = s
        BY <1>5, <3>1
    <3>2. CASE u # s
        BY <1>1, <1>5, <3>2 DEF SocketInv, Streams
    <3>. QED
        BY <3>1, <3>2
  <2>. QED
      BY <1>6, <2>1, <2>2 DEF Streams, Unwritten
<1>. QED
    BY <1>1, <1>8, <1>9, <1>10, <1>11, <1>12, <1>13 DEF SocketInv

(* The packet goes to the queue: if all of it was kept, all its bytes have *)
(* been read, so that nothing is left in the connection.                   *)
LEMMA DeliverStep ==
    ASSUME SocketInv, Deliver
    PROVE  SocketInv'
<1>. SocketTypeOK
    BY DEF SocketInv
<1>. DEFINE n == Len(connections)
            c == connections[1]
            m == Len(received)
            e == [from |-> c.from, packet |-> c.packet, kept |-> c.kept, holds |-> Holds]
<1>1. /\ listener = "add" /\ listener' = "link" /\ connections # << >>
      /\ nbytes >= HeaderSize /\ byte_to_read = 0 /\ nbytes' = 0 /\ nbytes \in Nat
      /\ connections[1].kept # "none" => nbytes <= HeaderSize
      /\ connections' = Tail(connections) /\ arrived' = arrived + 1
      /\ UNCHANGED <<step, sent, num_byte_remain, byte_to_read>>
    BY DEF Deliver, AddCount, senderVars, SocketInv, SocketTypeOK, Listening
<1>2. /\ n \in Nat /\ 1 \in 1 .. n /\ current = c /\ c \in Connection /\ c.from \in Sender
      /\ c.packet \in Nat /\ c.bytes \in Nat /\ HeaderSize \in Nat /\ c.kept \in Kept
  <2>1. n \in Nat /\ 1 \in 1 .. n /\ current = c
      BY <1>1, SocketFacts, EmptySeq DEF current, SocketTypeOK
  <2>. QED
      BY <2>1, SocketFacts
<1>3. Holds = c.kept
  <2>1. CASE c.kept = "none"
      BY <1>2, <2>1 DEF Holds
  <2>2. CASE c.kept = "header"
      BY <1>1, <1>2, <2>2 DEF Holds
  <2>3. CASE c.kept = "all"
    <3>1. Left(1) = 0 /\ c.bytes + Unwritten(c) <= Left(1)
      <4>1. nbytes = HeaderSize
          BY <1>1, <1>2, <2>3
      <4>. QED
          BY <1>1, <1>2, <2>3, <4>1 DEF Left, SocketInv, Streams
    <3>2. Unwritten(c) \in Nat
        BY <1>2 DEF Unwritten, SocketTypeOK
    <3>3. c.bytes = 0
        BY <1>2, <3>1, <3>2
    <3>. QED
        BY <1>1, <1>2, <2>3, <3>3 DEF Holds
  <2>. QED
      BY <1>2, <2>1, <2>2, <2>3 DEF Kept
<1>4. e \in Receipt /\ received' = Append(received, e) /\ e.from = c.from
      /\ e.packet = c.packet /\ e.holds = e.kept
  <2>1. e = [from |-> c.from, packet |-> c.packet, kept |-> c.kept, holds |-> c.kept]
      BY <1>3
  <2>2. received' = Append(received, e)
      BY <1>2 DEF Deliver
  <2>. HIDE DEF e
  <2>. QED
      BY <1>2, <2>1, <2>2 DEF Receipt
<1>. HIDE DEF e
<1>5. /\ connections' \in Seq(Connection) /\ Len(connections') = n - 1
      /\ \A i \in 1 .. n - 1 : connections'[i] = connections[i + 1]
    BY <1>1, TailAt DEF SocketTypeOK
<1>6. /\ m \in Nat /\ received' \in Seq(Receipt) /\ Len(received') = m + 1
      /\ \A i \in 1 .. m + 1 : received'[i] = IF i = m + 1 THEN e ELSE received[i]
  <2>1. received \in Seq(Receipt)
      BY DEF SocketTypeOK
  <2>. QED
      BY <1>4, <2>1, AppendAt, LenProperties
<1>7. /\ c.packet = Got(received, c.from) + 1
      /\ Ordered(connections', received')
      /\ \A s : \A p \in Nat : Queued(connections, s, p) /\ p > Got(received', s)
                                  => Queued(connections', s, p)
    BY <1>1, <1>4, OneLess DEF SocketInv, SocketTypeOK
<1>8. \A s : /\ Got(received, s) \in Nat
             /\ Got(received', s) = Got(received, s) + (IF c.from = s THEN 1 ELSE 0)
    BY <1>4, GotNext DEF SocketTypeOK
<1>9. SocketTypeOK'
  <2>1. \A i \in 1 .. Len(connections') : connections'[i].packet \in Packets(connections'[i].from)
    <3>. SUFFICES ASSUME NEW i \in 1 .. n - 1
                  PROVE  connections'[i].packet \in Packets(connections'[i].from)
        BY <1>5
    <3>1. connections'[i] = connections[i + 1] /\ i + 1 \in 1 .. n
        BY <1>2, <1>5
    <3>. QED
        BY <3>1 DEF SocketTypeOK
  <2>. QED
      BY <1>1, <1>5, <1>6, <2>1 DEF SocketTypeOK
<1>10. Listening'
    BY <1>1 DEF Listening, Exits
<1>11. NoneSkipped'
  <2>. SUFFICES ASSUME NEW s \in Sender, step[s] # Exits
                PROVE  /\ Got(received', s) <= Reached(s)
                       /\ \A p \in Got(received', s) + 1 .. Reached(s) : Queued(connections', s, p)
      BY <1>1 DEF NoneSkipped, Reached
  <2>1. /\ sent[s] \in Nat /\ Reached(s) \in Nat /\ sent[s] <= Reached(s)
        /\ step[s] = "write" => Reached(s) = sent[s] + 1
      BY DEF SocketTypeOK, Reached
  <2>2. /\ Got(received, s) <= Reached(s)
        /\ \A p \in Got(received, s) + 1 .. Reached(s) : Queued(connections, s, p)
      BY <1>1 DEF SocketInv, NoneSkipped, Exits
  <2>3. c.from = s => c.packet <= Reached(s)
    <3>1. CASE c.open
        BY <1>2, <2>1, <3>1 DEF SocketInv, Streams
    <3>2. CASE ~c.open
      <4>1. c.from = s => c.packet <= sent[s]
          BY <1>2, <3>2 DEF SocketInv, Streams
      <4>. QED
          BY <1>2, <2>1, <4>1
    <3>. QED
        BY <3>1, <3>2
  <2>4. Got(received', s) <= Reached(s)
      BY <1>2, <1>7, <1>8, <2>1, <2>2, <2>3
  <2>5. ASSUME NEW p \in Got(received', s) + 1 .. Reached(s) PROVE Queued(connections', s, p)
    <3>1. p \in Nat /\ p > Got(received', s) /\ p \in Got(received, s) + 1 .. Reached(s)
        BY <1>8, <2>1
    <3>. QED
        BY <1>7, <2>2, <3>1
  <2>. QED
      BY <2>4, <2>5
<1>12. WholeAndInOrder'
  <2>1. DOMAIN received = 1 .. m /\ DOMAIN received' = 1 .. m + 1
      BY <1>6, LenProperties DEF SocketTypeOK
  <2>2. Len(received') = arrived'
      BY <1>1, <1>6 DEF SocketInv, WholeAndInOrder
  <2>3. ASSUME NEW i \in 1 .. m + 1
        PROVE  LET r == received'[i]
               IN  /\ r.holds = r.kept
                   /\ r.packet = 1 + Cardinality({h \in 1 .. i - 1 : received'[h].from = r.from})
    <3>. DEFINE Earlier(r, f) == {h \in 1 .. i - 1 : r[h].from = f}
    <3>1. \A f : Earlier(received', f) = Earlier(received, f)
        BY <1>6
    <3>2. i = m + 1 => \A f : Earlier(received, f) = {h \in 1 .. m : received[h].from = f}
        BY <1>6
    <3>3. CASE i = m + 1
      <4>1. received'[i] = e
          BY <1>6, <3>3
      <4>2. Cardinality(Earlier(received, e.from)) = Got(received, e.from)
          BY <3>2, <3>3 DEF Got
      <4>. HIDE DEF Earlier
      <4>3. /\ e.holds = e.kept
            /\ e.packet = 1 + Cardinality(Earlier(received', e.from))
          BY <1>4, <1>7, <1>8, <3>1, <4>2
      <4>4. LET r == received'[i]
            IN  /\ r.holds = r.kept
                /\ r.packet = 1 + Cardinality(Earlier(received', r.from))
          BY <4>1, <4>3
      <4>. QED
          BY <4>4 DEF Earlier
    <3>4. CASE i \in 1 .. m
      <4>1. received'[i] = received[i]
          BY <1>6, <3>4
      <4>2. LET r == received[i]
            IN  /\ r.holds = r.kept
                /\ r.packet = 1 + Cardinality(Earlier(received, r.from))
          BY <2>1, <3>4 DEF SocketInv, WholeAndInOrder
      <4>. HIDE DEF Earlier
      <4>3. Earlier(received', received[i].from) = Earlier(received, received[i].from)
          BY <3>1
      <4>4. LET r == received'[i]
            IN  /\ r.holds = r.kept
                /\ r.packet = 1 + Cardinality(Earlier(received', r.from))
          BY <4>1, <4>2, <4>3
      <4>. QED
          BY <4>4 DEF Earlier
    <3>5. i = m + 1 \/ i \in 1 .. m
        BY <1>6
    <3>. QED
        BY <3>3, <3>4, <3>5
  <2>. QED
      BY <2>1, <2>2, <2>3 DEF WholeAndInOrder
<1>13. Streams'
  <2>1. ASSUME NEW i \in 1 .. n - 1, NEW d, d = connections'[i]
        PROVE  /\ d.open => step'[d.from] = "write" /\ d.packet = sent'[d.from] + 1
               /\ ~d.open /\ step'[d.from] # Exits => d.packet <= sent'[d.from]
               /\ d.kept = "all" => d.bytes + Unwritten(d)' <= Left(i)'
    <3>1. d = connections[i + 1] /\ i + 1 \in 1 .. n /\ i + 1 # 1
        BY <1>2, <1>5, <2>1
    <3>2. /\ d.open => step[d.from] = "write" /\ d.packet = sent[d.from] + 1
          /\ ~d.open /\ step[d.from] # Exits => d.packet <= sent[d.from]
          /\ d.kept = "all" => d.bytes + Unwritten(d) <= Left(i + 1)
        BY <3>1 DEF SocketInv, Streams
    <3>3. Left(i)' = Left(i + 1)
        BY <1>1, <2>1, <3>1 DEF Left, Total
    <3>4. Unwritten(d)' = Unwritten(d)
        BY <1>1, <2>1 DEF Unwritten
    <3>. QED
        BY <1>1, <3>2, <3>3, <3>4
  <2>2. \A u \in Sender : step'[u] = "write" => num_byte_remain'[u] > 0
      BY <1>1 DEF SocketInv, Streams
  <2>. QED
      BY <1>5, <2>1, <2>2 DEF Streams, Unwritten
<1>. QED
    BY <1>7, <1>9, <1>10, <1>11, <1>12, <1>13 DEF SocketInv

LEMMA SocketInvInit == SocketInit => SocketInv
<1>. SUFFICES ASSUME SocketInit PROVE SocketInv
    OBVIOUS
<1>1. /\ connections = << >> /\ received = << >> /\ Len(connections) = 0 /\ Len(received) = 0
      /\ arrived = 0 /\ listener = "accept"
    BY DEF SocketInit, Init
<1>2. SocketTypeOK
    BY <1>1, EmptySeq DEF SocketInit, SocketTypeOK
<1>3. Listening /\ Streams
    BY <1>1 DEF SocketInit, Listening, Streams, Exits
<1>4. \A s : Got(received, s) = 0
  <2>1. \A s : {h \in 1 .. 0 : received[h].from = s} = {}
      OBVIOUS
  <2>. QED
      BY <1>1, <2>1, FS_EmptySet DEF Got
<1>5. Ordered(connections, received) /\ NoneSkipped
    BY <1>1, <1>4 DEF SocketInit, Ordered, NoneSkipped, Reached
<1>6. WholeAndInOrder
    BY <1>1, LenProperties DEF WholeAndInOrder
<1>. QED
    BY <1>2, <1>3, <1>5, <1>6 DEF SocketInv

(* What the peer has received of one sender is what it sent first, once    *)
(* and in order, whichever connections failed or were cut; each packet is  *)
(* what failed reads and writes of its own bytes have kept of it, whole if *)
(* none of them failed.                                                    *)
THEOREM PacketsWholeAndInOrder == SocketSpec => []WholeAndInOrder
<1>1. SocketInv /\ [SocketNext]_allVars => SocketInv'
  <2>. SUFFICES ASSUME SocketInv, [SocketNext]_allVars PROVE SocketInv'
      OBVIOUS
  <2>1. ASSUME NEW s \in Sender, SenderStep(s) \/ Dies(s) PROVE SocketInv'
      BY <2>1, QuietSenderStep, ConnectStep, WriteStep, WriteToNobodyStep, DiesStep DEF SenderStep
  <2>2. CASE ListenerStep
      BY <2>2, AcceptStep, ReadHeaderStep, ReadDataStep, CheckHeaderStep, DeliverStep, OtherStep
      DEF ListenerStep
  <2>3. CASE CallFails
      BY <2>3, WriteFailsStep, ReadHeaderFailsStep, ReadDataFailsStep DEF CallFails
  <2>4. CASE ProcessingStep \/ Ended \/ UNCHANGED allVars
      BY <2>4, OtherStep
  <2>. QED
      BY <2>1, <2>2, <2>3, <2>4 DEF SocketNext
<1>2. SocketInv => WholeAndInOrder
    BY DEF SocketInv
<1>. QED
    BY <1>1, <1>2, SocketInvInit, PTL DEF SocketSpec
=============================================================================
