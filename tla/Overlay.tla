------------------------------- MODULE Overlay -------------------------------
(***************************************************************************)
(* How the overlay of WorkStealing comes about: the manager of             *)
(* src/work_stealing/manager.cpp numbers the peers in the order in which   *)
(* it handles their join requests, gives each a parent, and when the last  *)
(* one has joined tells every peer who the others are and then starts      *)
(* them.  The peers' side is in node.cpp and protocol.cpp.                 *)
(***************************************************************************)
EXTENDS Integers, Sequences, FiniteSets

CONSTANTS
    Peer,           \* the processes, by the address they listen on
    nchilds         \* degree of the tree, option -c

number_of_peers == Cardinality(Peer)

ASSUME ManagerAssumption ==
    /\ IsFiniteSet(Peer) /\ Peer # {}
    /\ nchilds \in Nat \ {0}

VARIABLES
    joins,                  \* join requests the manager has not handled
    current_peers,          \* id of the last peer to join, -1 before
    current_parent_id,      \* the parent being filled
    current_parent_nchilds, \* how many children it has
    peers_data,             \* what the manager knows of each id
    phase,                  \* "joining", "ips", "triggers" or "exited"
    sentTo,                 \* peers the broadcast of this phase has reached
    started,                \* the process has sent its join request
    id, parent,             \* the peer's own id and its parent, -1 unknown
    children,               \* its list of child_t, in order of arrival
    random_pool,            \* random_pool_of_nodes
    trigger,
    fromManager,            \* packets from the manager, in order
    addRequests,            \* ids whose ADD_REQUEST is on its way to the peer
    sleepsSuffice           \* the manager's sleep(15) and sleep(10) outlast the
                            \* packets on their way when they begin; it is
                            \* chosen at the start

managerVars == <<current_peers, current_parent_id, current_parent_nchilds, peers_data>>
peerVars == <<id, parent, children, random_pool, trigger>>
vars == <<joins, managerVars, phase, sentTo, started, peerVars, fromManager, addRequests,
          sleepsSuffice>>

Ids == 0 .. number_of_peers - 1
Joined == 0 .. current_peers

JoiningData(i, p) == [type |-> "JOINING_DATA", id |-> i, parent |-> p]
BroadcastIp == [type |-> "BROADCAST_IP"]
TriggerSignal == [type |-> "TRIGGER"]

Init ==
    /\ joins = << >>
    /\ current_peers = -1
    /\ current_parent_id = 0
    /\ current_parent_nchilds = 0
    /\ peers_data = << >>
    /\ phase = "joining"
    /\ sentTo = 0
    /\ started = [p \in Peer |-> FALSE]
    /\ id = [p \in Peer |-> -1]
    /\ parent = [p \in Peer |-> -1]
    /\ children = [p \in Peer |-> << >>]
    /\ random_pool = [p \in Peer |-> {}]
    /\ trigger = [p \in Peer |-> FALSE]
    /\ fromManager = [p \in Peer |-> << >>]
    /\ addRequests = [p \in Peer |-> {}]
    /\ sleepsSuffice \in BOOLEAN

(* Protocol::run: the listener is up, ask the manager to join. *)
SendJoinRequest(p) ==
    /\ ~started[p]
    /\ started' = [started EXCEPT ![p] = TRUE]
    /\ joins' = Append(joins, p)
    /\ UNCHANGED <<managerVars, phase, sentTo, peerVars, fromManager, addRequests, sleepsSuffice>>

(* Mutant of HasRoom: a parent takes one child too many. *)
HasRoomForOneMore == current_parent_nchilds <= nchilds

HasRoom == current_parent_nchilds < nchilds

(* Mutant of Childs: the child is listed under the parent that was full. *)
ChildsStale(i, new, under) ==
    IF i = current_parent_id /\ i # new
    THEN Append(peers_data[i].childs, new) ELSE peers_data[i].childs

(* The childs of peer i once new is placed under its parent. *)
Childs(i, new, under) ==
    IF i = under /\ under # new
    THEN Append(peers_data[i].childs, new) ELSE peers_data[i].childs

(* handle_join_request: the first peer is the root and its own parent; a   *)
(* later one goes under the current parent, or under the next id when that *)
(* one has nchilds children.                                               *)
HandleJoinRequest ==
    /\ phase = "joining"
    /\ joins # << >>
    /\ joins' = Tail(joins)
    /\ current_peers' = current_peers + 1
    /\ LET new == current_peers'
           host == Head(joins)
           under == IF new = 0 \/ HasRoom THEN current_parent_id ELSE current_parent_id + 1
           Entry(i) ==
              IF i = new
              THEN [host |-> host, parent_id |-> under, childs |-> << >>,
                    height |-> IF under = new THEN 0 ELSE peers_data[under].height + 1]
              ELSE [peers_data[i] EXCEPT !.childs = Childs(i, new, under)]
       IN  /\ current_parent_id' = under
           /\ current_parent_nchilds' =
                 IF new = 0 THEN 0 ELSE IF HasRoom THEN current_parent_nchilds + 1 ELSE 1
           /\ peers_data' = [i \in 0 .. new |-> Entry(i)]
           /\ fromManager' =
                 [fromManager EXCEPT ![host] = Append(@, JoiningData(new, under))]
           /\ phase' = IF new = number_of_peers - 1 THEN "ips" ELSE phase
    /\ UNCHANGED <<sentTo, started, peerVars, addRequests, sleepsSuffice>>

(* Mutant of Settled: the manager does not sleep. *)
SettledAtOnce(type) == TRUE

(* The sleep before a broadcast: if the sleeps suffice no packet of type is   *)
(* left on its way, and no ADD_REQUEST.                                    *)
Settled(type) ==
    sleepsSuffice /\ sentTo = 0 =>
        \A p \in Peer :
            /\ \A i \in 1 .. Len(fromManager[p]) : fromManager[p][i].type # type
            /\ addRequests[p] = {}

(* Mutant of SendNext: the last peer is left out. *)
SendNextButLast(m, nextPhase) ==
    /\ fromManager' = [fromManager EXCEPT ![peers_data[sentTo].host] = Append(@, m)]
    /\ IF sentTo = number_of_peers - 2
       THEN phase' = nextPhase /\ sentTo' = 0
       ELSE sentTo' = sentTo + 1 /\ UNCHANGED phase
    /\ UNCHANGED <<joins, managerVars, started, peerVars, addRequests, sleepsSuffice>>

(* One send of a broadcast to peers_data[0], peers_data[1], ... *)
SendNext(m, nextPhase) ==
    /\ fromManager' = [fromManager EXCEPT ![peers_data[sentTo].host] = Append(@, m)]
    /\ IF sentTo = number_of_peers - 1
       THEN phase' = nextPhase /\ sentTo' = 0
       ELSE sentTo' = sentTo + 1 /\ UNCHANGED phase
    /\ UNCHANGED <<joins, managerVars, started, peerVars, addRequests, sleepsSuffice>>

SendBroadcastIp ==
    /\ phase = "ips"
    /\ Settled("JOINING_DATA")
    /\ SendNext(BroadcastIp, "triggers")

SendTriggerSignal ==
    /\ phase = "triggers"
    /\ Settled("BROADCAST_IP")
    /\ SendNext(TriggerSignal, "exited")

-----------------------------------------------------------------------------
(* The peers.                                                              *)

FromManager(p, type) == fromManager[p] # << >> /\ Head(fromManager[p]).type = type

(* recvJoiningData, then sendAddRequest when there is a parent. *)
RecvJoiningData(p) ==
    /\ FromManager(p, "JOINING_DATA")
    /\ LET m == Head(fromManager[p])
       IN  /\ id' = [id EXCEPT ![p] = m.id]
           /\ parent' = [parent EXCEPT ![p] = IF m.id > 0 THEN m.parent ELSE -1]
           /\ addRequests' =
                 IF m.id > 0
                 THEN [addRequests EXCEPT ![peers_data[m.parent].host] = @ \cup {m.id}]
                 ELSE addRequests
    /\ fromManager' = [fromManager EXCEPT ![p] = Tail(@)]
    /\ UNCHANGED <<joins, managerVars, phase, sentTo, started, children, random_pool, trigger, sleepsSuffice>>

(* Mutant of RecvNewChild: a registration that comes before the node has   *)
(* its own id is taken for the node's own.                                 *)
RecvNewChildEarly(p, c) ==
    /\ c \in addRequests[p]
    /\ addRequests' = [addRequests EXCEPT ![p] = @ \ {c}]
    /\ children' = [children EXCEPT ![p] = IF id[p] \in {c, -1} THEN @ ELSE Append(@, c)]
    /\ UNCHANGED <<joins, managerVars, phase, sentTo, started, id, parent, random_pool,
                   trigger, fromManager, sleepsSuffice>>

(* "to not to add itself as child" *)
RecvNewChild(p, c) ==
    /\ c \in addRequests[p]
    /\ addRequests' = [addRequests EXCEPT ![p] = @ \ {c}]
    /\ children' = [children EXCEPT ![p] = IF id[p] = c THEN @ ELSE Append(@, c)]
    /\ UNCHANGED <<joins, managerVars, phase, sentTo, started, id, parent, random_pool,
                   trigger, fromManager, sleepsSuffice>>

RecvBroadcastIp(p) ==
    /\ FromManager(p, "BROADCAST_IP")
    /\ random_pool' = [random_pool EXCEPT ![p] = Ids \ {id[p]}]
    /\ fromManager' = [fromManager EXCEPT ![p] = Tail(@)]
    /\ UNCHANGED <<joins, managerVars, phase, sentTo, started, id, parent, children,
                   trigger, addRequests, sleepsSuffice>>

RecvTrigger(p) ==
    /\ FromManager(p, "TRIGGER")
    /\ trigger' = [trigger EXCEPT ![p] = TRUE]
    /\ fromManager' = [fromManager EXCEPT ![p] = Tail(@)]
    /\ UNCHANGED <<joins, managerVars, phase, sentTo, started, id, parent, children,
                   random_pool, addRequests, sleepsSuffice>>

Manager == HandleJoinRequest \/ SendBroadcastIp \/ SendTriggerSignal

PeerStep(p) ==
    \/ SendJoinRequest(p)
    \/ RecvJoiningData(p)
    \/ \E c \in Ids : RecvNewChild(p, c)
    \/ RecvBroadcastIp(p)
    \/ RecvTrigger(p)

(* The manager has exited and the peers are at work. *)
Running ==
    /\ \A p \in Peer : trigger[p]
    /\ UNCHANGED vars

Next == Manager \/ (\E p \in Peer : PeerStep(p)) \/ Running

Spec == Init /\ [][Next]_vars

(* Every process runs; a peer's loop takes each packet off its queue. *)
FairSpec ==
    /\ Spec
    /\ WF_vars(Manager)
    /\ \A p \in Peer :
          /\ WF_vars(SendJoinRequest(p))
          /\ WF_vars(RecvJoiningData(p) \/ RecvBroadcastIp(p) \/ RecvTrigger(p))
          /\ WF_vars(\E c \in Ids : RecvNewChild(p, c))

-----------------------------------------------------------------------------
(* Properties.                                                             *)

(***************************************************************************)
(* "each node has 10 children at max" (README.md): the manager builds the  *)
(* complete tree of degree nchilds in level order, so ids grow downwards   *)
(* and the depth is minimal.                                               *)
(***************************************************************************)
CompleteTree ==
    \A i \in Joined \ {0} : peers_data[i].parent_id = (i - 1) \div nchilds

(***************************************************************************)
(* The manager's three views of the tree agree: parent_id, the childs of   *)
(* the parent in order of their ids, and the heights.                      *)
(***************************************************************************)
ViewsAgree ==
    \A i \in Joined :
        LET mine == {c \in Joined \ {0} : peers_data[c].parent_id = i}
            childs == peers_data[i].childs
        IN  /\ Len(childs) = Cardinality(mine)
            /\ {childs[k] : k \in 1 .. Len(childs)} = mine
            /\ \A k \in 1 .. Len(childs) - 1 : childs[k] < childs[k + 1]
            /\ \A c \in mine : peers_data[c].height = peers_data[i].height + 1

ChildrenOf(p) == {children[p][k] : k \in 1 .. Len(children[p])}

(***************************************************************************)
(* No registration is lost or repeated: a peer that knows its parent is in *)
(* the parent's list once, or its ADD_REQUEST is still on its way.         *)
(***************************************************************************)
RegisteredOnce ==
    \A i \in Joined \ {0} :
        LET p == peers_data[peers_data[i].parent_id].host
            places == Cardinality({k \in 1 .. Len(children[p]) : children[p][k] = i})
                      + (IF i \in addRequests[p] THEN 1 ELSE 0)
        IN  places = (IF id[peers_data[i].host] = i THEN 1 ELSE 0)

(***************************************************************************)
(* What WorkStealing starts from: once a peer is triggered, every peer has *)
(* registered all its children and knows every other peer.  It rests on    *)
(* the sleeps, the manager waits for nothing else.                         *)
(***************************************************************************)
StartsComplete ==
    sleepsSuffice /\ (\E p \in Peer : trigger[p]) =>
        \A i \in Ids :
            LET p == peers_data[i].host
            IN  /\ id[p] = i
                /\ ChildrenOf(p) = {c \in Ids \ {0} : peers_data[c].parent_id = i}
                /\ \A c \in ChildrenOf(p) : parent[peers_data[c].host] = i
                /\ random_pool[p] = Ids \ {i}

(* Every peer is started. *)
EveryPeerStarts == <>(\A p \in Peer : trigger[p])
=============================================================================
