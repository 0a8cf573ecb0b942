----------------------------- MODULE PacketQueue -----------------------------
(***************************************************************************)
(* The packets container of src/work_stealing/packets.cpp and its two      *)
(* users: the listener thread adds every packet it has read from a socket  *)
(* (receive_remote_msg), the processing thread takes them off in passes    *)
(* (cpuProcessingIncomingPackets).  add_packet and get_packet hold one     *)
(* mutex; the pass reads number_of_packets without it.                     *)
(***************************************************************************)
EXTENDS Naturals, Sequences, FiniteSets

CONSTANTS
    Container,  \* the addresses malloc may return for a packet_container_t
    NULL,
    MaxPackets  \* bound on the packets that arrive

ASSUME ContainerAssumption == NULL \notin Container /\ MaxPackets \in Nat

VARIABLES
    number_of_packets, first_container, last_container,
    next_container, previous_container, data_packet,    \* fields, by address
    allocated,      \* the containers malloc has handed out
    adding,         \* the container the listener is linking in, or NULL: it
                    \* is not NULL exactly while the listener holds the mutex
    pass,           \* processing thread: "over", "test" or "get"
    j,              \* its loop index
    arrived,        \* packets read so far; packets are numbered by arrival
    handled,        \* the packets given to a handler, in order
    chain,          \* auxiliary: the linked containers, first to last
    atStart         \* auxiliary: packets waiting and handled as the pass began

listVars == <<number_of_packets, first_container, last_container, next_container,
              previous_container, data_packet, allocated, chain>>
passVars == <<pass, j, atStart>>
vars == <<listVars, passVars, adding, arrived, handled>>

Init ==
    /\ number_of_packets = 0
    /\ first_container = NULL
    /\ last_container = NULL
    /\ next_container = [c \in Container |-> NULL]
    /\ previous_container = [c \in Container |-> NULL]
    /\ data_packet = [c \in Container |-> 0]
    /\ allocated = {}
    /\ adding = NULL
    /\ pass = "over"
    /\ j = 0
    /\ arrived = 0
    /\ handled = << >>
    /\ chain = << >>
    /\ atStart = [waiting |-> 0, handled |-> 0]

MutexFree == adding = NULL

(* The first half of add_packet: the count is already visible to the       *)
(* unlocked test of the pass while the container is not linked yet.        *)
AddCount ==
    /\ MutexFree
    /\ arrived < MaxPackets
    /\ arrived' = arrived + 1
    /\ \E c \in Container \ allocated :
          /\ adding' = c
          /\ allocated' = allocated \cup {c}
          /\ data_packet' = [data_packet EXCEPT ![c] = arrived']
    /\ number_of_packets' = number_of_packets + 1
    /\ UNCHANGED <<first_container, last_container, next_container,
                   previous_container, chain, passVars, handled>>

(* Mutant of AddLink: the new container is linked in front. *)
AddLinkInFront ==
    /\ ~MutexFree
    /\ first_container' = adding
    /\ last_container' = IF number_of_packets = 1 THEN adding ELSE last_container
    /\ next_container' = [next_container EXCEPT ![adding] = first_container]
    /\ previous_container' =
          IF number_of_packets = 1 THEN previous_container
          ELSE [previous_container EXCEPT ![first_container] = adding]
    /\ chain' = <<adding>> \o chain
    /\ adding' = NULL
    /\ UNCHANGED <<number_of_packets, data_packet, allocated, passVars, arrived, handled>>

(* The second half: "if it is the only packet at this moment", or linked   *)
(* behind the last one.                                                    *)
AddLink ==
    /\ ~MutexFree
    /\ last_container' = adding
    /\ IF number_of_packets = 1
       THEN /\ first_container' = adding
            /\ next_container' = [next_container EXCEPT ![adding] = NULL]
            /\ previous_container' = [previous_container EXCEPT ![adding] = NULL]
       ELSE /\ next_container' =
                  [next_container EXCEPT ![adding] = NULL, ![last_container] = adding]
            /\ previous_container' = [previous_container EXCEPT ![adding] = last_container]
            /\ UNCHANGED first_container
    /\ chain' = Append(chain, adding)
    /\ adding' = NULL
    /\ UNCHANGED <<number_of_packets, data_packet, allocated, passVars, arrived, handled>>

StartPass ==
    /\ pass = "over"
    /\ pass' = "test"
    /\ j' = 0
    /\ atStart' = [waiting |-> Len(chain), handled |-> Len(handled)]
    /\ UNCHANGED <<listVars, adding, arrived, handled>>

(* Mutant of TestCount: the last packet is left for the next pass. *)
TestCountShort ==
    /\ pass = "test"
    /\ pass' = IF j + 1 < number_of_packets THEN "get" ELSE "over"
    /\ UNCHANGED <<listVars, j, atStart, adding, arrived, handled>>

(* j < number_of_packets, read without the mutex. *)
TestCount ==
    /\ pass = "test"
    /\ pass' = IF j < number_of_packets THEN "get" ELSE "over"
    /\ UNCHANGED <<listVars, j, atStart, adding, arrived, handled>>

(* Mutant of Unlink: last_container is left pointing at freed memory. *)
UnlinkDangling ==
    IF number_of_packets = 1
    THEN first_container' = NULL /\ UNCHANGED <<last_container, previous_container>>
    ELSE /\ first_container' = next_container[first_container]
         /\ previous_container' =
               [previous_container EXCEPT ![next_container[first_container]] = NULL]
         /\ UNCHANGED last_container

(* get_packet frees the first container ... *)
Unlink ==
    IF number_of_packets = 1
    THEN /\ first_container' = NULL
         /\ last_container' = NULL
         /\ UNCHANGED previous_container
    ELSE /\ first_container' = next_container[first_container]
         /\ previous_container' =
               [previous_container EXCEPT ![next_container[first_container]] = NULL]
         /\ UNCHANGED last_container

(* Mutant of Remaining: both branches that follow lower the count again. *)
RemainingTwice == number_of_packets - 2

(* ... and lowers the count, unless there is nothing to get. *)
Remaining == IF number_of_packets > 0 THEN number_of_packets - 1 ELSE number_of_packets

(* get_packet, and the handler of the packet it returns. *)
GetPacket ==
    /\ pass = "get"
    /\ MutexFree
    /\ pass' = "test"
    /\ j' = j + 1
    /\ number_of_packets' = Remaining
    /\ IF number_of_packets > 0
       THEN /\ handled' = Append(handled, data_packet[first_container])
            /\ allocated' = allocated \ {first_container}
            /\ chain' = Tail(chain)
            /\ Unlink
       ELSE UNCHANGED <<handled, allocated, chain, first_container, last_container,
                        previous_container>>
    /\ UNCHANGED <<next_container, data_packet, atStart, adding, arrived>>

Listener == AddCount \/ AddLink
Processing == StartPass \/ TestCount \/ GetPacket

Next == Listener \/ Processing

Spec == Init /\ [][Next]_vars

-----------------------------------------------------------------------------
(* Properties.                                                             *)

TypeOK ==
    /\ number_of_packets \in Nat
    /\ first_container \in Container \cup {NULL}
    /\ last_container \in Container \cup {NULL}
    /\ next_container \in [Container -> Container \cup {NULL}]
    /\ previous_container \in [Container -> Container \cup {NULL}]
    /\ data_packet \in [Container -> Nat]
    /\ allocated \subseteq Container
    /\ adding \in Container \cup {NULL}
    /\ pass \in {"over", "test", "get"}
    /\ j \in Nat
    /\ arrived \in Nat
    /\ handled \in Seq(Nat)
    /\ chain \in Seq(Container)
    /\ atStart \in [waiting : Nat, handled : Nat]

(***************************************************************************)
(* The list is sound whenever the mutex is free: from first to last every  *)
(* container is linked both ways, none occurs twice, and exactly these are *)
(* allocated, so no pointer dangles and no container leaks.                *)
(***************************************************************************)
WellLinked ==
    /\ allocated = {chain[i] : i \in 1 .. Len(chain)} \cup ({adding} \ {NULL})
    /\ \A i, k \in 1 .. Len(chain) : chain[i] = chain[k] => i = k
    /\ \A i \in 1 .. Len(chain) : chain[i] # adding
    /\ number_of_packets = Len(chain) + (IF MutexFree THEN 0 ELSE 1)
    /\ first_container = IF chain = << >> THEN NULL ELSE chain[1]
    /\ last_container = IF chain = << >> THEN NULL ELSE chain[Len(chain)]
    /\ \A i \in 1 .. Len(chain) :
          /\ next_container[chain[i]] = IF i = Len(chain) THEN NULL ELSE chain[i + 1]
          /\ previous_container[chain[i]] = IF i = 1 THEN NULL ELSE chain[i - 1]

(* The containers hold the oldest unhandled packets, in arrival order, and *)
(* the one being linked in holds the latest.                               *)
InOrder ==
    /\ \A i \in 1 .. Len(handled) : handled[i] = i
    /\ \A i \in 1 .. Len(chain) : data_packet[chain[i]] = Len(handled) + i
    /\ ~MutexFree => data_packet[adding] = arrived
    /\ Len(handled) + number_of_packets = arrived

(***************************************************************************)
(* The container is a FIFO queue of the packets whose containers are       *)
(* linked: none is lost, repeated or overtaken.                            *)
(***************************************************************************)
Queue == INSTANCE FifoQueue WITH
            queue <- [i \in 1 .. Len(chain) |-> data_packet[chain[i]]],
            added <- IF MutexFree THEN arrived ELSE arrived - 1

ImplementsQueue == Queue!Spec

(***************************************************************************)
(* A pass handles at least half of what waited when it began, rounded up:  *)
(* the bound it compares its index with shrinks as it takes packets.       *)
(***************************************************************************)
PassHandlesHalf ==
    pass = "over" => 2 * (Len(handled) - atStart.handled) >= atStart.waiting

(***************************************************************************)
(* "We extract all the packets waiting in the packets queue"               *)
(* (protocol.cpp:94).                                                      *)
(***************************************************************************)
PassHandlesAll ==
    pass = "over" => Len(handled) - atStart.handled >= atStart.waiting
=============================================================================
