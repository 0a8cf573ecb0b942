------------------------------- MODULE Sockets -------------------------------
(***************************************************************************)
(* How packets get into the queue of one peer: src/work_stealing/          *)
(* communication.cpp.  A sender opens a connection per packet and tries    *)
(* again when it fails; the peer's listener takes the connections one      *)
(* after another, reads the header with a single read and the data in a    *)
(* loop.  Nothing is acknowledged.  Failing to look up or to connect ends  *)
(* a process in the end; a read or a write that fails is not noticed, its  *)
(* -1 is used as a number of bytes.  A stream carries bytes in order, so a *)
(* packet is the number of its bytes, and what failed calls left of it.    *)
(***************************************************************************)
EXTENDS PacketQueue
LOCAL INSTANCE FiniteSetsExt

CONSTANTS
    Sender,         \* the peers that send to this one
    DataSize,       \* DataSize[s][k]: bytes of data in the k-th packet of s
    HeaderSize,     \* sizeof(packet_t)
    Buffer,         \* bytes a connection holds before write blocks
    MaxAttempts,    \* lookups, and connects, after the first: 10
    SIZE_MAX,       \* -1 as a size_t
    AnySize,        \* the sizes a header that is not the packet's may claim
    MaxErrors       \* bound on the reads and writes that return -1

PacketsSent == MapThenSumSet(LAMBDA s : Len(DataSize[s]), Sender)

ASSUME SocketAssumption ==
    /\ DataSize \in [Sender -> Seq(Nat)]
    /\ HeaderSize \in Nat \ {0} /\ Buffer \in Nat \ {0} /\ MaxAttempts \in Nat
    /\ SIZE_MAX \in Nat /\ SIZE_MAX > HeaderSize
    /\ AnySize \subseteq Nat /\ MaxErrors \in Nat
    /\ MaxPackets >= MapThenSumSet(LAMBDA s : Len(DataSize[s]), Sender)

VARIABLES
    step,               \* send_message: "ready", "lookup", "connect", "write",
                        \* and "exited" for the sender's process
    sent,               \* the packets of s that send_message has returned for
    attempt,
    num_byte_remain,
    connections,        \* to this peer, in the order they were established
    listener,           \* receive_remote_msg: "accept", "header", "data", "add",
                        \* "link", and "exited" for this peer's process
    nbytes,             \* what the read of the header returned
    byte_to_read,
    received,           \* auxiliary: the packets given to add_packet, in order
    errors              \* the reads and writes that have returned -1

senderVars == <<step, sent, attempt, num_byte_remain>>
readVars == <<nbytes, byte_to_read, received, errors>>
socketVars == <<senderVars, connections, listener, readVars>>
allVars == <<vars, socketVars>>

Exits == "exited"
Packets(s) == 1 .. Len(DataSize[s])

SocketInit ==
    /\ Init
    /\ step = [s \in Sender |-> "ready"]
    /\ sent = [s \in Sender |-> 0]
    /\ attempt = [s \in Sender |-> 0]
    /\ num_byte_remain = [s \in Sender |-> 0]
    /\ connections = << >>
    /\ listener = "accept"
    /\ nbytes = 0
    /\ byte_to_read = 0
    /\ received = << >>
    /\ errors = 0

(* A read or a write may return -1. *)
Error == errors < MaxErrors /\ errors' = errors + 1

(* What a failed call leaves of a packet that was kept whole: the header,  *)
(* when only bytes of the data are shifted, or nothing.                    *)
Spoilt(c, inHeader) ==
    [c EXCEPT !.kept = IF inHeader THEN "none" ELSE IF @ = "all" THEN "header" ELSE @]

-----------------------------------------------------------------------------
(* A sender.                                                               *)

SendMessage(s) ==
    /\ step[s] = "ready"
    /\ sent[s] < Len(DataSize[s])
    /\ step' = [step EXCEPT ![s] = "lookup"]
    /\ attempt' = [attempt EXCEPT ![s] = 0]
    /\ UNCHANGED <<sent, num_byte_remain, connections, listener, readVars, vars>>

(* init_sockaddr *)
Lookup(s) ==
    /\ step[s] = "lookup"
    /\ step' = [step EXCEPT ![s] = "connect"]
    /\ attempt' = [attempt EXCEPT ![s] = 0]
    /\ UNCHANGED <<sent, num_byte_remain, connections, listener, readVars, vars>>

(* Mutant of Fails: a packet that cannot be sent is given up. *)
FailsGivesUp(s) ==
    IF attempt[s] < MaxAttempts
    THEN attempt' = [attempt EXCEPT ![s] = @ + 1] /\ UNCHANGED <<step, sent>>
    ELSE /\ step' = [step EXCEPT ![s] = "ready"]
         /\ sent' = [sent EXCEPT ![s] = @ + 1]
         /\ UNCHANGED attempt

(* A lookup or a connect that fails is tried again after a sleep; the last *)
(* one ends the process.                                                   *)
Fails(s) ==
    IF attempt[s] < MaxAttempts
    THEN attempt' = [attempt EXCEPT ![s] = @ + 1] /\ UNCHANGED <<step, sent>>
    ELSE step' = [step EXCEPT ![s] = Exits] /\ UNCHANGED <<attempt, sent>>

(* At any time, and whenever this peer's process has ended. *)
TryFails(s) ==
    /\ step[s] \in {"lookup", "connect"}
    /\ Fails(s)
    /\ UNCHANGED <<num_byte_remain, connections, listener, readVars, vars>>

Connect(s) ==
    /\ step[s] = "connect"
    /\ listener # Exits
    /\ connections' = Append(connections,
          [from |-> s, packet |-> sent[s] + 1, bytes |-> 0, open |-> TRUE, kept |-> "all"])
    /\ num_byte_remain' =
          [num_byte_remain EXCEPT ![s] = HeaderSize + DataSize[s][sent[s] + 1]]
    /\ step' = [step EXCEPT ![s] = "write"]
    /\ attempt' = [attempt EXCEPT ![s] = 0]     \* not read again
    /\ UNCHANGED <<sent, listener, readVars, vars>>

(* The connection that s is writing to. *)
Own(s, i) == connections[i].from = s /\ connections[i].open

(* One round of the write loop: some of the bytes that are left reach this *)
(* peer.  After the last the sender closes and returns.                    *)
Write(s) ==
    /\ step[s] = "write"
    /\ \E i \in DOMAIN connections : \E k \in 1 .. num_byte_remain[s] :
          /\ Own(s, i)
          /\ connections[i].bytes + k <= Buffer
          /\ connections' =
                [connections EXCEPT ![i].bytes = @ + k, ![i].open = k < num_byte_remain[s]]
          /\ num_byte_remain' = [num_byte_remain EXCEPT ![s] = @ - k]
          /\ IF k < num_byte_remain[s] THEN UNCHANGED <<step, sent>>
             ELSE /\ step' = [step EXCEPT ![s] = "ready"]
                  /\ sent' = [sent EXCEPT ![s] = @ + 1]
    /\ UNCHANGED <<attempt, listener, readVars, vars>>

(* A write that fails: the loop goes one byte back in its buffer and has   *)
(* one more to write, so a byte is sent that does not belong there.        *)
WriteFails(s) ==
    /\ step[s] = "write"
    /\ Error
    /\ \E i \in DOMAIN connections :
          /\ Own(s, i)
          /\ connections' = [connections EXCEPT ![i] =
                Spoilt(@, @.kept = "all" /\ num_byte_remain[s] > DataSize[s][@.packet])]
    /\ num_byte_remain' = [num_byte_remain EXCEPT ![s] = @ + 1]
    /\ UNCHANGED <<step, sent, attempt, listener, nbytes, byte_to_read, received, vars>>

(* The listener has closed the connection, or its process has ended: a     *)
(* write goes nowhere, and the next one ends the sender by SIGPIPE.        *)
WriteToNobody(s) ==
    /\ step[s] = "write"
    /\ ~\E i \in DOMAIN connections : Own(s, i)
    /\ \/ step' = [step EXCEPT ![s] = Exits] /\ UNCHANGED <<sent, num_byte_remain>>
       \/ /\ step' = [step EXCEPT ![s] = "ready"]
          /\ sent' = [sent EXCEPT ![s] = @ + 1]
          /\ num_byte_remain' = [num_byte_remain EXCEPT ![s] = 0]
    /\ UNCHANGED <<attempt, connections, listener, readVars, vars>>

(* Another thread of the sender calls exit, as its listener may do. *)
Dies(s) ==
    /\ step[s] = "write"
    /\ step' = [step EXCEPT ![s] = Exits]
    /\ connections' = [i \in DOMAIN connections |->
          IF Own(s, i) THEN [connections[i] EXCEPT !.open = FALSE] ELSE connections[i]]
    /\ UNCHANGED <<sent, attempt, num_byte_remain, listener, readVars, vars>>

-----------------------------------------------------------------------------
(* The listener.  The connection it has accepted is the first one.         *)

current == Head(connections)
Taken(n) == [connections EXCEPT ![1].bytes = @ - n]

Accept ==
    /\ listener = "accept"
    /\ connections # << >>
    /\ listener' = "header"
    /\ UNCHANGED <<senderVars, connections, readVars, vars>>

(* The data get as much memory as the header says.  A header that is not   *)
(* the packet's says anything, and malloc may refuse.                      *)
AllocateData(known, left) ==
    \/ /\ byte_to_read' \in {DataSize[current.from][current.packet]}
                              \cup (IF known THEN {} ELSE AnySize)
       /\ connections' = left
       /\ listener' = "data"
    \/ /\ ~known
       /\ listener' = Exits
       /\ connections' = << >>
       /\ UNCHANGED byte_to_read

(* One read.  It returns what has arrived, or 0 if the sender has closed;  *)
(* when that is less than a header, the size is whatever malloc left there. *)
ReadHeader ==
    /\ listener = "header"
    /\ current.bytes > 0 \/ ~current.open
    /\ nbytes' = Min({HeaderSize, current.bytes})
    /\ AllocateData(nbytes' = HeaderSize /\ current.kept # "none", Taken(nbytes'))
    /\ UNCHANGED <<senderVars, received, errors, vars>>

(* It returns -1, which is no less than a header: the header's bytes are   *)
(* read as data.                                                           *)
ReadHeaderFails ==
    /\ listener = "header"
    /\ Error
    /\ nbytes' = SIZE_MAX
    /\ AllocateData(FALSE, [connections EXCEPT ![1] = Spoilt(@, TRUE)])
    /\ UNCHANGED <<senderVars, received, vars>>

(* The data loop.  A read from a closed connection returns 0 and changes   *)
(* nothing: it is repeated for ever.                                       *)
ReadData ==
    /\ listener = "data"
    /\ byte_to_read > 0
    /\ LET n == Min({byte_to_read, current.bytes})
       IN  /\ n > 0
           /\ byte_to_read' = byte_to_read - n
           /\ connections' = Taken(n)
    /\ UNCHANGED <<senderVars, listener, nbytes, received, errors, vars>>

(* mbytes < 0 is never true of a size_t: pos goes one byte back and one    *)
(* byte more is waited for.                                                *)
ReadDataFails ==
    /\ listener = "data"
    /\ byte_to_read > 0
    /\ Error
    /\ byte_to_read' = byte_to_read + 1
    /\ connections' = [connections EXCEPT ![1] = Spoilt(@, FALSE)]
    /\ UNCHANGED <<senderVars, listener, nbytes, received, vars>>

(* Mutant of AllRead: one byte too many is waited for. *)
AllReadTooMany == byte_to_read = 0 /\ current.bytes > 0

AllRead == byte_to_read = 0

HeaderRead == nbytes >= HeaderSize

(* Only now what the read of the header returned is tested. *)
CheckHeader ==
    /\ listener = "data"
    /\ AllRead
    /\ IF HeaderRead THEN listener' = "add" /\ UNCHANGED connections
       ELSE listener' = Exits /\ connections' = << >>
    /\ UNCHANGED <<senderVars, readVars, vars>>

(* What of the packet is in the one that was read, in the terms of kept. *)
Holds ==
    IF nbytes # HeaderSize \/ current.kept = "none" THEN "none"
    ELSE IF current.bytes > 0 THEN "header" ELSE current.kept

(* add_packet, in the two steps of PacketQueue. *)
Deliver ==
    /\ listener = "add"
    /\ AddCount
    /\ received' = Append(received, [from |-> current.from, packet |-> current.packet,
                                     kept |-> current.kept, holds |-> Holds])
    /\ connections' = Tail(connections)
    /\ listener' = "link"
    /\ nbytes' = 0                              \* not read again
    /\ UNCHANGED <<senderVars, byte_to_read, errors>>

Link ==
    /\ listener = "link"
    /\ AddLink
    /\ listener' = "accept"
    /\ UNCHANGED <<senderVars, connections, readVars>>

SenderStep(s) ==
    \/ SendMessage(s) \/ Lookup(s) \/ TryFails(s) \/ Connect(s)
    \/ Write(s) \/ WriteToNobody(s)

ListenerStep == Accept \/ ReadHeader \/ ReadData \/ CheckHeader \/ Deliver \/ Link

CallFails == (\E s \in Sender : WriteFails(s)) \/ ReadHeaderFails \/ ReadDataFails

ProcessingStep == listener # Exits /\ Processing /\ UNCHANGED socketVars

(* This peer's process has ended, and its senders have noticed or are done. *)
Ended ==
    /\ listener = Exits
    /\ \A s \in Sender :
          step[s] = Exits \/ (step[s] = "ready" /\ sent[s] = Len(DataSize[s]))
    /\ UNCHANGED allVars

SocketNext ==
    \/ \E s \in Sender : SenderStep(s) \/ Dies(s)
    \/ ListenerStep \/ CallFails \/ ProcessingStep \/ Ended

SocketSpec == SocketInit /\ [][SocketNext]_allVars

(* The threads keep running; no process has to die, no read or write to fail. *)
SocketFairSpec ==
    /\ SocketSpec
    /\ \A s \in Sender : WF_allVars(SenderStep(s))
    /\ WF_allVars(ListenerStep)
    /\ WF_allVars(ProcessingStep)

-----------------------------------------------------------------------------
(***************************************************************************)
(* What WorkStealing takes for granted of its network: this peer has the   *)
(* first packets that each sender sent, once and in order, whichever       *)
(* connections could not be made, were cut or were left half-read, and the *)
(* queue holds as many as were received.  What was queued for a packet     *)
(* holds what its own failed calls kept of it: all of it if none of its    *)
(* reads and writes returned -1, whatever others' did; its header, if only *)
(* bytes of the data were shifted; else nothing of it, but it is queued.   *)
(***************************************************************************)
WholeAndInOrder ==
    /\ Len(received) = arrived
    /\ \A i \in DOMAIN received :
          LET r == received[i]
          IN  /\ r.holds = r.kept
              /\ r.packet = 1 + Cardinality({h \in 1 .. i - 1 : received[h].from = r.from})

(* The listener repeats a read for ever: the connection is closed and has  *)
(* not the bytes that half a header, or a call that failed, makes it       *)
(* expect.                                                                 *)
WaitsForever ==
    /\ listener = "data"
    /\ byte_to_read > current.bytes
    /\ ~current.open
    /\ nbytes < HeaderSize \/ current.kept # "all"

(***************************************************************************)
(* Every packet that is sent is handled, whole or spoilt, unless a process *)
(* ends or the listener hangs on half a header or on the bytes missing     *)
(* after a read or a write that failed.  Senders block on a full           *)
(* connection, the listener on an empty one, and both the listener and the *)
(* processing thread on the mutex: they never wait for each other in a     *)
(* circle.                                                                 *)
(***************************************************************************)
EveryPacketHandled ==
    <>(\/ listener = Exits
       \/ \E s \in Sender : step[s] = Exits
       \/ WaitsForever
       \/ Len(handled) = PacketsSent)
=============================================================================
