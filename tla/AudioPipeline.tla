---------------------------- MODULE AudioPipeline ----------------------------
(***************************************************************************)
(* Sound, from the default output device to the clients.  The audio thread *)
(* opens a capture stream whenever the OS reports another default device;  *)
(* the stream's callback cuts what it captures into packets, encodes them  *)
(* and broadcasts them; handle_audio writes the codec's header and the     *)
(* packets to a client of the custom protocol, audio_sender the packets to *)
(* a WebRTC track.                                                         *)
(*                                                                         *)
(* Captured sound is numbered.  A header and the packets encoded under it  *)
(* carry the number of the capture stream.                                 *)
(*                                                                         *)
(* A definition marked "Mistake" is not used: put in the place of the one  *)
(* that follows it, it shows which property notices that mistake.          *)
(***************************************************************************)
EXTENDS Integers, Sequences, FiniteSets

CONSTANTS
    Custom, WebRtc, \* clients of each protocol
    PacketSize,     \* sounds in a packet; 10 ms of samples in the code
    MaxBlock,       \* bound on the sounds of one call of the capture callback
    Capacity,       \* of the broadcast channel; 8 in the code
    Roles,          \* bound on the notices of one change; the OS sends one per role
    MaxChanges,     \* bound on changes of the default device
    MaxSound        \* bound on what is captured

ASSUME ClientsAssumption == Custom \cap WebRtc = {}
ASSUME BoundsAssumption ==
    /\ {PacketSize, MaxBlock, Capacity, Roles} \subseteq Nat \ {0}
    /\ {MaxChanges, MaxSound} \subseteq Nat

Clients == Custom \cup WebRtc
Sounds == 1..MaxSound

VARIABLES
    default,    \* the number of the default output device
    notices,    \* calls of OnDefaultDeviceChanged that the OS still owes
    token,      \* the channel of one place that wakes the audio thread
    thread, device, \* where that thread is, and the device it opens or has opened
    header,     \* the codec data watch, 0 at first
    stream,     \* the header of the stream that captures, 0 if there is none
    captured, data, \* sounds captured so far, how many the callback has left of them
    buffer,     \* what the packetizer holds
    skipped,    \* sounds that never get into a packet
    pc,         \* where the task of each client is
    newHeader,  \* what its watch receiver has not seen yet
    queue, lagged,  \* its broadcast receiver
    packet,     \* the packet it is writing
    shown, heard, ahead   \* if custom: last header and sound written, packets before a header

deviceVars == <<default, notices, token, thread, device>>
captureVars == <<stream, captured, data, buffer, skipped>>
clientVars == <<pc, newHeader, queue, lagged, packet, shown, heard, ahead>>
vars == <<deviceVars, header, captureVars, clientVars>>

NoPacket == [stream |-> 0, sounds |-> {}]
Connected(c) == pc[c] # "off"

Init ==
    /\ default = 1 /\ notices = 0 /\ token = TRUE
    /\ thread = "recv" /\ device = 0 /\ header = 0
    /\ stream = 0 /\ captured = 0 /\ data = 0 /\ buffer = {} /\ skipped = {}
    /\ pc = [c \in Clients |-> "off"] /\ newHeader = [c \in Clients |-> FALSE]
    /\ queue = [c \in Clients |-> <<>>] /\ lagged = [c \in Clients |-> FALSE]
    /\ packet = [c \in Clients |-> NoPacket]
    /\ shown = [c \in Clients |-> 0] /\ heard = [c \in Clients |-> 0]
    /\ ahead = [c \in Clients |-> 0]

-----------------------------------------------------------------------------
(***************************************************************************)
(* The default device and the audio thread.                                *)
(***************************************************************************)
DefaultChanges ==
    /\ default <= MaxChanges
    /\ default' = default + 1 /\ notices' = Roles
    /\ UNCHANGED <<token, thread, device, header, captureVars, clientVars>>

\* Mistake: the channel has no place, so the notice needs a thread that waits.
Rendezvous == token \/ thread = "recv"
\* try_send on a channel of one place: a second notice changes nothing.
Noticed == TRUE

OnDefaultDeviceChanged ==
    /\ notices > 0
    /\ notices' = notices - 1
    /\ token' = (thread # "dead" /\ Noticed)
    /\ UNCHANGED <<default, thread, device, header, captureVars, clientVars>>

\* The old stream is dropped, which waits for its callback; a packet it had begun
\* is lost.
DropStream ==
    /\ thread = "recv" /\ token /\ data = 0
    /\ token' = FALSE
    /\ thread' = "open"
    /\ stream' = 0
    /\ skipped' = skipped \cup buffer /\ buffer' = {}
    /\ UNCHANGED <<default, notices, device, header, captured, data, clientVars>>

OpenDevice ==
    /\ thread = "open"
    /\ thread' = "publish" /\ device' = default
    /\ UNCHANGED <<default, notices, token, header, captureVars, clientVars>>

PublishHeader ==
    /\ thread = "publish"
    /\ header' = header + 1
    /\ newHeader' = [c \in Clients |-> Connected(c) /\ c \in Custom]
    /\ thread' = "build"
    /\ UNCHANGED <<default, notices, token, device, captureVars, pc, queue, lagged, packet,
                   shown, heard, ahead>>

BuildStream ==
    /\ thread = "build"
    /\ stream' = header
    /\ thread' = "recv"
    /\ UNCHANGED <<default, notices, token, device, header, captured, data, buffer, skipped,
                   clientVars>>

\* Any error of the loop is the last thing the thread does: no device, a layout Opus
\* does not take, a stream that cannot be built or started.
AudioThreadFails ==
    /\ thread \in {"open", "build"}
    /\ data = 0
    /\ thread' = "dead" /\ token' = FALSE
    /\ stream' = 0
    /\ skipped' = skipped \cup buffer /\ buffer' = {}
    /\ UNCHANGED <<default, notices, device, header, captured, data, clientVars>>

-----------------------------------------------------------------------------
(***************************************************************************)
(* The capture callback: a block of n sounds, worked off packet by packet. *)
(***************************************************************************)

\* Without receivers the whole block is passed over; what the packetizer holds stays.
Capture(n) ==
    /\ stream # 0 /\ data = 0
    /\ captured + n <= MaxSound
    /\ captured' = captured + n
    /\ IF \E c \in Clients : Connected(c) THEN data' = n /\ UNCHANGED skipped
       ELSE skipped' = skipped \cup (captured + 1 .. captured') /\ UNCHANGED data
    /\ UNCHANGED <<deviceVars, header, stream, buffer, clientVars>>

\* One turn of the loop: fill the packet, as far as the data goes.
Filled ==
    LET room == PacketSize - Cardinality(buffer)
        n == IF data < room THEN data ELSE room
    IN buffer \cup (captured - data + 1 .. captured - data + n)

\* Mistake: a packet that was not encoded stays in the buffer.
KeptOnError(ok) == IF ok THEN {} ELSE Filled
AfterEncoding(ok) == {}

\* A full channel drops its oldest packet, and the receiver is told at the next recv.
Packetize ==
    /\ data > 0
    /\ data' = data - Cardinality(Filled \ buffer)
    /\ IF Cardinality(Filled) < PacketSize
       THEN buffer' = Filled /\ UNCHANGED <<skipped, queue, lagged>>
       ELSE \E ok \in BOOLEAN :
              /\ buffer' = AfterEncoding(ok)
              /\ skipped' = IF ok THEN skipped ELSE skipped \cup Filled
              /\ queue' = [c \in Clients |->
                    IF ~ok \/ ~Connected(c) THEN queue[c]
                    ELSE (IF Len(queue[c]) = Capacity THEN Tail(queue[c]) ELSE queue[c])
                            \o <<[stream |-> stream, sounds |-> Filled]>>]
              /\ lagged' = [c \in Clients |->
                    lagged[c] \/ (ok /\ Connected(c) /\ Len(queue[c]) = Capacity)]
    /\ UNCHANGED <<deviceVars, header, stream, captured, pc, newHeader, packet, shown, heard, ahead>>

-----------------------------------------------------------------------------
(***************************************************************************)
(* The clients.                                                            *)
(***************************************************************************)
system == <<deviceVars, header, captureVars>>

\* Where a task goes on after a write.
Again(c) == IF c \in Custom THEN "select" ELSE "recv"

\* Both receivers are made; the watch receiver has seen nothing.
Connect(c) ==
    /\ ~Connected(c)
    /\ pc' = [pc EXCEPT ![c] = IF c \in Custom THEN "first" ELSE "recv"]
    /\ newHeader' = [newHeader EXCEPT ![c] = c \in Custom /\ header # 0]
    /\ UNCHANGED <<system, queue, lagged, packet, shown, heard, ahead>>

Leave(c) ==
    /\ pc' = [pc EXCEPT ![c] = "off"] /\ newHeader' = [newHeader EXCEPT ![c] = FALSE]
    /\ queue' = [queue EXCEPT ![c] = <<>>] /\ lagged' = [lagged EXCEPT ![c] = FALSE]
    /\ packet' = [packet EXCEPT ![c] = NoPacket]
    /\ shown' = [shown EXCEPT ![c] = 0] /\ heard' = [heard EXCEPT ![c] = 0]
    /\ ahead' = [ahead EXCEPT ![c] = 0]
    /\ UNCHANGED system

\* The thread that ended has dropped the sender of the watch.
Closed == thread = "dead"

\* No header will come.
FirstHeaderFails(c) ==
    /\ pc[c] = "first" /\ ~newHeader[c] /\ Closed
    /\ Leave(c)

\* changed() returns, in the select also at every poll once the watch is closed: the
\* header is written, the first time or again.
HeaderChanged(c) ==
    /\ pc[c] \in {"first", "select"}
    /\ newHeader[c] \/ (pc[c] = "select" /\ Closed)
    /\ newHeader' = [newHeader EXCEPT ![c] = FALSE]
    /\ pc' = [pc EXCEPT ![c] = "header"]
    /\ shown' = [shown EXCEPT ![c] = header]
    /\ ahead' = [ahead EXCEPT ![c] = 0]
    /\ UNCHANGED <<system, queue, lagged, packet, heard>>

\* Mistake: the select takes its branches in any order.
SelectUnbiased(c) == FALSE
HeaderPending(c) == newHeader[c] \/ Closed

\* The first branch of the biased select is not ready: on to the second.
PassHeader(c) ==
    /\ pc[c] = "select" /\ ~HeaderPending(c)
    /\ pc' = [pc EXCEPT ![c] = "recv"]
    /\ UNCHANGED <<system, newHeader, queue, lagged, packet, shown, heard, ahead>>

TakePacket(c) ==
    /\ pc[c] = "recv" /\ ~lagged[c] /\ queue[c] # <<>>
    /\ packet' = [packet EXCEPT ![c] = Head(queue[c])]
    /\ queue' = [queue EXCEPT ![c] = Tail(@)]
    /\ ahead' = [ahead EXCEPT ![c] = IF c \in Custom /\ Head(queue[c]).stream > shown[c]
                                     THEN @ + 1 ELSE 0]
    /\ pc' = [pc EXCEPT ![c] = "packet"]
    /\ UNCHANGED <<system, newHeader, lagged, shown, heard>>

\* Nothing to receive: the task sleeps until either branch wakes it, and then looks at
\* both again.
Sleep(c) ==
    /\ pc[c] = "recv" /\ c \in Custom /\ ~lagged[c] /\ queue[c] = <<>>
    /\ pc' = [pc EXCEPT ![c] = "sleep"]
    /\ UNCHANGED <<system, newHeader, queue, lagged, packet, shown, heard, ahead>>

Wake(c) ==
    /\ pc[c] = "sleep"
    /\ newHeader[c] \/ Closed \/ lagged[c] \/ queue[c] # <<>>
    /\ pc' = [pc EXCEPT ![c] = "select"]
    /\ UNCHANGED <<system, newHeader, queue, lagged, packet, shown, heard, ahead>>

\* Mistake: handle_audio takes an overrun as lightly as audio_sender.
LagIsIgnored(c) == FALSE
LagEnds(c) == c \in Custom

Lagged(c) ==
    /\ pc[c] = "recv" /\ lagged[c]
    /\ IF LagEnds(c) THEN Leave(c)
       ELSE /\ lagged' = [lagged EXCEPT ![c] = FALSE]
            /\ UNCHANGED <<system, pc, newHeader, queue, packet, shown, heard, ahead>>

Last(S) == CHOOSE n \in S : \A k \in S : k <= n

WriteDone(c) ==
    /\ pc[c] \in {"header", "packet"}
    /\ heard' = [heard EXCEPT ![c] = IF pc[c] = "packet" /\ c \in Custom
                                     THEN Last(packet[c].sounds) ELSE @]
    /\ packet' = [packet EXCEPT ![c] = NoPacket]
    /\ pc' = [pc EXCEPT ![c] = Again(c)]
    /\ UNCHANGED <<system, newHeader, queue, lagged, shown, ahead>>

WriteFails(c) == pc[c] \in {"header", "packet"} /\ Leave(c)

AudioThread == DropStream \/ OpenDevice \/ PublishHeader \/ BuildStream \/ AudioThreadFails
Task(c) ==
    \/ FirstHeaderFails(c) \/ HeaderChanged(c) \/ PassHeader(c) \/ TakePacket(c) \/ Sleep(c)
    \/ Wake(c) \/ Lagged(c) \/ WriteDone(c) \/ WriteFails(c)

Next ==
    \/ DefaultChanges \/ OnDefaultDeviceChanged \/ AudioThread
    \/ \E n \in 1..MaxBlock : Capture(n)
    \/ Packetize
    \/ \E c \in Clients : Connect(c) \/ Task(c)

\* The OS delivers the notices it owes; the thread, a callback that runs and the
\* tasks go on when they can.  That sound is captured is not promised.
Fairness ==
    /\ WF_vars(OnDefaultDeviceChanged) /\ WF_vars(AudioThread) /\ WF_vars(Packetize)
    /\ \A c \in Clients : WF_vars(Task(c))

Spec == Init /\ [][Next]_vars
FairSpec == Spec /\ Fairness

-----------------------------------------------------------------------------
(***************************************************************************)
(* Properties.                                                             *)
(***************************************************************************)
Headers == 0..(1 + Roles * MaxChanges)
Packets == [stream : Headers, sounds : SUBSET Sounds]

\* Every variable has its type; the packetizer never holds a whole packet, and no
\* queue more packets than the channel keeps.
TypeOK ==
    /\ default \in 1..(MaxChanges + 1) /\ notices \in 0..Roles /\ token \in BOOLEAN
    /\ thread \in {"recv", "open", "publish", "build", "dead"} /\ device \in 0..(MaxChanges + 1)
    /\ header \in Headers /\ stream \in {0, header}
    /\ captured \in 0..MaxSound /\ data \in 0..MaxBlock
    /\ buffer \subseteq Sounds /\ Cardinality(buffer) < PacketSize
    /\ skipped \subseteq Sounds
    /\ pc \in [Clients -> {"off", "first", "select", "header", "recv", "sleep", "packet"}]
    /\ newHeader \in [Clients -> BOOLEAN] /\ lagged \in [Clients -> BOOLEAN]
    /\ queue \in [Clients -> Seq(Packets)] /\ packet \in [Clients -> Packets]
    /\ \A c \in Clients : Len(queue[c]) <= Capacity
    /\ shown \in [Clients -> Headers] /\ heard \in [Clients -> 0..MaxSound]
    /\ ahead \in [Clients -> Nat]

\* A client of the custom protocol hears every sound in order, until it is cut off: what
\* lies between two sounds it hears was never in a packet.
NothingIsMissed ==
    \A c \in Custom :
        (pc[c] = "packet" /\ heard[c] # 0) =>
            heard[c] + 1 .. Last(packet[c].sounds) \subseteq packet[c].sounds \cup skipped

\* It is sent the header of a stream before its packets, except that one packet can
\* overtake it between the two branches of the select.
NeverTwoPacketsAhead == \A c \in Custom : ahead[c] <= 1

\* When the default device stays, the stream ends up on it, unless the thread has failed:
\* a notice that comes while the thread opens a device is not lost.
StreamFollowsDevice == <>[]((stream # 0 /\ device = default) \/ thread = "dead")
=============================================================================
