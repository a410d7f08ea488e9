---------------------------- MODULE VideoStream ----------------------------
(***************************************************************************)
(* From the encoding thread to the clients: the broadcast channel of       *)
(* samples, the watch channel of codec data, and one task per connection:  *)
(*   Custom   handle_video of the custom TCP protocol,                     *)
(*   Raw      the raw TCP server,                                          *)
(*   WebRtc   video_sender.                                                *)
(*                                                                         *)
(* The encoding thread is EncoderPipeline's subject.  Here it takes the    *)
(* steps of SampleSource, which EncoderPipeline is proved to implement:    *)
(* every action of the thread below is one of SampleSource's with what it  *)
(* does to the broadcast channel.                                          *)
(*                                                                         *)
(* The channels are tokio's.  The broadcast channel keeps the last         *)
(* Capacity samples in a ring of slots, each with the number of its        *)
(* sample; a receiver that finds another number in the slot of the sample  *)
(* it wants has lagged.                                                    *)
(*                                                                         *)
(* A definition marked "Mistake" is not used: put in the place of the one  *)
(* that follows it, it shows which property notices that mistake.          *)
(***************************************************************************)
EXTENDS Naturals, FiniteSets

CONSTANTS
    Custom, Raw, WebRtc,    \* the connections, by the task that serves them
    Capacity,               \* slots of the ring; 8 in the code
    MaxSamples,             \* bound on samples
    MaxSessions             \* bound on encoder sessions

Clients == Custom \cup Raw \cup WebRtc
Strict == Custom \cup Raw

ASSUME ClientsAssumption ==
    /\ Custom \cap Raw = {} /\ Custom \cap WebRtc = {} /\ Raw \cap WebRtc = {}
    /\ Capacity \in Nat \ {0}
    /\ MaxSamples \in Nat /\ MaxSessions \in Nat

VARIABLES
    encoder,    \* the encoding thread: "idle", "busy" with a frame, at a "sample", "dead"
    session,    \* its current encoder, 0 for none
    codecData,  \* the session in the codec data watch, 0 for None
    ring, tail, \* the broadcast channel: slots, and the next number to send
    pc,         \* where the task of each connection is
    next,       \* the number its receiver wants
    seen,       \* the codec data its watch receiver has seen
    packet,     \* the packet it is writing
    got,        \* the number of the last sample its client has
    gotSession, \* the session of that sample
    configured  \* the session of the last Configure its client has

producerVars == <<encoder, session, codecData, ring, tail>>
clientVars == <<pc, next, seen, packet, got, gotSession, configured>>
vars == <<producerVars, clientVars>>

NoSlot == [n |-> 0, session |-> 0]
NoPacket == [kind |-> "none", n |-> 0, session |-> 0]
ConfigurePacket(s) == [kind |-> "configure", n |-> 0, session |-> s]
VideoPacket(slot) == [kind |-> "video", n |-> slot.n, session |-> slot.session]
TimestampPacket == [kind |-> "timestamp", n |-> 0, session |-> 0]

Slot(n) == ring[n % Capacity]
Receivers == {c \in Clients : pc[c] # "off"}
Source == INSTANCE SampleSource WITH heard <- Receivers # {}
Oldest == IF tail > Capacity THEN tail - Capacity ELSE 1

\* What recv finds for a receiver that wants number n.
HasSample(n) == Slot(n).n = n
Lagged(n) == n < tail /\ Slot(n).n # n
Empty(n) == n = tail

\* Mistake: one sample too far.
FirstWantedLate == tail + 1
\* subscribe() starts with the next sample that will be sent.
FirstWanted == tail

Init ==
    /\ encoder = "idle" /\ session = 0 /\ codecData = 0
    /\ ring = [i \in 0 .. Capacity - 1 |-> NoSlot]
    /\ tail = 1
    /\ pc = [c \in Clients |-> "off"]
    /\ next = [c \in Clients |-> 0]
    /\ seen = [c \in Clients |-> 0]
    /\ packet = [c \in Clients |-> NoPacket]
    /\ got = [c \in Clients |-> 0]
    /\ gotSession = [c \in Clients |-> 0]
    /\ configured = [c \in Clients |-> 0]

-----------------------------------------------------------------------------
(***************************************************************************)
(* The encoding thread.                                                    *)
(***************************************************************************)
OpenEncoder ==
    /\ session < MaxSessions
    /\ Source!OpenEncoder
    /\ UNCHANGED <<ring, tail, clientVars>>

StartFrame ==
    /\ Source!StartFrame
    /\ UNCHANGED <<ring, tail, clientVars>>

\* A packet comes out, and the codec data of its session are published with it
\* unless they are out already.
ReceivePacket ==
    /\ Source!ReceivePacket
    /\ UNCHANGED <<ring, tail, clientVars>>

\* Without a receiver the channel drops the sample.
SendSample ==
    /\ tail <= MaxSamples
    /\ Source!SendSample
    /\ IF Receivers = {} THEN UNCHANGED <<ring, tail>>
       ELSE /\ ring' = [ring EXCEPT ![tail % Capacity] = [n |-> tail, session |-> session]]
            /\ tail' = tail + 1
    /\ UNCHANGED clientVars

\* No more packets, or the frame did not fit the encoder.
FrameDone ==
    /\ Source!FrameDone
    /\ UNCHANGED <<ring, tail, clientVars>>

EncoderFails ==
    /\ Source!EncoderFails
    /\ UNCHANGED <<ring, tail, clientVars>>

-----------------------------------------------------------------------------
(***************************************************************************)
(* The connections.                                                        *)
(***************************************************************************)

\* The task ends and drops its receivers; the client starts from nothing if it
\* connects again.
Close(c) ==
    /\ pc' = [pc EXCEPT ![c] = "off"]
    /\ next' = [next EXCEPT ![c] = 0]
    /\ seen' = [seen EXCEPT ![c] = 0]
    /\ packet' = [packet EXCEPT ![c] = NoPacket]
    /\ got' = [got EXCEPT ![c] = 0]
    /\ gotSession' = [gotSession EXCEPT ![c] = 0]
    /\ configured' = [configured EXCEPT ![c] = 0]
    /\ UNCHANGED producerVars

Write(c, p) ==
    /\ packet' = [packet EXCEPT ![c] = p]
    /\ pc' = [pc EXCEPT ![c] = "write"]

GoTo(c, place) == pc' = [pc EXCEPT ![c] = place]

\* A connection is accepted and its task subscribes to the samples; the clone
\* of the monitor's watch receiver has seen nothing yet.  handle_video writes
\* a timestamp at once.
Connect(c) ==
    /\ pc[c] = "off"
    /\ next' = [next EXCEPT ![c] = FirstWanted]
    /\ got' = [got EXCEPT ![c] = tail - 1]
    /\ IF c \in Custom THEN Write(c, TimestampPacket)
                       ELSE GoTo(c, "recv") /\ UNCHANGED packet
    /\ UNCHANGED <<producerVars, seen, gotSession, configured>>

\* changed() returns with a value not seen before: the first one ends the wait
\* for codec data, later ones come first in the biased select.
ConfigureClient(c) ==
    /\ pc[c] \in {"wait", "select"}
    /\ seen[c] # codecData
    /\ seen' = [seen EXCEPT ![c] = codecData]
    /\ Write(c, ConfigurePacket(codecData))
    /\ UNCHANGED <<producerVars, next, got, gotSession, configured>>

\* changed() fails once the encoding thread is gone: an error before the first
\* codec data, ...
CodecDataClosed(c) ==
    /\ pc[c] = "wait"
    /\ encoder = "dead" /\ seen[c] = codecData
    /\ Close(c)

\* ... but another turn for the branch of the select, which does not look at
\* the result and configures the client with the same value again.
ConfigureAgain(c) ==
    /\ pc[c] = "select"
    /\ encoder = "dead" /\ seen[c] = codecData
    /\ Write(c, ConfigurePacket(codecData))
    /\ UNCHANGED <<producerVars, next, seen, got, gotSession, configured>>

\* Mistake: a select that is not biased.
SelectUnbiased(c) == TRUE
\* changed() would wait.
CodecDataPending(c) == encoder # "dead" /\ seen[c] = codecData

\* The codec data branch is pending: the select goes on to its next branches.
PassCodecData(c) ==
    /\ pc[c] = "select"
    /\ CodecDataPending(c)
    /\ GoTo(c, "poll")
    /\ UNCHANGED <<producerVars, next, seen, packet, got, gotSession, configured>>

\* The 10 s interval has ticked.
WriteTimestamp(c) ==
    /\ pc[c] = "poll"
    /\ Write(c, TimestampPacket)
    /\ UNCHANGED <<producerVars, next, seen, got, gotSession, configured>>

\* recv returns a sample.
TakeSample(c) ==
    /\ pc[c] \in {"poll", "recv"}
    /\ HasSample(next[c])
    /\ next' = [next EXCEPT ![c] = next[c] + 1]
    /\ Write(c, VideoPacket(Slot(next[c])))
    /\ UNCHANGED <<producerVars, seen, got, gotSession, configured>>

\* Mistake: the TCP tasks ignore Lagged.
LagIsIgnored(c) == FALSE
\* For which tasks an error of recv, Lagged included, is the end.
LagEnds(c) == c \in Strict

\* recv returns Lagged: the TCP tasks end, ...
LagCloses(c) ==
    /\ LagEnds(c)
    /\ pc[c] \in {"poll", "recv"}
    /\ Lagged(next[c])
    /\ Close(c)

\* ... the WebRTC sender goes on with the oldest sample there is.
LagSkips(c) ==
    /\ ~LagEnds(c)
    /\ pc[c] \in {"poll", "recv"}
    /\ Lagged(next[c])
    /\ next' = [next EXCEPT ![c] = Oldest]
    /\ UNCHANGED <<producerVars, pc, seen, packet, got, gotSession, configured>>

\* All branches are pending; whichever wakes the task, the select is polled
\* from its first branch again.
Sleep(c) ==
    /\ pc[c] = "poll"
    /\ Empty(next[c])
    /\ GoTo(c, "sleep")
    /\ UNCHANGED <<producerVars, next, seen, packet, got, gotSession, configured>>

\* Mistake: the samples do not wake the task.
WokenByCodecData(c) == seen[c] # codecData \/ encoder = "dead"
\* A branch of the select registered its waker with each channel.
Woken(c) == ~Empty(next[c]) \/ seen[c] # codecData \/ encoder = "dead"

Wake(c) ==
    /\ pc[c] = "sleep"
    /\ Woken(c)
    /\ GoTo(c, "select")
    /\ UNCHANGED <<producerVars, next, seen, packet, got, gotSession, configured>>

\* The packet, and the flush behind it, went out.
WriteDone(c) ==
    /\ pc[c] = "write"
    /\ LET p == packet[c] IN
         /\ got' = [got EXCEPT ![c] = IF p.kind = "video" THEN p.n ELSE @]
         /\ gotSession' = [gotSession EXCEPT ![c] = IF p.kind = "video" THEN p.session ELSE @]
         /\ configured' = [configured EXCEPT ![c] = IF p.kind = "configure" THEN p.session ELSE @]
    /\ packet' = [packet EXCEPT ![c] = NoPacket]
    /\ GoTo(c, IF c \notin Custom THEN "recv"
               ELSE IF seen[c] = 0 THEN "wait" ELSE "select")
    /\ UNCHANGED <<producerVars, next, seen>>

\* The write failed or, in the custom protocol, took 10 s.
WriteFails(c) ==
    /\ c \in Strict
    /\ pc[c] = "write"
    /\ Close(c)

\* The WebRTC sender warns and goes on with the next sample.
WriteFailsWebRtc(c) ==
    /\ c \in WebRtc
    /\ pc[c] = "write"
    /\ packet' = [packet EXCEPT ![c] = NoPacket]
    /\ GoTo(c, "recv")
    /\ UNCHANGED <<producerVars, next, seen, got, gotSession, configured>>

\* The peer connection is done: its sender task is dropped wherever it waits.
Done(c) ==
    /\ c \in WebRtc
    /\ pc[c] # "off"
    /\ Close(c)

Producer ==
    \/ OpenEncoder \/ StartFrame \/ ReceivePacket \/ SendSample
    \/ FrameDone \/ EncoderFails

\* The steps of the task itself; a write waits for the client.
Task(c) ==
    \/ ConfigureClient(c) \/ CodecDataClosed(c) \/ ConfigureAgain(c)
    \/ PassCodecData(c) \/ TakeSample(c) \/ LagCloses(c) \/ LagSkips(c)
    \/ Sleep(c) \/ Wake(c)

Next ==
    \/ Producer
    \/ \E c \in Clients :
         \/ Connect(c) \/ Task(c) \/ WriteTimestamp(c)
         \/ WriteDone(c) \/ WriteFails(c) \/ WriteFailsWebRtc(c) \/ Done(c)

\* The runtime polls every task that was woken.  A write of the custom protocol
\* ends in time or in a timeout; the other writes may wait for ever.  Between
\* two ticks of the interval a task polls the samples many times.
Fairness ==
    /\ \A c \in Clients :
         /\ WF_vars(Task(c))
         /\ SF_vars(TakeSample(c) \/ LagCloses(c) \/ Sleep(c))
    /\ \A c \in Custom : WF_vars(WriteDone(c) \/ WriteFails(c))

Spec == Init /\ [][Next]_vars
FairSpec == Spec /\ Fairness

-----------------------------------------------------------------------------
(***************************************************************************)
(* Properties.                                                             *)
(***************************************************************************)
Packets == [kind : {"none", "configure", "video", "timestamp"}, n : Nat, session : Nat]

\* Every variable has its type, and a receiver never waits for a number beyond
\* the next one the channel will send.
TypeOK ==
    /\ encoder \in {"idle", "busy", "sample", "dead"}
    /\ session \in Nat /\ codecData \in Nat /\ tail \in Nat
    /\ ring \in [0 .. Capacity - 1 -> [n : Nat, session : Nat]]
    /\ pc \in [Clients -> {"off", "wait", "select", "poll", "sleep", "recv", "write"}]
    /\ next \in [Clients -> Nat] /\ seen \in [Clients -> Nat]
    /\ packet \in [Clients -> Packets]
    /\ got \in [Clients -> Nat] /\ gotSession \in [Clients -> Nat]
    /\ configured \in [Clients -> Nat]
    /\ \A c \in Clients : next[c] <= tail

\* A client of the custom protocol is configured before it gets a sample, and
\* although codec data and samples take different channels, a sample may run
\* ahead of the Configure of its encoder only once: the next packet of a
\* client that was overtaken is never another sample.
NeverTwoSamplesAhead ==
    \A c \in Custom :
        (pc[c] = "write" /\ packet[c].kind = "video") =>
            configured[c] # 0 /\ gotSession[c] <= configured[c]

\* The connections keep the promise of VideoFeed: a client is in the feed from
\* its subscription to the end of its task, and has what was written to it.
Feed == INSTANCE VideoFeed WITH
            made <- tail - 1,
            open <- Receivers,
            seenUpTo <- got
FeedIsKept == Feed!FeedSpec

\* A client of the custom protocol that stays connected gets every sample there
\* is, unless the encoding thread fails: no wakeup between the channels is lost.
SamplesArrive ==
    \A c \in Custom : \A n \in 1 .. MaxSamples :
        (pc[c] # "off" /\ tail = n + 1)
            ~> (got[c] >= n \/ pc[c] = "off" \/ encoder = "dead")
=============================================================================
