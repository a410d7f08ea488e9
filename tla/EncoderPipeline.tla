-------------------------- MODULE EncoderPipeline --------------------------
(***************************************************************************)
(* From the shared frame buffer to the encoded stream: the swap-chain      *)
(* thread of the driver that fills the buffer, the frame task of vd-driver *)
(* that copies it out every 16 ms, the control thread that reconfigures    *)
(* the monitor, and the encoding thread.  They meet in                     *)
(*   - the frame buffer mutex (driver and frame task),                     *)
(*   - Monitor's size atomics (control thread and frame task),             *)
(*   - a command channel of capacity one into the encoding thread,         *)
(*   - bgra_buffer and its mutex (frame task and encoding thread).         *)
(*                                                                         *)
(* How the configuration reaches the control thread is ConfigChannel's     *)
(* subject.  Here a mode switch leaves the control thread owing a call of  *)
(* Monitor::configure; it may first make calls with torn values, and its   *)
(* last call carries the mode on display (ConfigureCalls).                 *)
(*                                                                         *)
(* Sizes are in pixels; every frame is described by the mode it was drawn  *)
(* in and its number, never by its pixels.                                 *)
(* A variable of the code that goes out of scope goes back to a fixed      *)
(* value.                                                                  *)
(*                                                                         *)
(* A definition marked "Mistake" is not used: put in the place of the one  *)
(* that follows it, it shows which property notices that mistake.          *)
(***************************************************************************)
EXTENDS Naturals, Sequences

CONSTANTS
    Modes,          \* the modes the driver commits
    FirstModes,     \* those of them the monitor may start with
    TornModes,      \* mixtures of two of them that a racing read can return
    MaxSwitches,    \* bound on mode switches
    MaxTornCalls,   \* bound on calls of configure with a torn value
    MaxFrames,      \* bound on frames the driver sends
    MaxClients,     \* bound on broadcast receivers at a time
    MaxDelay        \* frames the codec may hold back before a packet

ModeFields == {"width", "height", "framerate"}
SizeFields == {"width", "height"}
Unset == [f \in ModeFields |-> 0]
NoSize == [f \in SizeFields |-> 0]
Configurations == Modes \cup TornModes

ASSUME ModesAssumption ==
    /\ Modes \subseteq [ModeFields -> Nat \ {0}]
    /\ FirstModes \subseteq Modes
    /\ TornModes \subseteq [ModeFields -> Nat]
ASSUME BoundsAssumption ==
    /\ MaxSwitches \in Nat /\ MaxTornCalls \in Nat /\ MaxFrames \in Nat
    /\ MaxClients \in Nat /\ MaxDelay \in Nat

VARIABLES
    display,        \* the mode the OS shows on the monitor
    owed,           \* the control thread still has to pass display on
    swap, drawn,    \* the swap-chain thread, and the mode its frame has
    fb,             \* the frame in the shared buffer
    fbMutex,        \* holder of the frame buffer mutex
    newFrame,       \* the auto-reset "new frame" event
    ctl, arg,       \* the control thread, and the arguments of its call
    toStore,        \* the atomics that call has not stored yet
    atomics,        \* Monitor's width and height; nobody reads its framerate
    ft, dims,       \* the frame task, and the sizes it has loaded
    toLoad,         \* the atomics it has not loaded yet
    bgra, bgraMutex,\* bgra_buffer: the frame and its length; and its holder
    cmd,            \* the command channel
    enc, cur,       \* the encoding thread and the command it works on
    encMode,        \* its width, height and framerate
    session,        \* how many encoders it has opened; 0: encoder is None
    inside,         \* numbers of the frames the codec holds, oldest first
    sets,           \* the session sps and pps came from, 0 for None
    parametersSent, \* sps_pps_sent
    codecData,      \* the session of the sets in the codec data watch, or 0
    shown,          \* the last frame converted: number, mode, encoder's mode
    sample,         \* the last sample broadcast: frame, stamp, session
    clients,        \* broadcast receivers
    switches, tornCalls   \* counters for the bounds only

driverVars == <<display, owed, swap, drawn, fb, newFrame, switches>>
ctlVars == <<ctl, arg, toStore, atomics, tornCalls>>
ftVars == <<ft, dims, toLoad>>
codecVars == <<encMode, session, inside, sets, parametersSent, codecData,
               shown, sample>>
vars == <<driverVars, fbMutex, ctlVars, ftVars, bgra, bgraMutex, cmd, enc, cur,
          codecVars, clients>>

Pixels(m) == m.width * m.height

NoFrame == [n |-> 0, mode |-> Unset]
NewFrame(n) == [kind |-> "frame", n |-> n, mode |-> Unset]
ConfigureTo(m) == [kind |-> "configure", n |-> 0, mode |-> m]
NoCommand == NewFrame(0)

\* The channel has one place: try_send puts a command there or drops it.
Offer(c) == IF enc # "dead" /\ cmd = <<>> THEN <<c>> ELSE cmd
\* Mistake: configure uses try_send, too.
NeverFull == TRUE
\* send waits for the place, and fails at once when the receiver is gone.
MaySend == enc = "dead" \/ cmd = <<>>

\* Mistake: send_frame waits for the place.
PlaceNeeded == enc = "dead" \/ cmd = <<>>
\* try_send does not wait.
MayOffer == TRUE

\* Mistake: bgra_buffer without its mutex.
BufferUnguarded == TRUE
\* A lock of bgra_buffer waits for the other thread's guard to go.
BufferFree == bgraMutex = "free"

\* Mistake: the failing thread keeps its guard.
GuardLeaked == bgraMutex
\* The guard of the encoding thread goes when the thread returns, too.
GuardDropped == IF bgraMutex = "encoder" THEN "free" ELSE bgraMutex

Init ==
    /\ display \in FirstModes
    /\ owed = TRUE
    /\ swap = "idle" /\ drawn = Unset
    /\ fb = NoFrame
    /\ fbMutex = "free"
    /\ newFrame = FALSE
    /\ ctl = "idle" /\ arg = Unset /\ toStore = {} /\ atomics = NoSize
    /\ ft = "sync" /\ dims = NoSize /\ toLoad = {}
    /\ bgra = [n |-> 0, mode |-> Unset, len |-> 0]
    /\ bgraMutex = "free"
    /\ cmd = <<>>
    /\ enc = "recv" /\ cur = NoCommand
    /\ encMode = Unset /\ session = 0 /\ inside = <<>>
    /\ sets = 0 /\ parametersSent = FALSE /\ codecData = 0
    /\ shown = [n |-> 0, mode |-> Unset, as |-> Unset]
    /\ sample = [n |-> 0, stamp |-> 0, session |-> 0]
    /\ clients = 0
    /\ switches = 0 /\ tornCalls = 0

-----------------------------------------------------------------------------
(***************************************************************************)
(* The driver.                                                             *)
(***************************************************************************)

\* AdapterCommitModes: the OS changes the mode of the path.
SwitchMode(m) ==
    /\ switches < MaxSwitches
    /\ display' = m
    /\ owed' = TRUE
    /\ switches' = switches + 1
    /\ UNCHANGED <<swap, drawn, fb, newFrame, fbMutex, ctlVars, ftVars, bgra,
                   bgraMutex, cmd, enc, cur, codecVars, clients>>

\* RunCore acquired a dirty frame; its geometry is the texture's.
AcquireFrame ==
    /\ swap = "idle"
    /\ fb.n < MaxFrames
    /\ drawn' = display
    /\ swap' = "lock"
    /\ UNCHANGED <<display, owed, fb, newFrame, switches, fbMutex, ctlVars,
                   ftVars, bgra, bgraMutex, cmd, enc, cur, codecVars, clients>>

\* MonitorClient::SendFrame waits for the mutex without a limit ...
SendFrameLock ==
    /\ swap = "lock"
    /\ fbMutex = "free"
    /\ fbMutex' = "swapchain"
    /\ swap' = "copy"
    /\ UNCHANGED <<display, owed, drawn, fb, newFrame, switches, ctlVars,
                   ftVars, bgra, bgraMutex, cmd, enc, cur, codecVars, clients>>

\* ... copies the rows, unlocks and signals.
SendFrameCopy ==
    /\ swap = "copy"
    /\ fb' = [n |-> fb.n + 1, mode |-> drawn]
    /\ fbMutex' = "free"
    /\ newFrame' = TRUE
    /\ swap' = "idle" /\ drawn' = Unset
    /\ UNCHANGED <<display, owed, switches, ctlVars, ftVars, bgra,
                   bgraMutex, cmd, enc, cur, codecVars, clients>>

-----------------------------------------------------------------------------
(***************************************************************************)
(* The control thread, in Monitor::configure.                              *)
(***************************************************************************)
CallConfigure ==
    /\ ctl = "idle"
    /\ owed
    /\ arg' = display
    /\ owed' = FALSE
    /\ ctl' = "send"
    /\ UNCHANGED <<display, swap, drawn, fb, newFrame, switches, fbMutex,
                   toStore, atomics, tornCalls, ftVars, bgra, bgraMutex, cmd,
                   enc, cur, codecVars, clients>>

\* A read that raced with CommitModes; the event it races with is still to come.
CallConfigureTorn(m) ==
    /\ ctl = "idle"
    /\ owed
    /\ tornCalls < MaxTornCalls
    /\ arg' = m
    /\ ctl' = "send"
    /\ tornCalls' = tornCalls + 1
    /\ UNCHANGED <<driverVars, fbMutex, toStore, atomics, ftVars, bgra,
                   bgraMutex, cmd, enc, cur, codecVars, clients>>

\* The send blocks while the channel is full; with the receiver gone it fails
\* and the error is dropped.
ConfigureSend ==
    /\ ctl = "send"
    /\ MaySend
    /\ cmd' = Offer(ConfigureTo(arg))
    /\ ctl' = "store"
    /\ toStore' = SizeFields
    /\ UNCHANGED <<driverVars, fbMutex, arg, atomics, tornCalls, ftVars, bgra,
                   bgraMutex, enc, cur, codecVars, clients>>

\* Relaxed stores, visible to the frame task in any order.
ConfigureStore(f) ==
    /\ ctl = "store"
    /\ f \in toStore
    /\ atomics' = [atomics EXCEPT ![f] = arg[f]]
    /\ toStore' = toStore \ {f}
    /\ IF toStore' = {} THEN ctl' = "idle" /\ arg' = Unset
                       ELSE UNCHANGED <<ctl, arg>>
    /\ UNCHANGED <<driverVars, fbMutex, tornCalls, ftVars, bgra,
                   bgraMutex, cmd, enc, cur, codecVars, clients>>

-----------------------------------------------------------------------------
(***************************************************************************)
(* The frame task.                                                         *)
(***************************************************************************)

\* It waits for the event once, then polls.
SyncFirstFrame ==
    /\ ft = "sync"
    /\ newFrame
    /\ newFrame' = FALSE
    /\ ft' = "tick"
    /\ UNCHANGED <<display, owed, swap, drawn, fb, switches, fbMutex, ctlVars,
                   dims, toLoad, bgra, bgraMutex, cmd, enc, cur, codecVars, clients>>

FrameTaskLock ==
    /\ ft = "tick"
    /\ fbMutex = "free"
    /\ fbMutex' = "frametask"
    /\ toLoad' = SizeFields
    /\ ft' = "load"
    /\ UNCHANGED <<driverVars, ctlVars, dims, bgra, bgraMutex, cmd, enc, cur,
                   codecVars, clients>>

LoadSize(f) ==
    /\ ft = "load"
    /\ f \in toLoad
    /\ dims' = [dims EXCEPT ![f] = atomics[f]]
    /\ toLoad' = toLoad \ {f}
    /\ ft' = IF toLoad' = {} THEN "send" ELSE "load"
    /\ UNCHANGED <<driverVars, fbMutex, ctlVars, bgra, bgraMutex, cmd, enc, cur,
                   codecVars, clients>>

\* Mistake: no copy while a command waits.
CopiedWhenIdle ==
    IF cmd = <<>> THEN [n |-> fb.n, mode |-> fb.mode, len |-> Pixels(dims)] ELSE bgra
\* The new content of bgra_buffer.
Copied == [n |-> fb.n, mode |-> fb.mode, len |-> Pixels(dims)]

\* Monitor::send_frame locks bgra_buffer, still under the frame buffer mutex,
\* and replaces its content ...
SendFrameReplace ==
    /\ ft = "send"
    /\ BufferFree
    /\ bgraMutex' = "frametask"
    /\ bgra' = Copied
    /\ ft' = "notify" /\ dims' = NoSize
    /\ UNCHANGED <<driverVars, fbMutex, ctlVars, toLoad, cmd, enc, cur,
                   codecVars, clients>>

\* ... offers the command without waiting, and both guards go.
SendFrameNotify ==
    /\ ft = "notify"
    /\ MayOffer
    /\ cmd' = Offer(NewFrame(fb.n))
    /\ bgraMutex' = "free"
    /\ fbMutex' = "free"
    /\ ft' = "tick"
    /\ UNCHANGED <<driverVars, ctlVars, dims, toLoad, bgra, enc, cur, codecVars,
                   clients>>

-----------------------------------------------------------------------------
(***************************************************************************)
(* The encoding thread.                                                    *)
(***************************************************************************)
NextCommand == enc' = "recv" /\ cur' = NoCommand

Receive ==
    /\ enc = "recv"
    /\ cmd # <<>>
    /\ cur' = Head(cmd)
    /\ cmd' = <<>>
    /\ enc' = Head(cmd).kind
    /\ UNCHANGED <<driverVars, fbMutex, ctlVars, ftVars, bgra, bgraMutex,
                   codecVars, clients>>

\* No encoder yet, or nobody listens.
SkipFrame ==
    /\ enc = "frame"
    /\ session = 0 \/ clients = 0
    /\ NextCommand
    /\ UNCHANGED <<driverVars, fbMutex, ctlVars, ftVars, bgra, bgraMutex, cmd,
                   codecVars, clients>>

RequestFrame ==
    /\ enc = "frame"
    /\ session # 0 /\ clients > 0
    /\ enc' = "lock"
    /\ UNCHANGED <<driverVars, fbMutex, ctlVars, ftVars, bgra, bgraMutex, cmd,
                   cur, codecVars, clients>>

LockBuffer ==
    /\ enc = "lock"
    /\ BufferFree
    /\ bgraMutex' = "encoder"
    /\ enc' = "check"
    /\ UNCHANGED <<driverVars, fbMutex, ctlVars, ftVars, bgra, cmd, cur,
                   codecVars, clients>>

\* The buffer has the size the encoder was opened for.
Fits == bgra.len = Pixels(encMode)

DropMisfit ==
    /\ enc = "check"
    /\ ~Fits
    /\ bgraMutex' = "free"
    /\ NextCommand
    /\ UNCHANGED <<driverVars, fbMutex, ctlVars, ftVars, bgra, cmd, codecVars, clients>>

\* Convert and hand to the codec; bgra_buffer stays locked until all packets
\* are out.
Encode ==
    /\ enc = "check"
    /\ Fits
    /\ shown' = [n |-> bgra.n, mode |-> bgra.mode, as |-> encMode]
    /\ inside' = Append(inside, bgra.n)
    /\ enc' = "drain"
    /\ UNCHANGED <<driverVars, fbMutex, ctlVars, ftVars, bgra, bgraMutex, cmd,
                   cur, encMode, session, sets, parametersSent, codecData,
                   sample, clients>>

\* Mistake: sps_pps_sent is not reset by a reconfiguration.
NothingPublished == codecData = 0
\* The packets of this encoder are still searched for its parameter sets.
SetsWanted == ~parametersSent

\* A packet with data comes out.  Until the parameter sets of this encoder
\* were published it is searched for them: the first packet of an encoder has
\* both, any other packet may have them too.
ReceivePacket(hasSets) ==
    /\ enc = "drain"
    /\ inside # <<>>
    /\ sample.session # session => hasSets
    /\ IF SetsWanted
       THEN /\ sets' = IF hasSets THEN session ELSE sets
            /\ parametersSent' = (sets' # 0)
            /\ codecData' = IF parametersSent' THEN sets' ELSE codecData
       ELSE UNCHANGED <<sets, parametersSent, codecData>>
    /\ enc' = "sample"
    /\ UNCHANGED <<driverVars, fbMutex, ctlVars, ftVars, bgra, bgraMutex, cmd,
                   cur, encMode, session, inside, shown, sample, clients>>

\* data_tx.send, after the codec data.  Packets come in the order of the frames:
\* the encoder is opened for the baseline profile.  The stamp is that of the
\* command being worked on, also when the packet is of a frame held back before.
BroadcastSample ==
    /\ enc = "sample"
    /\ sample' = [n |-> Head(inside), stamp |-> cur.n, session |-> session]
    /\ inside' = Tail(inside)
    /\ enc' = "drain"
    /\ UNCHANGED <<driverVars, fbMutex, ctlVars, ftVars, bgra, bgraMutex, cmd,
                   cur, encMode, session, sets, parametersSent, codecData,
                   shown, clients>>

\* A packet without data is passed over.
EmptyPacket ==
    /\ enc = "drain"
    /\ inside # <<>>
    /\ inside' = Tail(inside)
    /\ UNCHANGED <<driverVars, fbMutex, ctlVars, ftVars, bgra, bgraMutex, cmd,
                   enc, cur, encMode, session, sets, parametersSent,
                   codecData, shown, sample, clients>>

\* receive_packet has no more; the guard of bgra_buffer goes.
FrameDone ==
    /\ enc = "drain"
    /\ Len(inside) <= MaxDelay
    /\ bgraMutex' = "free"
    /\ NextCommand
    /\ UNCHANGED <<driverVars, fbMutex, ctlVars, ftVars, bgra, cmd, codecVars, clients>>

\* The framerate the thread keeps is never zero.
Normal(m) == [m EXCEPT !["framerate"] = IF m["framerate"] = 0 THEN 1 ELSE m["framerate"]]

\* Mistake: no change when the number of pixels stays.
SamePixels == Pixels(cur.mode) = Pixels(encMode)
\* The thread compares all three fields with the ones it runs.
NoChange == cur.mode = encMode

SameConfiguration ==
    /\ enc = "configure"
    /\ NoChange
    /\ NextCommand
    /\ UNCHANGED <<driverVars, fbMutex, ctlVars, ftVars, bgra, bgraMutex, cmd,
                   codecVars, clients>>

\* A new encoder; what the old one still held is gone.  The parameter sets
\* found in the old stream are kept.
OpenEncoder ==
    /\ enc = "configure"
    /\ ~NoChange
    /\ encMode' = Normal(cur.mode)
    /\ session' = session + 1
    /\ inside' = <<>>
    /\ parametersSent' = FALSE
    /\ NextCommand
    /\ UNCHANGED <<driverVars, fbMutex, ctlVars, ftVars, bgra, bgraMutex, cmd,
                   sets, codecData, shown, sample, clients>>

\* Any codec call of the thread may fail: the thread returns, its guard and
\* its end of the channel go, and nobody starts another.
EncoderFails ==
    /\ \/ enc \in {"lock", "check", "drain"}
       \/ enc = "configure" /\ ~NoChange
    /\ enc' = "dead"
    /\ bgraMutex' = GuardDropped
    /\ cmd' = <<>> /\ cur' = NoCommand
    /\ UNCHANGED <<driverVars, fbMutex, ctlVars, ftVars, bgra, codecVars, clients>>

-----------------------------------------------------------------------------
\* Clients of any protocol subscribe to the samples and go.
Subscribe ==
    /\ clients < MaxClients
    /\ clients' = clients + 1
    /\ UNCHANGED <<driverVars, fbMutex, ctlVars, ftVars, bgra, bgraMutex, cmd,
                   enc, cur, codecVars>>

Unsubscribe ==
    /\ clients > 0
    /\ clients' = clients - 1
    /\ UNCHANGED <<driverVars, fbMutex, ctlVars, ftVars, bgra, bgraMutex, cmd,
                   enc, cur, codecVars>>

DriverNext ==
    \/ \E m \in Modes : SwitchMode(m)
    \/ AcquireFrame \/ SendFrameLock \/ SendFrameCopy

ControlNext ==
    \/ CallConfigure
    \/ \E m \in TornModes : CallConfigureTorn(m)
    \/ ConfigureSend
    \/ \E f \in SizeFields : ConfigureStore(f)

FrameTaskNext ==
    \/ SyncFirstFrame \/ FrameTaskLock
    \/ \E f \in SizeFields : LoadSize(f)
    \/ SendFrameReplace \/ SendFrameNotify

EncoderStep ==
    \/ Receive \/ SkipFrame \/ RequestFrame \/ LockBuffer \/ DropMisfit \/ Encode
    \/ \E hasSets \in BOOLEAN : ReceivePacket(hasSets)
    \/ BroadcastSample \/ EmptyPacket \/ FrameDone \/ SameConfiguration \/ OpenEncoder

Next ==
    \/ DriverNext \/ ControlNext \/ FrameTaskNext
    \/ EncoderStep \/ EncoderFails
    \/ Subscribe \/ Unsubscribe

\* Every thread runs when it can; strongly, where another one comes back for what it
\* waits for.  Waiters for the frame buffer mutex, a kernel object, are served in
\* turn; the frame task leaves bgra_buffer alone for the rest of its 16 ms at
\* every tick; a configure blocked on the full channel is woken when it drains,
\* before the next tick fills it.  At every other place a thread's step stays
\* enabled until it is taken.  AcquireFrame waits for the OS, and EncoderFails for
\* a reason to fail.
Fairness ==
    /\ SF_vars(SendFrameLock \/ SendFrameCopy)
    /\ SF_vars(ControlNext)
    /\ WF_vars(FrameTaskNext)
    /\ SF_vars(EncoderStep)

Spec == Init /\ [][Next]_vars
FairSpec == Spec /\ Fairness

-----------------------------------------------------------------------------
(***************************************************************************)
(* Properties.                                                             *)
(***************************************************************************)
Commands == [kind : {"frame", "configure"}, n : Nat, mode : Configurations \cup {Unset}]

\* Every variable has its type, and each of the two mutexes is held exactly by
\* the thread that is inside its critical section, the dead encoder included.
TypeOK ==
    /\ display \in Modes /\ drawn \in Modes \cup {Unset}
    /\ owed \in BOOLEAN /\ newFrame \in BOOLEAN
    /\ swap \in {"idle", "lock", "copy"}
    /\ fb \in [n : Nat, mode : Modes \cup {Unset}]
    /\ fbMutex \in {"free", "swapchain", "frametask"}
    /\ ctl \in {"idle", "send", "store"}
    /\ arg \in Configurations \cup {Unset}
    /\ toStore \subseteq SizeFields
    /\ atomics \in [SizeFields -> Nat] /\ dims \in [SizeFields -> Nat]
    /\ ft \in {"sync", "tick", "load", "send", "notify"}
    /\ toLoad \subseteq SizeFields
    /\ bgra \in [n : Nat, mode : Modes \cup {Unset}, len : Nat]
    /\ bgraMutex \in {"free", "frametask", "encoder"}
    /\ cmd \in Seq(Commands) /\ Len(cmd) <= 1
    /\ enc \in {"recv", "frame", "lock", "check", "drain", "sample", "configure", "dead"}
    /\ cur \in Commands
    /\ encMode \in [ModeFields -> Nat]
    /\ session \in Nat /\ inside \in Seq(Nat)
    /\ sets \in Nat /\ parametersSent \in BOOLEAN /\ codecData \in Nat
    /\ shown \in [n : Nat, mode : Modes \cup {Unset}, as : [ModeFields -> Nat]]
    /\ sample \in [n : Nat, stamp : Nat, session : Nat]
    /\ clients \in Nat
    /\ switches \in Nat /\ tornCalls \in Nat
    /\ enc = "sample" => inside # <<>>
    /\ (fbMutex = "swapchain") <=> (swap = "copy")
    /\ (fbMutex = "frametask") <=> (ft \in {"load", "send", "notify"})
    /\ (bgraMutex = "frametask") <=> (ft = "notify")
    /\ (bgraMutex = "encoder") <=> (enc \in {"check", "drain", "sample"})

\* While the codec works on a frame the buffer it was converted from keeps that
\* frame and the encoder's size: neither a new frame nor a reconfiguration
\* gets in between the size check of the encoding thread and its last packet.
BufferStillWhileEncoding ==
    enc \in {"drain", "sample"} =>
        bgra.n = shown.n /\ bgra.len = Pixels(encMode) /\ shown.as = encMode

\* What the clients meet of the encoding thread is SampleSource, whatever the
\* frames, the locks and the commands do: it starts on a frame only for a listener,
\* no sample is sent before the codec data watch holds both parameter sets of its
\* encoder, though sets found in an older stream are kept, and the watch changes
\* with no other step.
Visible ==
    CASE enc \in {"recv", "frame", "configure"} -> "idle"
      [] enc \in {"lock", "check", "drain"} -> "busy"
      [] OTHER -> enc
Source == INSTANCE SampleSource WITH
              encoder <- Visible,
              heard <- clients > 0
IsSampleSource == Source!SourceSpec

\* When the codec data of a new encoder are announced, Monitor::width and height,
\* which a connection reads to describe them, are that encoder's; or another
\* configure is queued and will announce again; or the call that opened this
\* encoder is still between its send and its stores.  The last happens only on a
\* switch there and back, when a frame copied before it fits the new encoder.
AnnouncedWithItsSize ==
    [][codecData' # codecData =>
         \/ \A f \in SizeFields : atomics[f] = encMode[f]
         \/ cmd # <<>> /\ Head(cmd).kind = "configure"
         \/ ctl = "store" /\ \A f \in SizeFields : arg[f] = encMode[f]]_codecData

\* Samples leave in the order of their pictures and of their stamps, although the
\* buffer is overwritten while commands wait or are dropped, and encoders follow
\* one another.  A packet gets the stamp of the command being worked on, whichever
\* frame it is of (data_tx.send in encoding_thread): a sample is stamped later than
\* its picture only when the codec held the picture back, and then the frame of
\* that stamp, or a later one, is still behind it in the codec.
SamplesInOrder ==
    [][sample' # sample =>
         /\ sample'.n >= sample.n
         /\ sample'.stamp >= sample.stamp
         /\ sample'.stamp > sample'.n =>
                \E i \in DOMAIN inside' : inside'[i] >= sample'.stamp]_sample

\* Nobody waits for ever: a frame of the driver gets through SendFrame, a call of
\* configure returns, and send_frame gives bgra_buffer back, even after the encoding thread failed with the
\* frame task waiting for its buffer and the driver waiting for the frame task.
NobodyWaitsForever ==
    /\ []<>(swap # "lock" /\ bgraMutex # "frametask")
    /\ []<>(ctl # "send")

\* Once the driver sends no more frames, the newest one, when it is of the mode on
\* display and a client listens, is encoded in its own geometry: stale sizes, older
\* frames, those of the other mode included, and dropped commands around a mode
\* switch are all made up for.
NewestFrameIsEncoded ==
    \/ []<><<fb' # fb>>_fb
    \/ []<>(fb # NoFrame /\ fb.mode = display /\ clients > 0 /\ enc # "dead"
                => shown.n = fb.n /\ shown.as = shown.mode)
=============================================================================
