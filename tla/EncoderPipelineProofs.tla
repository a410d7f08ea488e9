----------------------- MODULE EncoderPipelineProofs -----------------------
(***************************************************************************)
(* Theorems about EncoderPipeline, for any modes, torn modes and bounds.   *)
(***************************************************************************)
EXTENDS EncoderPipeline, TLAPS

\* TypeOK in parts, so that a step has to account only for those it touches.
DriverTypes ==
    /\ display \in Modes /\ drawn \in Modes \cup {Unset}
    /\ owed \in BOOLEAN /\ newFrame \in BOOLEAN
    /\ swap \in {"idle", "lock", "copy"}
    /\ fb \in [n : Nat, mode : Modes \cup {Unset}]
    /\ switches \in Nat
ControlTypes ==
    /\ ctl \in {"idle", "send", "store"}
    /\ arg \in Configurations \cup {Unset}
    /\ toStore \subseteq SizeFields
    /\ atomics \in [SizeFields -> Nat]
    /\ tornCalls \in Nat
FrameTaskTypes ==
    /\ ft \in {"sync", "tick", "load", "send", "notify"}
    /\ dims \in [SizeFields -> Nat]
    /\ toLoad \subseteq SizeFields
BufferTypes == bgra \in [n : Nat, mode : Modes \cup {Unset}, len : Nat]
CommandTypes ==
    /\ cmd \in Seq(Commands) /\ Len(cmd) <= 1
    /\ enc \in {"recv", "frame", "lock", "check", "drain", "sample", "configure", "dead"}
    /\ cur \in Commands
CodecTypes ==
    /\ encMode \in [ModeFields -> Nat]
    /\ session \in Nat /\ inside \in Seq(Nat)
    /\ sets \in Nat /\ parametersSent \in BOOLEAN /\ codecData \in Nat
    /\ shown \in [n : Nat, mode : Modes \cup {Unset}, as : [ModeFields -> Nat]]
    /\ sample \in [n : Nat, stamp : Nat, session : Nat]
Locks ==
    /\ fbMutex \in {"free", "swapchain", "frametask"}
    /\ bgraMutex \in {"free", "frametask", "encoder"}
    /\ enc = "sample" => inside # <<>>
    /\ (fbMutex = "swapchain") <=> (swap = "copy")
    /\ (fbMutex = "frametask") <=> (ft \in {"load", "send", "notify"})
    /\ (bgraMutex = "frametask") <=> (ft = "notify")
    /\ (bgraMutex = "encoder") <=> (enc \in {"check", "drain", "sample"})
    /\ clients \in Nat

-----------------------------------------------------------------------------
(***************************************************************************)
(* Types.                                                                  *)
(***************************************************************************)
LEMMA UnsetType == Unset \in [ModeFields -> Nat] /\ NoSize \in [SizeFields -> Nat]
  BY DEF Unset, NoSize

LEMMA ConfigurationType ==
    ASSUME NEW m \in Configurations \cup {Unset}
    PROVE  m \in [ModeFields -> Nat]
  BY UnsetType, ModesAssumption DEF Configurations

LEMMA ModeIsConfiguration ==
    ASSUME NEW m \in Modes \cup {Unset}
    PROVE  m \in Configurations \cup {Unset}
  BY DEF Configurations

LEMMA PixelsType ==
    ASSUME NEW m, m.width \in Nat, m.height \in Nat
    PROVE  Pixels(m) \in Nat
  BY DEF Pixels

LEMMA NormalType ==
    ASSUME NEW m \in [ModeFields -> Nat]
    PROVE  /\ Normal(m) \in [ModeFields -> Nat]
           /\ \A f \in SizeFields : Normal(m)[f] = m[f]
  BY DEF Normal, ModeFields, SizeFields

LEMMA CommandType ==
    /\ NoCommand \in Commands
    /\ \A n \in Nat : NewFrame(n) \in Commands
    /\ \A m \in Configurations \cup {Unset} : ConfigureTo(m) \in Commands
  BY DEF NoCommand, NewFrame, ConfigureTo, Commands

LEMMA OfferType ==
    ASSUME cmd \in Seq(Commands), Len(cmd) <= 1, NEW c \in Commands
    PROVE  Offer(c) \in Seq(Commands) /\ Len(Offer(c)) <= 1
  BY DEF Offer

LEMMA CopiedType ==
    ASSUME TypeOK
    PROVE  Copied \in [n : Nat, mode : Modes \cup {Unset}, len : Nat]
  <1>1. dims["width"] \in Nat /\ dims["height"] \in Nat
    BY DEF TypeOK, SizeFields
  <1>2. Pixels(dims) \in Nat
    BY <1>1 DEF Pixels
  <1> QED
    BY <1>2 DEF Copied, TypeOK

LEMMA Parts ==
    /\ TypeOK => /\ DriverTypes /\ ControlTypes /\ FrameTaskTypes /\ BufferTypes
                 /\ CommandTypes /\ CodecTypes /\ Locks
    /\ (/\ DriverTypes /\ ControlTypes /\ FrameTaskTypes /\ BufferTypes
        /\ CommandTypes /\ CodecTypes /\ Locks)' => TypeOK'
  BY DEF TypeOK, DriverTypes, ControlTypes, FrameTaskTypes, BufferTypes, CommandTypes,
     CodecTypes, Locks

\* What a step leaves alone keeps its type.
LEMMA Untouched ==
    ASSUME TypeOK
    PROVE  /\ UNCHANGED driverVars => DriverTypes'
           /\ UNCHANGED ctlVars => ControlTypes'
           /\ UNCHANGED ftVars => FrameTaskTypes'
           /\ UNCHANGED bgra => BufferTypes'
           /\ UNCHANGED <<cmd, enc, cur>> => CommandTypes'
           /\ UNCHANGED codecVars => CodecTypes'
  <1> USE Parts
  <1>1. UNCHANGED driverVars => DriverTypes'
    BY DEF driverVars, DriverTypes
  <1>2. UNCHANGED ctlVars => ControlTypes'
    BY DEF ctlVars, ControlTypes
  <1>3. UNCHANGED ftVars => FrameTaskTypes'
    BY DEF ftVars, FrameTaskTypes
  <1>4. UNCHANGED bgra => BufferTypes'
    BY DEF BufferTypes
  <1>5. UNCHANGED <<cmd, enc, cur>> => CommandTypes'
    BY DEF CommandTypes
  <1>6. UNCHANGED codecVars => CodecTypes'
    BY DEF codecVars, CodecTypes
  <1> QED
    BY <1>1, <1>2, <1>3, <1>4, <1>5, <1>6

LEMMA TypeInit == Init => TypeOK
  <1> SUFFICES ASSUME Init PROVE TypeOK
    OBVIOUS
  <1>1. DriverTypes
    BY ModesAssumption DEF Init, DriverTypes, NoFrame
  <1>2. ControlTypes /\ FrameTaskTypes
    BY UnsetType DEF Init, ControlTypes, FrameTaskTypes
  <1>3. BufferTypes /\ CommandTypes
    BY CommandType DEF Init, BufferTypes, CommandTypes
  <1>4. CodecTypes
    <2>1. /\ inside = <<>> /\ sample = [n |-> 0, stamp |-> 0, session |-> 0]
          /\ encMode = Unset /\ session = 0 /\ sets = 0 /\ parametersSent = FALSE
          /\ codecData = 0 /\ shown = [n |-> 0, mode |-> Unset, as |-> Unset]
      BY DEF Init
    <2>2. inside \in Seq(Nat) /\ sample \in [n : Nat, stamp : Nat, session : Nat]
      BY <2>1
    <2> QED
      BY <2>1, <2>2, UnsetType DEF CodecTypes
  <1>5. Locks
    BY DEF Init, Locks
  <1> QED
    BY <1>1, <1>2, <1>3, <1>4, <1>5 DEF TypeOK, DriverTypes, ControlTypes, FrameTaskTypes,
       BufferTypes, CommandTypes, CodecTypes, Locks

LEMMA TypeStep == TypeOK /\ [Next]_vars => TypeOK'
  <1> SUFFICES ASSUME TypeOK, [Next]_vars PROVE TypeOK'
    OBVIOUS
  <1> USE Parts
  <1>1. ASSUME NEW m \in Modes, SwitchMode(m) PROVE TypeOK'
    <2>1. DriverTypes'
      BY <1>1 DEF SwitchMode, DriverTypes
    <2>2. Locks'
      BY <1>1 DEF SwitchMode, driverVars, ftVars, codecVars, Locks
    <2> QED
      BY <1>1, <2>1, <2>2, Untouched DEF SwitchMode
  <1>2. CASE AcquireFrame
    <2>1. DriverTypes'
      BY <1>2 DEF AcquireFrame, DriverTypes
    <2>2. Locks'
      BY <1>2 DEF AcquireFrame, driverVars, ftVars, codecVars, Locks
    <2> QED
      BY <1>2, <2>1, <2>2, Untouched DEF AcquireFrame
  <1>3. CASE SendFrameLock
    <2>1. DriverTypes'
      BY <1>3 DEF SendFrameLock, DriverTypes
    <2>2. Locks'
      BY <1>3 DEF SendFrameLock, driverVars, ftVars, codecVars, Locks
    <2> QED
      BY <1>3, <2>1, <2>2, Untouched DEF SendFrameLock
  <1>4. CASE SendFrameCopy
    <2>1. DriverTypes'
      BY <1>4 DEF SendFrameCopy, DriverTypes
    <2>2. Locks'
      BY <1>4 DEF SendFrameCopy, driverVars, ftVars, codecVars, Locks
    <2> QED
      BY <1>4, <2>1, <2>2, Untouched DEF SendFrameCopy
  <1>5. CASE CallConfigure
    <2>1. DriverTypes'
      BY <1>5 DEF CallConfigure, DriverTypes
    <2>2. ControlTypes'
      BY <1>5 DEF CallConfigure, ControlTypes, DriverTypes, Configurations
    <2>3. Locks'
      BY <1>5 DEF CallConfigure, driverVars, ftVars, codecVars, Locks
    <2> QED
      BY <1>5, <2>1, <2>2, <2>3, Untouched DEF CallConfigure
  <1>6. ASSUME NEW m \in TornModes, CallConfigureTorn(m) PROVE TypeOK'
    <2>1. ControlTypes'
      BY <1>6 DEF CallConfigureTorn, ControlTypes, Configurations
    <2>2. Locks'
      BY <1>6 DEF CallConfigureTorn, driverVars, ftVars, codecVars, Locks
    <2> QED
      BY <1>6, <2>1, <2>2, Untouched DEF CallConfigureTorn
  <1>7. CASE ConfigureSend
    <2>1. ControlTypes'
      BY <1>7 DEF ConfigureSend, ControlTypes
    <2>2. CommandTypes'
      <3>1. ConfigureTo(arg) \in Commands
        BY CommandType DEF ControlTypes
      <3> QED
        BY <1>7, <3>1, OfferType DEF ConfigureSend, CommandTypes
    <2>3. Locks'
      BY <1>7 DEF ConfigureSend, driverVars, ftVars, codecVars, Locks
    <2> QED
      BY <1>7, <2>1, <2>2, <2>3, Untouched DEF ConfigureSend
  <1>8. ASSUME NEW f \in SizeFields, ConfigureStore(f) PROVE TypeOK'
    <2>1. ControlTypes'
      <3>1. arg[f] \in Nat
        BY ConfigurationType DEF ControlTypes, ModeFields, SizeFields
      <3> QED
        BY <1>8, <3>1 DEF ConfigureStore, ControlTypes, Configurations
    <2>2. Locks'
      BY <1>8 DEF ConfigureStore, driverVars, ftVars, codecVars, Locks
    <2> QED
      BY <1>8, <2>1, <2>2, Untouched DEF ConfigureStore
  <1>9. CASE SyncFirstFrame
    <2>1. DriverTypes'
      BY <1>9 DEF SyncFirstFrame, DriverTypes
    <2>2. FrameTaskTypes'
      BY <1>9 DEF SyncFirstFrame, FrameTaskTypes
    <2>3. Locks'
      BY <1>9 DEF SyncFirstFrame, driverVars, ftVars, codecVars, Locks
    <2> QED
      BY <1>9, <2>1, <2>2, <2>3, Untouched DEF SyncFirstFrame
  <1>10. CASE FrameTaskLock
    <2>1. FrameTaskTypes'
      BY <1>10 DEF FrameTaskLock, FrameTaskTypes
    <2>2. Locks'
      BY <1>10 DEF FrameTaskLock, driverVars, ftVars, codecVars, Locks
    <2> QED
      BY <1>10, <2>1, <2>2, Untouched DEF FrameTaskLock
  <1>11. ASSUME NEW f \in SizeFields, LoadSize(f) PROVE TypeOK'
    <2>1. FrameTaskTypes'
      BY <1>11 DEF LoadSize, FrameTaskTypes, ControlTypes
    <2>2. Locks'
      BY <1>11 DEF LoadSize, driverVars, ftVars, codecVars, Locks
    <2> QED
      BY <1>11, <2>1, <2>2, Untouched DEF LoadSize
  <1>12. CASE SendFrameReplace
    <2>1. FrameTaskTypes'
      BY <1>12, UnsetType DEF SendFrameReplace, FrameTaskTypes
    <2>2. BufferTypes'
      BY <1>12, CopiedType DEF SendFrameReplace, BufferTypes
    <2>3. Locks'
      BY <1>12 DEF SendFrameReplace, BufferFree, driverVars, ftVars, codecVars, Locks
    <2> QED
      BY <1>12, <2>1, <2>2, <2>3, Untouched DEF SendFrameReplace
  <1>13. CASE SendFrameNotify
    <2>1. FrameTaskTypes'
      BY <1>13 DEF SendFrameNotify, FrameTaskTypes
    <2>2. CommandTypes'
      <3>1. NewFrame(fb.n) \in Commands
        BY CommandType DEF DriverTypes
      <3> QED
        BY <1>13, <3>1, OfferType DEF SendFrameNotify, CommandTypes
    <2>3. Locks'
      BY <1>13 DEF SendFrameNotify, driverVars, ftVars, codecVars, Locks
    <2> QED
      BY <1>13, <2>1, <2>2, <2>3, Untouched DEF SendFrameNotify
  <1>14. CASE Receive
    <2>1. CommandTypes'
      <3>1. Head(cmd) \in Commands
        BY <1>14 DEF Receive, CommandTypes
      <3> QED
        BY <1>14, <3>1 DEF Receive, CommandTypes, Commands
    <2>2. Locks'
      <3>1. Head(cmd) \in Commands
        BY <1>14 DEF Receive, CommandTypes
      <3>2. enc = "recv" /\ enc' \in {"frame", "configure"}
        BY <1>14, <3>1 DEF Receive, Commands
      <3>3. UNCHANGED <<fbMutex, bgraMutex, swap, ft, inside, clients>>
        BY <1>14 DEF Receive, driverVars, ftVars, codecVars
      <3> QED
        BY <3>2, <3>3 DEF Locks
    <2> QED
      BY <1>14, <2>1, <2>2, Untouched DEF Receive
  <1>15. CASE SkipFrame
    <2>1. CommandTypes'
      BY <1>15, CommandType DEF SkipFrame, NextCommand, CommandTypes
    <2>2. Locks'
      BY <1>15 DEF SkipFrame, NextCommand, driverVars, ftVars, codecVars, Locks
    <2> QED
      BY <1>15, <2>1, <2>2, Untouched DEF SkipFrame
  <1>16. CASE RequestFrame
    <2>1. CommandTypes'
      BY <1>16 DEF RequestFrame, CommandTypes
    <2>2. Locks'
      BY <1>16 DEF RequestFrame, driverVars, ftVars, codecVars, Locks
    <2> QED
      BY <1>16, <2>1, <2>2, Untouched DEF RequestFrame
  <1>17. CASE LockBuffer
    <2>1. CommandTypes'
      BY <1>17 DEF LockBuffer, CommandTypes
    <2>2. Locks'
      BY <1>17 DEF LockBuffer, BufferFree, driverVars, ftVars, codecVars, Locks
    <2> QED
      BY <1>17, <2>1, <2>2, Untouched DEF LockBuffer
  <1>18. CASE DropMisfit
    <2>1. CommandTypes'
      BY <1>18, CommandType DEF DropMisfit, NextCommand, CommandTypes
    <2>2. Locks'
      BY <1>18 DEF DropMisfit, NextCommand, driverVars, ftVars, codecVars, Locks
    <2> QED
      BY <1>18, <2>1, <2>2, Untouched DEF DropMisfit
  <1>19. CASE Encode
    <2>1. CommandTypes'
      BY <1>19 DEF Encode, CommandTypes
    <2>2. CodecTypes'
      BY <1>19 DEF Encode, CodecTypes, BufferTypes
    <2>3. Locks'
      BY <1>19 DEF Encode, driverVars, ftVars, codecVars, Locks
    <2> QED
      BY <1>19, <2>1, <2>2, <2>3, Untouched DEF Encode
  <1>20. ASSUME NEW hasSets \in BOOLEAN, ReceivePacket(hasSets) PROVE TypeOK'
    <2>1. CommandTypes'
      BY <1>20 DEF ReceivePacket, CommandTypes
    <2>2. CodecTypes'
      <3>1. CASE SetsWanted
        <4>1. /\ sets' = IF hasSets THEN session ELSE sets
              /\ parametersSent' = (sets' # 0)
              /\ codecData' = IF parametersSent' THEN sets' ELSE codecData
          BY <1>20, <3>1 DEF ReceivePacket
        <4>2. sets' \in Nat
          BY <4>1 DEF CodecTypes
        <4>3. parametersSent' \in BOOLEAN /\ codecData' \in Nat
          BY <4>1, <4>2 DEF CodecTypes
        <4> QED
          BY <1>20, <4>2, <4>3 DEF ReceivePacket, CodecTypes
      <3>2. CASE ~SetsWanted
        BY <1>20, <3>2 DEF ReceivePacket, CodecTypes
      <3> QED
        BY <3>1, <3>2
    <2>3. Locks'
      BY <1>20 DEF ReceivePacket, driverVars, ftVars, codecVars, Locks
    <2> QED
      BY <1>20, <2>1, <2>2, <2>3, Untouched DEF ReceivePacket
  <1>21. CASE BroadcastSample
    <2>1. CommandTypes'
      BY <1>21 DEF BroadcastSample, CommandTypes
    <2>2. CodecTypes'
      <3>1. cur.n \in Nat /\ inside # <<>>
        BY <1>21 DEF BroadcastSample, CommandTypes, Commands, Locks
      <3>2. Head(inside) \in Nat /\ Tail(inside) \in Seq(Nat)
        BY <3>1 DEF CodecTypes
      <3>3. sample' \in [n : Nat, stamp : Nat, session : Nat]
        BY <1>21, <3>1, <3>2 DEF BroadcastSample, CodecTypes
      <3> QED
        BY <1>21, <3>2, <3>3 DEF BroadcastSample, CodecTypes
    <2>3. Locks'
      BY <1>21 DEF BroadcastSample, driverVars, ftVars, codecVars, Locks
    <2> QED
      BY <1>21, <2>1, <2>2, <2>3, Untouched DEF BroadcastSample
  <1>22. CASE EmptyPacket
    <2>1. CodecTypes'
      BY <1>22 DEF EmptyPacket, CodecTypes
    <2>2. Locks'
      BY <1>22 DEF EmptyPacket, driverVars, ftVars, codecVars, Locks
    <2> QED
      BY <1>22, <2>1, <2>2, Untouched DEF EmptyPacket
  <1>23. CASE FrameDone
    <2>1. CommandTypes'
      BY <1>23, CommandType DEF FrameDone, NextCommand, CommandTypes
    <2>2. Locks'
      BY <1>23 DEF FrameDone, NextCommand, driverVars, ftVars, codecVars, Locks
    <2> QED
      BY <1>23, <2>1, <2>2, Untouched DEF FrameDone
  <1>24. CASE SameConfiguration
    <2>1. CommandTypes'
      BY <1>24, CommandType DEF SameConfiguration, NextCommand, CommandTypes
    <2>2. Locks'
      BY <1>24 DEF SameConfiguration, NextCommand, driverVars, ftVars, codecVars, Locks
    <2> QED
      BY <1>24, <2>1, <2>2, Untouched DEF SameConfiguration
  <1>25. CASE OpenEncoder
    <2>1. CommandTypes'
      BY <1>25, CommandType DEF OpenEncoder, NextCommand, CommandTypes
    <2>2. CodecTypes'
      <3>1. cur.mode \in [ModeFields -> Nat]
        BY ConfigurationType DEF CommandTypes, Commands
      <3>2. Normal(cur.mode) \in [ModeFields -> Nat]
        BY <3>1, NormalType
      <3>3. /\ encMode' = Normal(cur.mode) /\ session' = session + 1 /\ inside' = <<>>
            /\ parametersSent' = FALSE /\ UNCHANGED <<sets, codecData, shown, sample>>
        BY <1>25 DEF OpenEncoder
      <3>4. encMode' \in [ModeFields -> Nat]
        BY <3>2, <3>3
      <3>5. session' \in Nat /\ inside' \in Seq(Nat)
        BY <3>3 DEF CodecTypes
      <3>6. parametersSent' \in BOOLEAN
        BY <3>3
      <3> QED
        BY <3>3, <3>4, <3>5, <3>6 DEF CodecTypes
    <2>3. Locks'
      BY <1>25 DEF OpenEncoder, NextCommand, driverVars, ftVars, codecVars, Locks
    <2> QED
      BY <1>25, <2>1, <2>2, <2>3, Untouched DEF OpenEncoder
  <1>26. CASE EncoderFails
    <2>1. CommandTypes'
      BY <1>26, CommandType DEF EncoderFails, CommandTypes
    <2>2. Locks'
      BY <1>26 DEF EncoderFails, GuardDropped, driverVars, ftVars, codecVars, Locks
    <2> QED
      BY <1>26, <2>1, <2>2, Untouched DEF EncoderFails
  <1>27. CASE Subscribe
    <2>1. Locks'
      BY <1>27 DEF Subscribe, driverVars, ftVars, codecVars, Locks
    <2> QED
      BY <1>27, <2>1, Untouched DEF Subscribe
  <1>28. CASE Unsubscribe
    <2>1. Locks'
      BY <1>28 DEF Unsubscribe, driverVars, ftVars, codecVars, Locks
    <2> QED
      BY <1>28, <2>1, Untouched DEF Unsubscribe
  <1>29. CASE UNCHANGED vars
    BY <1>29 DEF vars, driverVars, ctlVars, ftVars, codecVars, TypeOK
  <1> QED
    BY <1>1, <1>2, <1>3, <1>4, <1>5, <1>6, <1>7, <1>8, <1>9, <1>10, <1>11, <1>12,
       <1>13, <1>14, <1>15, <1>16, <1>17, <1>18, <1>19, <1>20, <1>21, <1>22, <1>23,
       <1>24, <1>25, <1>26, <1>27, <1>28, <1>29
       DEF Next, DriverNext, ControlNext, FrameTaskNext, EncoderStep
LEMMA TypeAlways == Spec => []TypeOK
  BY TypeInit, TypeStep, PTL DEF Spec

\* Every variable has its type, and each mutex is held exactly by the thread in
\* its critical section, whatever the modes and the bounds (run encoder_safety).
THEOREM TypeCorrect == Spec => []TypeOK
  BY TypeAlways

-----------------------------------------------------------------------------
(***************************************************************************)
(* The buffer and the codec.                                               *)
(***************************************************************************)
Still == TypeOK /\ BufferStillWhileEncoding

LEMMA StillStep == Still /\ [Next]_vars => BufferStillWhileEncoding'
  <1> SUFFICES ASSUME TypeOK, BufferStillWhileEncoding, [Next]_vars
               PROVE  BufferStillWhileEncoding'
    BY DEF Still
  <1>1. CASE UNCHANGED <<enc, bgra, shown, encMode>>
    BY <1>1 DEF BufferStillWhileEncoding, Pixels
  <1>2. CASE SendFrameReplace
    <2>1. enc \notin {"drain", "sample"} /\ enc' = enc
      BY <1>2 DEF SendFrameReplace, BufferFree, TypeOK
    <2> QED
      BY <2>1 DEF BufferStillWhileEncoding
  <1>3. CASE Encode
    BY <1>3 DEF Encode, Fits, BufferStillWhileEncoding, TypeOK
  <1>4. CASE BroadcastSample \/ EmptyPacket \/ \E hasSets \in BOOLEAN : ReceivePacket(hasSets)
    <2>1. enc \in {"drain", "sample"} /\ UNCHANGED <<bgra, shown, encMode>>
      BY <1>4 DEF BroadcastSample, EmptyPacket, ReceivePacket
    <2> QED
      BY <2>1 DEF BufferStillWhileEncoding, Pixels
  <1>5. CASE enc' \notin {"drain", "sample"}
    BY <1>5 DEF BufferStillWhileEncoding
  <1>6. CASE DriverNext \/ ControlNext \/ Subscribe \/ Unsubscribe \/ UNCHANGED vars
    BY <1>1, <1>6 DEF DriverNext, SwitchMode, AcquireFrame, SendFrameLock, SendFrameCopy,
       ControlNext, CallConfigure, CallConfigureTorn, ConfigureSend, ConfigureStore,
       Subscribe, Unsubscribe, vars, codecVars
  <1>7. CASE FrameTaskNext
    BY <1>1, <1>2, <1>7 DEF FrameTaskNext, SyncFirstFrame, FrameTaskLock, LoadSize,
       SendFrameNotify, codecVars
  <1>8. CASE EncoderStep \/ EncoderFails
    <2>1. CASE Receive
      <3>1. Head(cmd) \in Commands
        BY <2>1 DEF Receive, TypeOK
      <3> QED
        BY <2>1, <3>1, <1>5 DEF Receive, Commands
    <2>2. CASE SkipFrame \/ RequestFrame \/ LockBuffer \/ DropMisfit \/ FrameDone
               \/ SameConfiguration \/ OpenEncoder \/ EncoderFails
      BY <2>2, <1>5 DEF SkipFrame, RequestFrame, LockBuffer, DropMisfit, FrameDone,
         SameConfiguration, OpenEncoder, EncoderFails, NextCommand
    <2> QED
      BY <1>8, <2>1, <2>2, <1>3, <1>4 DEF EncoderStep
  <1> QED
    BY <1>6, <1>7, <1>8 DEF Next

\* While the codec works on a frame, its buffer keeps that frame and the
\* encoder's size (run encoder_safety).
THEOREM BufferIsStill == Spec => []BufferStillWhileEncoding
  <1>1. Init => BufferStillWhileEncoding
    BY DEF Init, BufferStillWhileEncoding
  <1>2. Still /\ [Next]_vars => Still'
    BY StillStep, TypeStep DEF Still
  <1>3. TypeOK /\ BufferStillWhileEncoding <=> Still
    BY DEF Still
  <1> QED
    BY <1>1, <1>2, <1>3, TypeInit, PTL DEF Spec
-----------------------------------------------------------------------------
(***************************************************************************)
(* Stamps.  A command is never ahead of the buffer, nor the buffer of the  *)
(* shared frame; the frame task holds its mutex until the two agree.       *)
(***************************************************************************)
ConvertedNotOlder == enc \in {"drain", "sample"} => shown.n >= cur.n
Stamps ==
    /\ bgra.n <= fb.n
    /\ ft = "notify" => bgra.n = fb.n
    /\ cmd # <<>> => Head(cmd).n <= bgra.n
    /\ cur.n <= bgra.n
    /\ ConvertedNotOlder

LEMMA StampTypes ==
    ASSUME TypeOK
    PROVE  /\ fb.n \in Nat /\ bgra.n \in Nat /\ cur.n \in Nat /\ shown.n \in Nat
           /\ cmd # <<>> => Head(cmd) \in Commands /\ Head(cmd).n \in Nat
  <1>1. fb.n \in Nat /\ bgra.n \in Nat /\ cur.n \in Nat /\ shown.n \in Nat
    BY DEF TypeOK, Commands
  <1>2. cmd # <<>> => Head(cmd) \in Commands
    BY DEF TypeOK
  <1> QED
    BY <1>1, <1>2 DEF Commands

LEMMA OfferedStamp ==
    ASSUME cmd \in Seq(Commands), Len(cmd) <= 1, NEW c
    PROVE  Offer(c) # <<>> => Offer(c) = cmd \/ Head(Offer(c)) = c
  BY DEF Offer

LEMMA StampsStep == TypeOK /\ Stamps /\ [Next]_vars => Stamps'
  <1> SUFFICES ASSUME TypeOK, Stamps, [Next]_vars PROVE Stamps'
    OBVIOUS
  <1> USE StampTypes
  <1>1. CASE UNCHANGED <<fb, ft, bgra, cmd, cur, enc, shown>>
    BY <1>1 DEF Stamps, ConvertedNotOlder
  <1>2. CASE SendFrameCopy
    <2>1. fb'.n = fb.n + 1 /\ ft # "notify" /\ UNCHANGED <<ft, bgra, cmd, cur, enc, shown>>
      BY <1>2 DEF SendFrameCopy, ftVars, codecVars, TypeOK
    <2> QED
      BY <2>1 DEF Stamps, ConvertedNotOlder
  <1>3. CASE ConfigureSend
    <2>1. ConfigureTo(arg).n = 0
      BY DEF ConfigureTo
    <2>2. cmd' = Offer(ConfigureTo(arg)) /\ UNCHANGED <<fb, ft, bgra, cur, enc, shown>>
      BY <1>3 DEF ConfigureSend, driverVars, ftVars, codecVars
    <2>3. cmd' # <<>> => Head(cmd').n <= bgra'.n
      <3>1. cmd \in Seq(Commands) /\ Len(cmd) <= 1
        BY DEF TypeOK
      <3>2. cmd' # <<>> => cmd' = cmd \/ Head(cmd').n = 0
        BY <2>1, <2>2, <3>1, OfferedStamp
      <3> QED
        BY <2>2, <3>2 DEF Stamps
    <2> QED
      BY <2>2, <2>3 DEF Stamps, ConvertedNotOlder
  <1>4. CASE SyncFirstFrame \/ FrameTaskLock \/ \E f \in SizeFields : LoadSize(f)
    <2>1. ft' # "notify" /\ UNCHANGED <<fb, bgra, cmd, cur, enc, shown>>
      BY <1>4 DEF SyncFirstFrame, FrameTaskLock, LoadSize, driverVars, codecVars
    <2> QED
      BY <2>1 DEF Stamps, ConvertedNotOlder
  <1>5. CASE SendFrameReplace
    <2>1. bgra'.n = fb.n /\ UNCHANGED <<fb, cmd, cur, enc, shown>>
      BY <1>5 DEF SendFrameReplace, Copied, driverVars, codecVars
    <2> QED
      BY <2>1 DEF Stamps, ConvertedNotOlder
  <1>6. CASE SendFrameNotify
    <2>1. NewFrame(fb.n).n = fb.n
      BY DEF NewFrame
    <2>2. /\ cmd' = Offer(NewFrame(fb.n)) /\ ft = "notify" /\ ft' = "tick"
          /\ UNCHANGED <<fb, bgra, cur, enc, shown>>
      BY <1>6 DEF SendFrameNotify, driverVars, codecVars
    <2>3. cmd' # <<>> => Head(cmd').n <= bgra'.n
      BY <2>1, <2>2, OfferedStamp DEF Stamps, TypeOK
    <2> QED
      BY <2>2, <2>3 DEF Stamps, ConvertedNotOlder
  <1>7. CASE Receive
    <2>1. /\ cmd # <<>> /\ cur' = Head(cmd) /\ cmd' = <<>> /\ enc' \in {"frame", "configure"}
          /\ UNCHANGED <<fb, ft, bgra, shown>>
      BY <1>7 DEF Receive, Commands, driverVars, ftVars, codecVars
    <2> QED
      BY <2>1 DEF Stamps, ConvertedNotOlder
  <1>8. CASE SkipFrame \/ DropMisfit \/ FrameDone \/ SameConfiguration \/ OpenEncoder
             \/ EncoderFails
    <2>1. /\ cur' = NoCommand /\ enc' \in {"recv", "dead"}
          /\ cmd' = cmd \/ cmd' = <<>>
          /\ UNCHANGED <<fb, ft, bgra, shown>>
      BY <1>8 DEF SkipFrame, DropMisfit, FrameDone, SameConfiguration, OpenEncoder,
         EncoderFails, NextCommand, driverVars, ftVars, codecVars
    <2>2. NoCommand.n = 0
      BY DEF NoCommand, NewFrame
    <2> QED
      BY <2>1, <2>2 DEF Stamps, ConvertedNotOlder
  <1>9. CASE RequestFrame \/ LockBuffer
    <2>1. enc' \in {"lock", "check"} /\ UNCHANGED <<fb, ft, bgra, cmd, cur, shown>>
      BY <1>9 DEF RequestFrame, LockBuffer, driverVars, ftVars, codecVars
    <2> QED
      BY <2>1 DEF Stamps, ConvertedNotOlder
  <1>10. CASE Encode
    <2>1. shown'.n = bgra.n /\ UNCHANGED <<fb, ft, bgra, cmd, cur>>
      BY <1>10 DEF Encode, driverVars, ftVars
    <2> QED
      BY <2>1 DEF Stamps, ConvertedNotOlder
  <1>11. CASE BroadcastSample \/ EmptyPacket \/ \E hasSets \in BOOLEAN : ReceivePacket(hasSets)
    <2>1. enc \in {"drain", "sample"} /\ UNCHANGED <<fb, ft, bgra, cmd, cur, shown>>
      BY <1>11 DEF BroadcastSample, EmptyPacket, ReceivePacket, driverVars, ftVars
    <2> QED
      BY <2>1 DEF Stamps, ConvertedNotOlder
  <1>12. CASE DriverNext \/ ControlNext \/ Subscribe \/ Unsubscribe \/ UNCHANGED vars
    BY <1>1, <1>2, <1>3, <1>12 DEF DriverNext, SwitchMode, AcquireFrame, SendFrameLock,
       ControlNext, CallConfigure, CallConfigureTorn, ConfigureStore,
       Subscribe, Unsubscribe, vars, driverVars, ftVars, codecVars
  <1> QED
    BY <1>4, <1>5, <1>6, <1>7, <1>8, <1>9, <1>10, <1>11, <1>12
       DEF Next, FrameTaskNext, EncoderStep

LEMMA StampsAlways == Spec => []Stamps
  <1>1. Init => Stamps
    BY DEF Init, Stamps, ConvertedNotOlder, NoFrame, NoCommand, NewFrame
  <1> QED
    BY <1>1, StampsStep, TypeAlways, PTL DEF Spec

-----------------------------------------------------------------------------
(***************************************************************************)
(* Samples.  What the codec holds is in order, between the last sample and *)
(* the buffer; so are the stamps, from the last sample over the command    *)
(* being worked on to the queued one.                                      *)
(***************************************************************************)
OnFrame == enc \in {"frame", "lock", "check", "drain", "sample"}
FrameQueued == cmd # <<>> /\ Head(cmd).kind = "frame"

HeldInOrder ==
    /\ sample.n <= bgra.n
    /\ \A i \in 1..Len(inside) : sample.n <= inside[i] /\ inside[i] <= bgra.n
    /\ \A i, j \in 1..Len(inside) : i <= j => inside[i] <= inside[j]
StampsInOrder ==
    /\ sample.stamp <= bgra.n
    /\ FrameQueued => sample.stamp <= Head(cmd).n
    /\ OnFrame => sample.stamp <= cur.n
    /\ OnFrame /\ FrameQueued => cur.n <= Head(cmd).n
\* While its packets come the frame of the command, or a later one, is the last
\* that went in.
LastHeld ==
    enc \in {"drain", "sample"} /\ inside # <<>> => inside[Len(inside)] >= cur.n
Ordered == HeldInOrder /\ StampsInOrder /\ LastHeld

LEMMA OrderTypes ==
    ASSUME TypeOK
    PROVE  /\ bgra.n \in Nat /\ cur.n \in Nat /\ fb.n \in Nat
           /\ sample.n \in Nat /\ sample.stamp \in Nat
           /\ inside \in Seq(Nat) /\ Len(inside) \in Nat
           /\ \A i \in 1..Len(inside) : inside[i] \in Nat
           /\ FrameQueued => Head(cmd).n \in Nat
  <1>1. /\ sample.n \in Nat /\ sample.stamp \in Nat
        /\ inside \in Seq(Nat) /\ Len(inside) \in Nat
        /\ \A i \in 1..Len(inside) : inside[i] \in Nat
    BY DEF TypeOK
  <1> QED
    BY <1>1, StampTypes DEF FrameQueued

\* A packet leaves the codec.
LEMMA PacketOut ==
    ASSUME NEW s \in Seq(Nat), s # <<>>
    PROVE  /\ Len(Tail(s)) = Len(s) - 1 /\ Head(s) = s[1] /\ 1 \in 1..Len(s)
           /\ \A i \in 1..Len(Tail(s)) : Tail(s)[i] = s[i + 1] /\ i + 1 \in 1..Len(s)
           /\ Tail(s) # <<>> => /\ Tail(s)[Len(Tail(s))] = s[Len(s)]
                                /\ Len(Tail(s)) \in DOMAIN Tail(s)
  <1>1. Len(s) \in Nat /\ Len(s) > 0
    OBVIOUS
  <1>2. Tail(s) \in Seq(Nat) /\ Len(Tail(s)) = Len(s) - 1
    OBVIOUS
  <1>3. \A i \in 1..Len(Tail(s)) : Tail(s)[i] = s[i + 1] /\ i + 1 \in 1..Len(s)
    BY <1>1, <1>2
  <1>4. ASSUME Tail(s) # <<>>
        PROVE  /\ Tail(s)[Len(Tail(s))] = s[Len(s)]
               /\ Len(Tail(s)) \in DOMAIN Tail(s)
    <2>1. Len(Tail(s)) \in 1..Len(Tail(s))
      BY <1>2, <1>4
    <2> QED
      BY <1>1, <1>2, <1>3, <2>1
  <1> QED
    BY <1>1, <1>2, <1>3, <1>4

LEMMA OrderedStep == TypeOK /\ Stamps /\ Ordered /\ [Next]_vars => Ordered'
  <1> SUFFICES ASSUME TypeOK, Stamps, Ordered, [Next]_vars PROVE Ordered'
    OBVIOUS
  <1> USE OrderTypes
  <1>1. CASE UNCHANGED <<bgra, cmd, enc, cur, inside, sample>>
    BY <1>1 DEF Ordered, HeldInOrder, StampsInOrder, LastHeld, OnFrame, FrameQueued
  <1>2. CASE ConfigureSend
    <2>1. cmd' = Offer(ConfigureTo(arg)) /\ UNCHANGED <<bgra, enc, cur, inside, sample>>
      BY <1>2 DEF ConfigureSend, codecVars
    <2>2. FrameQueued' => FrameQueued /\ cmd' = cmd
      <3>1. ConfigureTo(arg).kind # "frame"
        BY DEF ConfigureTo
      <3>2. cmd \in Seq(Commands) /\ Len(cmd) <= 1
        BY DEF TypeOK
      <3> QED
        BY <2>1, <3>1, <3>2, OfferedStamp DEF FrameQueued
    <2> QED
      BY <2>1, <2>2 DEF Ordered, HeldInOrder, StampsInOrder, LastHeld, OnFrame
  <1>3. CASE SendFrameReplace
    <2>1. bgra'.n = fb.n /\ UNCHANGED <<cmd, enc, cur, inside, sample>>
      BY <1>3 DEF SendFrameReplace, Copied, codecVars
    <2>2. bgra'.n \in Nat /\ bgra.n <= bgra'.n
      BY <2>1 DEF Stamps
    <2> QED
      BY <2>1, <2>2 DEF Ordered, HeldInOrder, StampsInOrder, LastHeld, OnFrame, FrameQueued
  <1>4. CASE SendFrameNotify
    <2>1. /\ cmd' = Offer(NewFrame(fb.n)) /\ fb.n = bgra.n
          /\ UNCHANGED <<bgra, enc, cur, inside, sample>>
      BY <1>4 DEF SendFrameNotify, Stamps, codecVars
    <2>2. FrameQueued' => (FrameQueued /\ cmd' = cmd) \/ Head(cmd').n = bgra.n
      <3>1. NewFrame(fb.n).n = fb.n
        BY DEF NewFrame
      <3>2. cmd \in Seq(Commands) /\ Len(cmd) <= 1
        BY DEF TypeOK
      <3> QED
        BY <2>1, <3>1, <3>2, OfferedStamp DEF FrameQueued
    <2>3. cur.n <= bgra.n
      BY DEF Stamps
    <2> QED
      BY <2>1, <2>2, <2>3 DEF Ordered, HeldInOrder, StampsInOrder, LastHeld, OnFrame
  <1>5. CASE Receive
    <2>1. Head(cmd) \in Commands
      BY <1>5 DEF Receive, TypeOK
    <2>2. /\ cmd # <<>> /\ cur' = Head(cmd) /\ cmd' = <<>> /\ enc' = Head(cmd).kind
          /\ enc' \in {"frame", "configure"} /\ UNCHANGED <<bgra, inside, sample>>
      BY <1>5, <2>1 DEF Receive, Commands, codecVars
    <2>3. OnFrame' => FrameQueued
      BY <2>2 DEF OnFrame, FrameQueued
    <2>4. ~FrameQueued' /\ enc' \notin {"drain", "sample"}
      BY <2>2 DEF FrameQueued
    <2> QED
      BY <2>2, <2>3, <2>4 DEF Ordered, HeldInOrder, StampsInOrder, LastHeld
  <1>6. CASE SkipFrame \/ DropMisfit \/ FrameDone \/ SameConfiguration \/ EncoderFails
    <2>1. /\ enc' \in {"recv", "dead"} /\ (cmd' = cmd \/ cmd' = <<>>)
          /\ UNCHANGED <<bgra, inside, sample>>
      BY <1>6 DEF SkipFrame, DropMisfit, FrameDone, SameConfiguration, EncoderFails,
         NextCommand, codecVars
    <2>2. ~OnFrame' /\ (FrameQueued' => FrameQueued /\ cmd' = cmd)
      BY <2>1 DEF OnFrame, FrameQueued
    <2> QED
      BY <2>1, <2>2 DEF Ordered, HeldInOrder, StampsInOrder, LastHeld
  <1>7. CASE OpenEncoder
    <2>1. enc' = "recv" /\ inside' = <<>> /\ UNCHANGED <<bgra, cmd, sample>>
      BY <1>7 DEF OpenEncoder, NextCommand
    <2>2. Len(inside') = 0 /\ ~OnFrame' /\ (FrameQueued' => FrameQueued)
      BY <2>1 DEF OnFrame, FrameQueued
    <2>3. HeldInOrder'
      BY <2>1, <2>2 DEF Ordered, HeldInOrder
    <2> QED
      BY <2>1, <2>2, <2>3 DEF Ordered, StampsInOrder, LastHeld
  <1>8. CASE RequestFrame \/ LockBuffer
    <2>1. /\ enc \in {"frame", "lock"} /\ enc' \in {"lock", "check"}
          /\ UNCHANGED <<bgra, cmd, cur, inside, sample>>
      BY <1>8 DEF RequestFrame, LockBuffer, codecVars
    <2> QED
      BY <2>1 DEF Ordered, HeldInOrder, StampsInOrder, LastHeld, OnFrame, FrameQueued
  <1>9. CASE Encode
    <2>1. /\ enc = "check" /\ enc' = "drain" /\ inside' = Append(inside, bgra.n)
          /\ UNCHANGED <<bgra, cmd, cur, sample>>
      BY <1>9 DEF Encode
    <2>2. /\ Len(inside') = Len(inside) + 1 /\ inside'[Len(inside) + 1] = bgra.n
          /\ \A i \in 1..Len(inside) : inside'[i] = inside[i]
      BY <2>1
    <2>3. HeldInOrder'
      <3>1. \A i \in 1..Len(inside') : i \in 1..Len(inside) \/ i = Len(inside) + 1
        BY <2>2
      <3> QED
        BY <2>1, <2>2, <3>1 DEF Ordered, HeldInOrder
    <2>4. StampsInOrder'
      BY <2>1 DEF Ordered, StampsInOrder, OnFrame, FrameQueued
    <2>5. LastHeld'
      BY <2>1, <2>2 DEF LastHeld, Stamps
    <2> QED
      BY <2>3, <2>4, <2>5 DEF Ordered
  <1>10. ASSUME NEW hasSets \in BOOLEAN, ReceivePacket(hasSets) PROVE Ordered'
    <2>1. /\ enc = "drain" /\ enc' = "sample" /\ UNCHANGED <<bgra, cmd, cur, inside, sample>>
      BY <1>10 DEF ReceivePacket
    <2> QED
      BY <2>1 DEF Ordered, HeldInOrder, StampsInOrder, LastHeld, OnFrame, FrameQueued
  <1>11. CASE BroadcastSample \/ EmptyPacket
    <2>1. /\ inside # <<>> /\ inside' = Tail(inside) /\ UNCHANGED <<bgra, cmd, cur>>
          /\ enc \in {"drain", "sample"} /\ enc' = "drain"
          /\ sample' = sample \/ (sample'.n = Head(inside) /\ sample'.stamp = cur.n)
      <3>1. enc = "sample" => inside # <<>>
        BY DEF TypeOK
      <3>2. CASE BroadcastSample
        BY <3>1, <3>2 DEF BroadcastSample
      <3>3. CASE EmptyPacket
        BY <3>3 DEF EmptyPacket
      <3> QED
        BY <1>11, <3>2, <3>3
    <2>2. /\ Len(inside') = Len(inside) - 1 /\ Head(inside) = inside[1]
          /\ 1 \in 1..Len(inside)
          /\ \A i \in 1..Len(inside') : inside'[i] = inside[i + 1] /\ i + 1 \in 1..Len(inside)
          /\ inside' # <<>> => inside'[Len(inside')] = inside[Len(inside)]
      BY <2>1, PacketOut
    <2>3. HeldInOrder'
      <3>0. /\ \A i \in 1..Len(inside) : inside[i] <= bgra.n
            /\ \A i, j \in 1..Len(inside) : i <= j => inside[i] <= inside[j]
        BY DEF Ordered, HeldInOrder
      <3>1. ASSUME NEW i \in 1..Len(inside')
            PROVE  inside[1] <= inside'[i] /\ inside'[i] <= bgra.n
        <4>1. i + 1 \in 1..Len(inside) /\ 1 <= i + 1 /\ inside'[i] = inside[i + 1]
          BY <2>2
        <4> QED
          BY <2>2, <3>0, <4>1
      <3>2. ASSUME NEW i \in 1..Len(inside'), NEW j \in 1..Len(inside'), i <= j
            PROVE  inside'[i] <= inside'[j]
        <4>1. /\ i + 1 \in 1..Len(inside) /\ j + 1 \in 1..Len(inside) /\ i + 1 <= j + 1
              /\ inside'[i] = inside[i + 1] /\ inside'[j] = inside[j + 1]
          <5>1. Len(inside') \in Nat /\ i \in Nat /\ j \in Nat
            BY <2>2
          <5>2. i + 1 \in 1..Len(inside) /\ inside'[i] = inside[i + 1]
            BY <2>2
          <5>3. j + 1 \in 1..Len(inside) /\ inside'[j] = inside[j + 1]
            BY <2>2
          <5>4. i + 1 <= j + 1
            BY <3>2, <5>1
          <5> QED
            BY <5>2, <5>3, <5>4
        <4> QED
          BY <3>0, <4>1
      <3>3. /\ sample'.n <= inside[1] /\ inside[1] <= bgra.n /\ sample'.n \in Nat
            /\ inside[1] \in Nat
        BY <2>1, <2>2 DEF Ordered, HeldInOrder
      <3>4. \A i \in 1..Len(inside') : inside'[i] \in Nat
        BY <2>2
      <3>5. \A i \in 1..Len(inside') : sample'.n <= inside'[i]
        BY <3>1, <3>3, <3>4
      <3> QED
        BY <2>1, <3>1, <3>2, <3>3, <3>5 DEF HeldInOrder
    <2>4. StampsInOrder'
      BY <2>1 DEF Ordered, StampsInOrder, OnFrame, FrameQueued, Stamps
    <2>5. LastHeld'
      BY <2>1, <2>2 DEF Ordered, LastHeld
    <2> QED
      BY <2>3, <2>4, <2>5 DEF Ordered
  <1>12. CASE DriverNext \/ CallConfigure \/ (\E m \in TornModes : CallConfigureTorn(m))
              \/ (\E f \in SizeFields : ConfigureStore(f)) \/ SyncFirstFrame \/ FrameTaskLock
              \/ (\E f \in SizeFields : LoadSize(f)) \/ Subscribe \/ Unsubscribe
              \/ UNCHANGED vars
    BY <1>1, <1>12 DEF DriverNext, SwitchMode, AcquireFrame, SendFrameLock, SendFrameCopy,
       CallConfigure, CallConfigureTorn, ConfigureStore, SyncFirstFrame, FrameTaskLock,
       LoadSize, Subscribe, Unsubscribe, vars, codecVars
  <1> QED
    BY <1>2, <1>3, <1>4, <1>5, <1>6, <1>7, <1>8, <1>9, <1>10, <1>11, <1>12
       DEF Next, ControlNext, FrameTaskNext, EncoderStep

LEMMA OnlyBroadcastsSample ==
    [Next]_vars /\ sample' # sample => BroadcastSample
  BY DEF Next, DriverNext, SwitchMode, AcquireFrame, SendFrameLock, SendFrameCopy,
     ControlNext, CallConfigure, CallConfigureTorn, ConfigureSend, ConfigureStore,
     FrameTaskNext, SyncFirstFrame, FrameTaskLock, LoadSize, SendFrameReplace,
     SendFrameNotify, EncoderStep, Receive, SkipFrame, RequestFrame, LockBuffer,
     DropMisfit, Encode, ReceivePacket, EmptyPacket, FrameDone,
     SameConfiguration, OpenEncoder, EncoderFails, Subscribe, Unsubscribe, vars, codecVars

\* Samples leave in the order of their pictures and stamps, and a stamp is later
\* than its picture only when the frame it belongs to, or a later one, is still
\* behind that picture in the codec, whatever the codec holds back (run
\* encoder_safety).
THEOREM SamplesKeepOrder == Spec => SamplesInOrder
  <1>1. Init => Ordered
    <2> SUFFICES ASSUME Init PROVE Ordered
      OBVIOUS
    <2>1. /\ sample.n = 0 /\ sample.stamp = 0 /\ bgra.n = 0 /\ Len(inside) = 0
          /\ cmd = <<>> /\ enc = "recv"
      BY DEF Init
    <2> QED
      BY <2>1 DEF Ordered, HeldInOrder, StampsInOrder, LastHeld, OnFrame, FrameQueued
  <1>2. TypeOK /\ Ordered /\ [Next]_vars =>
          [sample' # sample =>
             /\ sample'.n >= sample.n
             /\ sample'.stamp >= sample.stamp
             /\ sample'.stamp > sample'.n =>
                  \E i \in DOMAIN inside' : inside'[i] >= sample'.stamp]_sample
    <2> SUFFICES ASSUME TypeOK, Ordered, [Next]_vars, sample' # sample
                 PROVE  /\ sample'.n >= sample.n
                        /\ sample'.stamp >= sample.stamp
                        /\ sample'.stamp > sample'.n =>
                             \E i \in DOMAIN inside' : inside'[i] >= sample'.stamp
      OBVIOUS
    <2> USE OrderTypes
    <2>1. /\ enc = "sample" /\ inside # <<>> /\ inside' = Tail(inside)
          /\ sample'.n = Head(inside) /\ sample'.stamp = cur.n
      <3>1. enc = "sample" => inside # <<>>
        BY DEF TypeOK
      <3> QED
        BY <3>1, OnlyBroadcastsSample DEF BroadcastSample
    <2>2. /\ Head(inside) = inside[1] /\ 1 \in 1..Len(inside)
          /\ Len(inside') = Len(inside) - 1
          /\ inside' # <<>> => /\ inside'[Len(inside')] = inside[Len(inside)]
                               /\ Len(inside') \in DOMAIN inside'
      BY <2>1, PacketOut
    <2>3. sample'.n >= sample.n /\ sample'.stamp >= sample.stamp
      BY <2>1, <2>2 DEF Ordered, HeldInOrder, StampsInOrder, OnFrame
    <2>4. inside[Len(inside)] >= cur.n
      BY <2>1 DEF Ordered, LastHeld
    <2>5. CASE inside' = <<>>
      <3>1. Len(inside) = 1
        BY <2>2, <2>5
      <3> QED
        BY <2>1, <2>2, <2>3, <2>4, <3>1
    <2>6. CASE inside' # <<>>
      BY <2>1, <2>2, <2>3, <2>4, <2>6
    <2> QED
      BY <2>5, <2>6
  <1> QED
    BY <1>1, <1>2, OrderedStep, StampsAlways, TypeAlways, PTL DEF Spec, SamplesInOrder

-----------------------------------------------------------------------------
(***************************************************************************)
(* Codec data.  Once they are published for an encoder they are its own,   *)
(* and they are published before its first sample.                         *)
(***************************************************************************)
CodecDataPrecedesSamples ==
    /\ codecData >= sample.session
    /\ enc # "sample" => codecData = sample.session
Published ==
    /\ sample.session <= session
    /\ parametersSent => codecData = session
    /\ (sample.session = session /\ session # 0) => parametersSent
    /\ enc \in {"lock", "check", "drain", "sample"} => session # 0
    /\ enc = "sample" => parametersSent
    /\ CodecDataPrecedesSamples

LEMMA PublishedStep == TypeOK /\ Published /\ [Next]_vars => Published'
  <1> SUFFICES ASSUME TypeOK, Published, [Next]_vars PROVE Published'
    OBVIOUS
  <1>1. session \in Nat /\ sample.session \in Nat /\ codecData \in Nat /\ sets \in Nat
    BY DEF TypeOK
  <1>2. CASE UNCHANGED <<sample, session, parametersSent, codecData>>
             /\ (enc' = enc \/ enc' \in {"recv", "frame", "configure", "dead", "check", "drain"})
             /\ (enc' \in {"check", "drain"} => enc \in {"lock", "check", "drain"})
             /\ enc # "sample"
    BY <1>2 DEF Published, CodecDataPrecedesSamples
  <1>3. CASE UNCHANGED <<sample, session, parametersSent, codecData, enc>>
    BY <1>3 DEF Published, CodecDataPrecedesSamples
  <1>4. CASE RequestFrame
    BY <1>4 DEF RequestFrame, codecVars, Published, CodecDataPrecedesSamples
  <1>5. ASSUME NEW hasSets \in BOOLEAN, ReceivePacket(hasSets) PROVE Published'
    <2>1. /\ enc = "drain" /\ enc' = "sample" /\ UNCHANGED <<session, sample>>
          /\ sample.session # session => hasSets
      BY <1>5 DEF ReceivePacket
    <2>2. parametersSent' /\ codecData' = session
      <3>1. CASE parametersSent
        BY <1>5, <3>1 DEF ReceivePacket, SetsWanted, Published
      <3>2. CASE ~parametersSent
        <4>1. hasSets /\ session # 0
          BY <2>1, <3>2 DEF Published
        <4>2. /\ sets' = session
              /\ parametersSent' = (sets' # 0)
              /\ codecData' = IF parametersSent' THEN sets' ELSE codecData
          BY <1>5, <3>2, <4>1 DEF ReceivePacket, SetsWanted
        <4> QED
          BY <4>1, <4>2
      <3> QED
        BY <3>1, <3>2
    <2> QED
      BY <1>1, <2>1, <2>2 DEF Published, CodecDataPrecedesSamples
  <1>6. CASE BroadcastSample
    <2>1. /\ enc = "sample" /\ enc' = "drain" /\ sample'.session = session
          /\ UNCHANGED <<session, codecData, parametersSent>>
      BY <1>6 DEF BroadcastSample
    <2> QED
      BY <1>1, <2>1 DEF Published, CodecDataPrecedesSamples
  <1>7. CASE OpenEncoder
    <2>1. /\ enc = "configure" /\ enc' = "recv" /\ session' = session + 1 /\ ~parametersSent'
          /\ UNCHANGED <<codecData, sample>>
      BY <1>7 DEF OpenEncoder, NextCommand
    <2> QED
      BY <1>1, <2>1 DEF Published, CodecDataPrecedesSamples
  <1>8. CASE Receive
    <2>1. Head(cmd) \in Commands
      BY <1>8 DEF Receive, TypeOK
    <2>2. enc = "recv" /\ enc' \in {"frame", "configure"}
      BY <1>8, <2>1 DEF Receive, Commands
    <2> QED
      BY <1>2, <1>8, <2>2 DEF Receive, codecVars
  <1>9. CASE SkipFrame \/ LockBuffer \/ DropMisfit \/ Encode \/ FrameDone
             \/ SameConfiguration \/ EncoderFails
    <2>1. /\ UNCHANGED <<sample, session, parametersSent, codecData>>
          /\ enc \in {"frame", "lock", "check", "drain", "configure"}
          /\ enc' \in {"recv", "dead", "check", "drain"}
          /\ enc' \in {"check", "drain"} => enc \in {"lock", "check", "drain"}
      BY <1>9 DEF SkipFrame, LockBuffer, DropMisfit, Encode, FrameDone, SameConfiguration,
         EncoderFails, NextCommand, codecVars
    <2> QED
      BY <1>2, <2>1
  <1>10. CASE DriverNext \/ ControlNext \/ FrameTaskNext \/ EmptyPacket
              \/ Subscribe \/ Unsubscribe \/ UNCHANGED vars
    BY <1>3, <1>10 DEF DriverNext, SwitchMode, AcquireFrame, SendFrameLock, SendFrameCopy,
       ControlNext, CallConfigure, CallConfigureTorn, ConfigureSend, ConfigureStore,
       FrameTaskNext, SyncFirstFrame, FrameTaskLock, LoadSize, SendFrameReplace,
       SendFrameNotify, EmptyPacket, Subscribe, Unsubscribe, vars, codecVars
  <1> QED
    BY <1>4, <1>5, <1>6, <1>7, <1>8, <1>9, <1>10 DEF Next, EncoderStep

\* Published says what SampleSource needs to know of a step of the codec.
LEMMA SourceStep == TypeOK /\ Published /\ [Next]_vars => [Source!SourceNext]_(Source!sourceVars)
  <1> SUFFICES ASSUME TypeOK, Published, [Next]_vars
               PROVE  Source!SourceNext \/ UNCHANGED <<Visible, session, codecData>>
    BY DEF Source!sourceVars
  <1>1. CASE UNCHANGED <<enc, session, codecData>>
    BY <1>1 DEF Visible
  <1>2. CASE Receive
    <2>1. Head(cmd) \in Commands
      BY <1>2 DEF Receive, TypeOK
    <2>2. enc = "recv" /\ enc' \in {"frame", "configure"} /\ UNCHANGED <<session, codecData>>
      BY <1>2, <2>1 DEF Receive, Commands, codecVars
    <2> QED
      BY <2>2 DEF Visible
  <1>3. CASE SkipFrame \/ SameConfiguration \/ LockBuffer \/ Encode
    BY <1>3 DEF SkipFrame, SameConfiguration, LockBuffer, Encode, NextCommand, codecVars, Visible
  <1>4. CASE RequestFrame
    BY <1>4 DEF RequestFrame, codecVars, Visible, Source!StartFrame, Source!SourceNext
  <1>5. CASE DropMisfit \/ FrameDone
    BY <1>5 DEF DropMisfit, FrameDone, NextCommand, codecVars, Visible, Source!FrameDone,
       Source!SourceNext
  <1>6. ASSUME NEW hasSets \in BOOLEAN, ReceivePacket(hasSets) PROVE Source!ReceivePacket
    <2>1. enc = "drain" /\ enc' = "sample" /\ UNCHANGED session
      BY <1>6 DEF ReceivePacket
    <2>2. codecData' = session
      BY <1>6, PublishedStep, <2>1 DEF Published, Next, EncoderStep
    <2> QED
      BY <2>1, <2>2 DEF Visible, Source!ReceivePacket
  <1>7. CASE BroadcastSample
    BY <1>7 DEF BroadcastSample, Visible, Source!SendSample, Source!SourceNext
  <1>8. CASE OpenEncoder
    BY <1>8 DEF OpenEncoder, NextCommand, Visible, Source!OpenEncoder, Source!SourceNext
  <1>9. CASE EncoderFails
    BY <1>9 DEF EncoderFails, codecVars, Visible, Source!EncoderFails, Source!SourceNext
  <1>10. CASE DriverNext \/ ControlNext \/ FrameTaskNext \/ EmptyPacket
              \/ Subscribe \/ Unsubscribe \/ UNCHANGED vars
    BY <1>1, <1>10 DEF DriverNext, SwitchMode, AcquireFrame, SendFrameLock, SendFrameCopy,
       ControlNext, CallConfigure, CallConfigureTorn, ConfigureSend, ConfigureStore,
       FrameTaskNext, SyncFirstFrame, FrameTaskLock, LoadSize, SendFrameReplace,
       SendFrameNotify, EmptyPacket, Subscribe, Unsubscribe, vars, codecVars
  <1> QED
    BY <1>2, <1>3, <1>4, <1>5, <1>6, <1>7, <1>8, <1>9, <1>10
       DEF Next, EncoderStep, Source!SourceNext

\* A broadcast sample finds the parameter sets of its encoder in the codec data
\* watch, and the watch keeps them until those of the next encoder are there.
THEOREM CodecDataFirst == Spec => []CodecDataPrecedesSamples
  <1>1. Init => Published
    BY DEF Init, Published, CodecDataPrecedesSamples
  <1>2. Published => CodecDataPrecedesSamples
    BY DEF Published
  <1> QED
    BY <1>1, <1>2, PublishedStep, TypeAlways, PTL DEF Spec

\* The encoding thread, with all its frames, locks, commands and failures, does
\* nothing to the clients that SampleSource does not do (run encoder_safety).
THEOREM SampleSourceKept == Spec => IsSampleSource
  <1>1. Init => Published
    BY DEF Init, Published, CodecDataPrecedesSamples
  <1>2. Init => Source!SourceInit
    BY DEF Init, Visible, Source!SourceInit
  <1> QED
    BY <1>1, <1>2, PublishedStep, SourceStep, TypeAlways, PTL
       DEF Spec, IsSampleSource, Source!SourceSpec
-----------------------------------------------------------------------------
(***************************************************************************)
(* Sizes.  Outside of its stores, the control thread leaves Monitor's      *)
(* width and height as the last configuration it sent, which is in the     *)
(* channel, being worked on, or the encoder's.                             *)
(***************************************************************************)
Queued == cmd # <<>> /\ Head(cmd).kind = "configure"
LastSent == IF Queued THEN Head(cmd).mode
            ELSE IF enc = "configure" THEN cur.mode ELSE encMode
Sizes ==
    enc # "dead" =>
        \A f \in SizeFields :
            /\ ctl = "store" => arg[f] = LastSent[f]
            /\ (ctl = "store" => f \notin toStore) => atomics[f] = LastSent[f]

LEMMA SizesKept ==
    ASSUME Sizes, enc # "dead",
           \A f \in SizeFields : LastSent'[f] = LastSent[f], UNCHANGED ctlVars
    PROVE  Sizes'
  BY DEF Sizes, ctlVars

LEMMA SizesStep == TypeOK /\ Sizes /\ [Next]_vars => Sizes'
  <1> SUFFICES ASSUME TypeOK, Sizes, [Next]_vars, enc' # "dead" PROVE Sizes'
    BY DEF Sizes
  <1>0. enc # "dead"
    BY DEF Next, DriverNext, SwitchMode, AcquireFrame, SendFrameLock, SendFrameCopy,
       ControlNext, CallConfigure, CallConfigureTorn, ConfigureSend, ConfigureStore,
       FrameTaskNext, SyncFirstFrame, FrameTaskLock, LoadSize, SendFrameReplace,
       SendFrameNotify, EncoderStep, Receive, SkipFrame, RequestFrame, LockBuffer,
       DropMisfit, Encode, ReceivePacket, BroadcastSample, EmptyPacket, FrameDone,
       SameConfiguration, OpenEncoder, EncoderFails, Subscribe, Unsubscribe, vars
  <1>1. CASE UNCHANGED <<cmd, enc, cur, encMode, ctlVars>>
    BY <1>0, <1>1, SizesKept DEF LastSent, Queued
  <1>2. CASE CallConfigure \/ \E m \in TornModes : CallConfigureTorn(m)
    <2>1. /\ ctl = "idle" /\ ctl' = "send" /\ UNCHANGED <<atomics, cmd, enc, cur, encMode>>
      BY <1>2 DEF CallConfigure, CallConfigureTorn, codecVars
    <2> QED
      BY <1>0, <2>1 DEF Sizes, LastSent, Queued
  <1>3. CASE ConfigureSend
    <2>1. cmd = <<>> /\ cmd' = <<ConfigureTo(arg)>>
      BY <1>0, <1>3 DEF ConfigureSend, MaySend, Offer
    <2>2. LastSent' = arg
      BY <2>1 DEF LastSent, Queued, ConfigureTo
    <2>3. toStore' = SizeFields /\ arg' = arg /\ ctl' = "store"
      BY <1>3 DEF ConfigureSend
    <2> QED
      BY <2>2, <2>3 DEF Sizes
  <1>4. ASSUME NEW f \in SizeFields, ConfigureStore(f) PROVE Sizes'
    <2>1. /\ ctl = "store" /\ atomics' = [atomics EXCEPT ![f] = arg[f]]
          /\ toStore' = toStore \ {f}
          /\ \/ toStore' = {} /\ ctl' = "idle"
             \/ UNCHANGED <<ctl, arg>>
          /\ LastSent' = LastSent
      BY <1>4 DEF ConfigureStore, LastSent, Queued, codecVars
    <2>2. \A g \in SizeFields : arg[g] = LastSent[g]
      BY <1>0, <2>1 DEF Sizes
    <2>3. \A g \in SizeFields \ toStore' : atomics'[g] = LastSent'[g]
      BY <1>0, <2>1, <2>2 DEF Sizes, TypeOK
    <2> QED
      BY <2>1, <2>2, <2>3 DEF Sizes
  <1>5. CASE SendFrameNotify
    <2>1. /\ cmd' = cmd \/ (cmd = <<>> /\ cmd' = <<NewFrame(fb.n)>>)
          /\ UNCHANGED <<enc, cur, encMode, ctlVars>>
      BY <1>5 DEF SendFrameNotify, Offer, codecVars
    <2>2. LastSent' = LastSent
      BY <2>1 DEF LastSent, Queued, NewFrame
    <2> QED
      BY <1>0, <2>1, <2>2, SizesKept
  <1>6. CASE Receive
    <2>1. Head(cmd) \in Commands
      BY <1>6 DEF Receive, TypeOK
    <2>2. /\ enc = "recv" /\ cmd # <<>> /\ cmd' = <<>> /\ cur' = Head(cmd)
          /\ enc' = Head(cmd).kind /\ UNCHANGED <<encMode, ctlVars>>
      BY <1>6 DEF Receive, codecVars
    <2>3. LastSent' = LastSent
      BY <2>1, <2>2 DEF LastSent, Queued, Commands
    <2> QED
      BY <1>0, <2>2, <2>3, SizesKept
  <1>7. CASE SameConfiguration \/ OpenEncoder
    <2>1. cur.mode \in [ModeFields -> Nat] /\ encMode \in [ModeFields -> Nat]
      BY ConfigurationType DEF TypeOK, Commands
    <2>2. encMode' = Normal(cur.mode) \/ (encMode' = encMode /\ cur.mode = encMode)
      BY <1>7 DEF SameConfiguration, OpenEncoder, NoChange, codecVars
    <2>3. \A f \in SizeFields : encMode'[f] = cur.mode[f]
      BY <2>1, <2>2, NormalType
    <2>4. enc = "configure" /\ enc' = "recv" /\ UNCHANGED <<cmd, ctlVars>>
      BY <1>7 DEF SameConfiguration, OpenEncoder, NextCommand
    <2>5. \A f \in SizeFields : LastSent'[f] = LastSent[f]
      BY <2>3, <2>4 DEF LastSent, Queued
    <2> QED
      BY <1>0, <2>4, <2>5, SizesKept
  <1>8. CASE SkipFrame \/ RequestFrame \/ LockBuffer \/ DropMisfit \/ Encode \/ BroadcastSample
             \/ EmptyPacket \/ FrameDone \/ \E hasSets \in BOOLEAN : ReceivePacket(hasSets)
    <2>1. /\ enc # "configure" /\ enc' # "configure" /\ UNCHANGED <<cmd, encMode, ctlVars>>
      BY <1>8 DEF SkipFrame, RequestFrame, LockBuffer, DropMisfit, Encode, BroadcastSample,
         EmptyPacket, FrameDone, ReceivePacket, NextCommand, codecVars
    <2> QED
      BY <1>0, <2>1, SizesKept DEF LastSent, Queued
  <1>9. CASE DriverNext \/ SyncFirstFrame \/ FrameTaskLock \/ SendFrameReplace
             \/ (\E f \in SizeFields : LoadSize(f)) \/ Subscribe \/ Unsubscribe \/ UNCHANGED vars
    BY <1>1, <1>9 DEF DriverNext, SwitchMode, AcquireFrame, SendFrameLock, SendFrameCopy,
       SyncFirstFrame, FrameTaskLock, LoadSize, SendFrameReplace, Subscribe, Unsubscribe,
       vars, codecVars
  <1>10. ~EncoderFails
    BY DEF EncoderFails
  <1> QED
    BY <1>2, <1>3, <1>4, <1>5, <1>6, <1>7, <1>8, <1>9, <1>10
       DEF Next, ControlNext, FrameTaskNext, EncoderStep

LEMMA OnlyPacketsAnnounce ==
    [Next]_vars /\ codecData' # codecData => enc = "drain"
  BY DEF Next, DriverNext, SwitchMode, AcquireFrame, SendFrameLock, SendFrameCopy,
     ControlNext, CallConfigure, CallConfigureTorn, ConfigureSend, ConfigureStore,
     FrameTaskNext, SyncFirstFrame, FrameTaskLock, LoadSize, SendFrameReplace,
     SendFrameNotify, EncoderStep, Receive, SkipFrame, RequestFrame, LockBuffer,
     DropMisfit, Encode, ReceivePacket, BroadcastSample, EmptyPacket, FrameDone,
     SameConfiguration, OpenEncoder, EncoderFails, Subscribe, Unsubscribe, vars, codecVars

\* Codec data are announced while Monitor holds their encoder's size, or while
\* the call that opened it is storing it, or with a newer configure queued,
\* whatever the modes and however often they are switched (run encoder_safety).
THEOREM AnnouncedSize == Spec => AnnouncedWithItsSize
  <1>1. Init => Sizes
    BY DEF Init, Sizes, LastSent, Queued, NoSize, Unset, SizeFields, ModeFields
  <1>2. Sizes /\ [Next]_vars =>
          [codecData' # codecData =>
             \/ \A f \in SizeFields : atomics[f] = encMode[f]
             \/ cmd # <<>> /\ Head(cmd).kind = "configure"
             \/ ctl = "store" /\ \A f \in SizeFields : arg[f] = encMode[f]]_codecData
    <2> SUFFICES ASSUME Sizes, [Next]_vars, codecData' # codecData, ~Queued
                 PROVE  \/ \A f \in SizeFields : atomics[f] = encMode[f]
                        \/ ctl = "store" /\ \A f \in SizeFields : arg[f] = encMode[f]
      BY DEF Queued
    <2>1. enc = "drain"
      BY OnlyPacketsAnnounce
    <2>2. LastSent = encMode
      BY <2>1 DEF LastSent
    <2> QED
      BY <2>1, <2>2 DEF Sizes
  <1> QED
    BY <1>1, <1>2, SizesStep, TypeAlways, PTL DEF Spec, AnnouncedWithItsSize
=============================================================================
