------------------------ MODULE ConfigChannelProofs ------------------------
(***************************************************************************)
(* Theorems about ConfigChannel, for every set of modes and every bound.   *)
(*                                                                         *)
(* NoLostConfiguration is not inductive: it says nothing while a commit is *)
(* being written or a read is in progress.  Delivery strengthens it with   *)
(* what the block holds after the stores done so far, and with what a read *)
(* that started after the last commit has loaded so far.                   *)
(***************************************************************************)
EXTENDS ConfigChannel, TLAPS

\* When the driver is not inside CommitModes and the control thread sleeps on
\* an unset event, the monitor runs the last committed mode: neither the
\* unlocked writes, nor an event consumed too early, nor a restart of either
\* process can leave a committed mode undelivered to a control loop that is
\* alive (MonitorClient::CommitModes against the loop of entry()).
NoLostConfiguration ==
    (/\ driver = "idle"
     /\ committed # Unset
     /\ vd = "wait"
     /\ phase = "control"
     /\ ~event) => applied = committed

\* The stores a CommitModes call has done are in the block; nobody else writes
\* those words while the client exists.
StoresLanded ==
    driver = "write" => \A f \in ModeFields \ toWrite : block[f] = mode[f]

\* A committed mode is in the block until the next call.
CommitStays ==
    (driver = "idle" /\ committed # Unset) =>
        \A f \in ModeFields : block[f] = committed[f]

\* Once the event is consumed, the read that follows can only see the last
\* committed mode.
FreshRead ==
    (driver = "idle" /\ committed # Unset /\ ~event) =>
        /\ vd = "read" => \A f \in ModeFields \ toRead : got[f] = committed[f]
        /\ vd = "apply" => \A f \in ModeFields : got[f] = committed[f]
        /\ (vd = "wait" /\ phase = "control") => applied = committed

\* A client that is not up yet, or no longer, has committed nothing.
NotUpNotCommitted ==
    driver \in {"off", "map", "clear", "closing"} => committed = Unset

Delivery ==
    TypeOK /\ NotUpNotCommitted /\ StoresLanded /\ CommitStays /\ FreshRead

-----------------------------------------------------------------------------
LEMMA UnsetType == Unset \in [ModeFields -> Nat]
  BY DEF Unset

LEMMA BlockOfType ==
    ASSUME NEW m \in Modes \cup {Unset}
    PROVE  /\ BlockOf(m) \in [Fields -> Nat]
           /\ \A f \in ModeFields : BlockOf(m)[f] = m[f]
           /\ BlockOf(m)["configured"] = 1
  BY ModesAssumption DEF BlockOf, Fields, ModeFields, Unset

LEMMA FreshBlockType == FreshBlock \in [Fields -> Nat]
  BY DEF FreshBlock

LEMMA ModeType ==
    ASSUME NEW m \in Modes \cup {Unset}
    PROVE  m \in [ModeFields -> Nat]
  BY ModesAssumption, UnsetType

\* The variables keep their types and the mutex its holder's critical section,
\* initially ...
LEMMA TypeInit == Init => TypeOK
  <1> SUFFICES ASSUME Init PROVE TypeOK
    OBVIOUS
  <1> QED
    BY UnsetType, FreshBlockType DEF Init, TypeOK

\* ... and in every step.
LEMMA TypeStep == TypeOK /\ [Next]_vars => TypeOK'
  <1> SUFFICES ASSUME TypeOK, [Next]_vars PROVE TypeOK'
    OBVIOUS
  <1> USE DEF TypeOK
  <1>1. CASE DriverNext
    <2>1. CASE DriverOpenEvents
      BY <2>1 DEF DriverOpenEvents, vdVars, counters
    <2>2. CASE DriverOpenMapping
      BY <2>2 DEF DriverOpenMapping, vdVars, counters
    <2>3. CASE DriverClear
      BY <2>3 DEF DriverClear, vdVars, counters, Fields
    <2>4. ASSUME NEW m \in Modes, CommitModes(m) PROVE TypeOK'
      BY <2>4 DEF CommitModes, vdVars
    <2>5. ASSUME NEW f \in Fields, WriteField(f) PROVE TypeOK'
      BY <2>5, BlockOfType DEF WriteField, vdVars, counters
    <2>6. CASE SetConfigureEvent
      BY <2>6 DEF SetConfigureEvent, Signalled, vdVars, counters
    <2>7. CASE SwapChainLock
      BY <2>7 DEF SwapChainLock, driverVars, vdVars, counters
    <2>8. CASE SwapChainUnlock
      BY <2>8 DEF SwapChainUnlock, driverVars, vdVars, counters
    <2>9. CASE DriverDestroy
      BY <2>9, FreshBlockType DEF DriverDestroy, vdVars
    <2>10. CASE DriverRelease
      BY <2>10 DEF DriverRelease, vdVars, counters
    <2>11. CASE DriverCrash
      BY <2>11, FreshBlockType DEF DriverCrash, Abandon, vdVars
    <2> QED
      BY <1>1, <2>1, <2>2, <2>3, <2>4, <2>5, <2>6, <2>7, <2>8, <2>9, <2>10, <2>11
         DEF DriverNext
  <1>2. CASE VdNext
    <2>1. CASE VdOpenEvents
      BY <2>1 DEF VdOpenEvents, driverVars, counters
    <2>2. CASE VdOpenMapping
      BY <2>2 DEF VdOpenMapping, driverVars, counters
    <2>3. CASE VdLock
      BY <2>3 DEF VdLock, driverVars, counters
    <2>4. CASE VdZero
      BY <2>4 DEF VdZero, driverVars, counters, Fields
    <2>5. ASSUME NEW f \in Fields, ReadField(f) PROVE TypeOK'
      BY <2>5 DEF ReadField, driverVars, counters
    <2>6. CASE ReadSome
      BY <2>6 DEF ReadSome, driverVars, counters
    <2>7. CASE ReadNone
      BY <2>7 DEF ReadNone, driverVars, counters
    <2>8. CASE Configure
      BY <2>8 DEF Configure, driverVars, counters, Fields
    <2>9. CASE WaitConfigureEvent
      BY <2>9 DEF WaitConfigureEvent, driverVars, counters
    <2>10. CASE FrameTaskLock
      BY <2>10 DEF FrameTaskLock, driverVars, vdVars, counters
    <2>11. CASE FrameTaskUnlock
      BY <2>11 DEF FrameTaskUnlock, driverVars, vdVars, counters
    <2>12. CASE VdExit
      BY <2>12, UnsetType, FreshBlockType DEF VdExit, Abandon, driverVars
    <2> QED
      BY <1>2, <2>1, <2>2, <2>3, <2>4, <2>5, <2>6, <2>7, <2>8, <2>9, <2>10,
         <2>11, <2>12
         DEF VdNext
  <1>3. CASE UNCHANGED vars
    BY <1>3 DEF vars, driverVars, vdVars, counters
  <1> QED
    BY <1>1, <1>2, <1>3 DEF Next

\* The type invariant, which includes that the frame buffer mutex is held by
\* exactly the thread inside its critical section, holds for every number of
\* commits, restarts and modes.
THEOREM TypeCorrect == Spec => []TypeOK
  BY TypeInit, TypeStep, PTL DEF Spec

-----------------------------------------------------------------------------
LEMMA DeliveryInit == Init => Delivery
  BY TypeInit
     DEF Init, Delivery, NotUpNotCommitted, StoresLanded, CommitStays, FreshRead

LEMMA DeliveryStep == Delivery /\ [Next]_vars => Delivery'
  <1> SUFFICES ASSUME Delivery, [Next]_vars PROVE Delivery'
    OBVIOUS
  <1>0. TypeOK /\ TypeOK'
    BY TypeStep DEF Delivery
  <1> DEFINE Facts ==
        NotUpNotCommitted /\ StoresLanded /\ CommitStays /\ FreshRead
  <1> SUFFICES Facts'
    BY <1>0 DEF Delivery
  <1>00. Facts
    BY DEF Delivery
  <1> USE <1>0, <1>00
      DEF TypeOK, NotUpNotCommitted, StoresLanded, CommitStays, FreshRead
  <1>1. CASE DriverNext
    <2>1. CASE DriverOpenEvents
      BY <2>1 DEF DriverOpenEvents
    <2>2. CASE DriverOpenMapping
      BY <2>2 DEF DriverOpenMapping
    <2>3. CASE DriverClear
      BY <2>3 DEF DriverClear
    <2>4. ASSUME NEW m \in Modes, CommitModes(m) PROVE Facts'
      BY <2>4 DEF CommitModes, Fields
    <2>5. ASSUME NEW f \in Fields, WriteField(f) PROVE Facts'
      BY <2>5, BlockOfType DEF WriteField
    <2>6. CASE SetConfigureEvent
      BY <2>6 DEF SetConfigureEvent, Signalled
    <2>7. CASE SwapChainLock
      BY <2>7 DEF SwapChainLock, driverVars, vdVars
    <2>8. CASE SwapChainUnlock
      BY <2>8 DEF SwapChainUnlock, driverVars, vdVars
    <2>9. CASE DriverDestroy
      BY <2>9 DEF DriverDestroy
    <2>10. CASE DriverRelease
      BY <2>10 DEF DriverRelease
    <2>11. CASE DriverCrash
      BY <2>11 DEF DriverCrash
    <2> QED
      BY <1>1, <2>1, <2>2, <2>3, <2>4, <2>5, <2>6, <2>7, <2>8, <2>9, <2>10, <2>11
         DEF DriverNext
  <1>2. CASE VdNext
    <2>1. CASE VdOpenEvents
      BY <2>1 DEF VdOpenEvents, driverVars
    <2>2. CASE VdOpenMapping
      BY <2>2 DEF VdOpenMapping, driverVars
    <2>3. CASE VdLock
      BY <2>3 DEF VdLock, driverVars, Fields
    <2>4. CASE VdZero
      BY <2>4 DEF VdZero, driverVars, ModeFields
    <2>5. ASSUME NEW f \in Fields, ReadField(f) PROVE Facts'
      BY <2>5 DEF ReadField, driverVars
    <2>6. CASE ReadSome
      BY <2>6 DEF ReadSome, driverVars
    <2>7. CASE ReadNone
      BY <2>7 DEF ReadNone, driverVars
    <2>8. CASE Configure
      <3>1. applied' \in [ModeFields -> Nat] /\ committed \in [ModeFields -> Nat]
        BY ModeType DEF TypeOK
      <3> QED
        BY <2>8, <3>1 DEF Configure, driverVars
    <2>9. CASE WaitConfigureEvent
      BY <2>9 DEF WaitConfigureEvent, driverVars
    <2>10. CASE FrameTaskLock
      BY <2>10 DEF FrameTaskLock, driverVars, vdVars
    <2>11. CASE FrameTaskUnlock
      BY <2>11 DEF FrameTaskUnlock, driverVars, vdVars
    <2>12. CASE VdExit
      BY <2>12 DEF VdExit, driverVars, DriverHoldsMapping, DriverHoldsEvent
    <2> QED
      BY <1>2, <2>1, <2>2, <2>3, <2>4, <2>5, <2>6, <2>7, <2>8, <2>9, <2>10,
         <2>11, <2>12
         DEF VdNext
  <1>3. CASE UNCHANGED vars
    BY <1>3 DEF vars, driverVars, vdVars, counters
  <1> QED
    BY <1>1, <1>2, <1>3 DEF Next

\* No commit is lost: a control thread asleep on an unset event has handed the
\* last committed mode to the monitor, for every interleaving of the unlocked
\* stores and loads and every restart of either process.
THEOREM NoCommitIsLost == Spec => []NoLostConfiguration
  <1>1. Delivery => NoLostConfiguration
    BY DEF Delivery, FreshRead, NoLostConfiguration
  <1> QED
    BY <1>1, DeliveryInit, DeliveryStep, PTL DEF Spec

-----------------------------------------------------------------------------
(***************************************************************************)
(* ConfigChannel implements ConfigureCalls.  Delivery answers for the last *)
(* call; for the others it remains to see that stores and loads, in any    *)
(* order, mix words of modes and nothing else.                             *)
(***************************************************************************)
Word(x, f) == x = 0 \/ \E m \in Modes : x = m[f]
Mixed == \A f \in ModeFields : Word(block[f], f) /\ Word(got[f], f)

LEMMA MixedInit == Init => Mixed
  BY DEF Init, Mixed, Word, FreshBlock, Fields

LEMMA MixedStep == TypeOK /\ Mixed /\ [Next]_vars => Mixed'
  <1> SUFFICES ASSUME TypeOK, Mixed, [Next]_vars, NEW f \in ModeFields
               PROVE  Word(block'[f], f) /\ Word(got'[f], f)
    BY DEF Mixed, Word
  <1>1. Word(block[f], f) /\ Word(got[f], f) /\ f \in Fields /\ f # "configured"
    BY DEF Mixed, Fields, ModeFields
  <1>2. Word(FreshBlock[f], f)
    BY <1>1 DEF FreshBlock, Word
  <1>3. CASE UNCHANGED <<block, got>>
    BY <1>1, <1>3
  <1>4. CASE DriverClear \/ VdZero
    BY <1>1, <1>4 DEF DriverClear, VdZero, vdVars, TypeOK
  <1>5. ASSUME NEW g \in Fields, WriteField(g) PROVE Word(block'[f], f) /\ Word(got'[f], f)
    <2>1. Word(BlockOf(mode)[f], f)
      BY BlockOfType DEF TypeOK, Word, Unset
    <2>2. block'[f] = block[f] \/ block'[f] = BlockOf(mode)[f]
      BY <1>1, <1>5 DEF WriteField, TypeOK
    <2> QED
      BY <1>1, <1>5, <2>1, <2>2 DEF WriteField, vdVars
  <1>6. ASSUME NEW g \in Fields, ReadField(g) PROVE Word(block'[f], f) /\ Word(got'[f], f)
    BY <1>1, <1>6 DEF ReadField, TypeOK
  <1>7. CASE DriverDestroy \/ DriverCrash \/ VdExit
    BY <1>1, <1>2, <1>7 DEF DriverDestroy, DriverCrash, VdExit, vdVars
  <1> QED
    BY <1>3, <1>4, <1>5, <1>6, <1>7
       DEF Next, DriverNext, VdNext, vars, driverVars, vdVars, DriverOpenEvents,
           DriverOpenMapping, CommitModes, SetConfigureEvent, SwapChainLock,
           SwapChainUnlock, DriverRelease, VdOpenEvents, VdOpenMapping, VdLock, ReadSome,
           ReadNone, Configure, WaitConfigureEvent, FrameTaskLock, FrameTaskUnlock

Owed ==
    \/ Display = Unset
    \/ driver = "write" \/ event
    \/ vd # "wait" \/ phase # "control"

LEMMA CallsStep == Delivery /\ Mixed /\ [Next]_vars => [Calls!CallsNext]_(Calls!callsVars)
  <1> SUFFICES ASSUME Delivery, Mixed, [Next]_vars
               PROVE  \/ Calls!CallsNext
                      \/ Display' = Display /\ Owed' = Owed /\ applied' = applied
    BY DEF Calls!callsVars, Owed
  <1>0. TypeOK /\ NotUpNotCommitted
    BY DEF Delivery
  <1> DEFINE Same == UNCHANGED <<Display, Owed, applied>>
  <1>1. CASE DriverNext
    <2>1. CASE DriverOpenEvents \/ DriverOpenMapping \/ DriverClear \/ DriverRelease
      <3>1. Display = Unset /\ Display' = Unset /\ UNCHANGED applied
        BY <1>0, <2>1 DEF DriverOpenEvents, DriverOpenMapping, DriverClear, DriverRelease,
           NotUpNotCommitted, Display, vdVars
      <3> QED
        BY <3>1 DEF Owed
    <2>2. ASSUME NEW m \in Modes, CommitModes(m) PROVE Calls!Switch
      BY <2>2 DEF CommitModes, Calls!Switch, Display, vdVars
    <2>3. ASSUME NEW f \in Fields, WriteField(f) PROVE Same
      BY <2>3 DEF WriteField, Display, Owed, vdVars
    <2>4. CASE SetConfigureEvent
      BY <2>4 DEF SetConfigureEvent, Signalled, Display, Owed, vdVars
    <2>5. CASE SwapChainLock \/ SwapChainUnlock
      BY <2>5 DEF SwapChainLock, SwapChainUnlock, Display, Owed, driverVars, vdVars
    <2>6. CASE DriverDestroy \/ DriverCrash
      BY <2>6 DEF DriverDestroy, DriverCrash, Calls!MonitorGone, Calls!CallsNext, Display, vdVars
    <2> QED
      BY <1>1, <2>1, <2>2, <2>3, <2>4, <2>5, <2>6 DEF DriverNext, Calls!CallsNext
  <1>2. CASE VdNext
    <2>1. CASE VdOpenEvents \/ VdOpenMapping \/ VdLock \/ VdZero \/ ReadSome
      BY <2>1 DEF VdOpenEvents, VdOpenMapping, VdLock, VdZero, ReadSome, Display, Owed,
         driverVars
    <2>2. ASSUME NEW f \in Fields, ReadField(f) PROVE Same
      BY <2>2 DEF ReadField, Display, Owed, driverVars
    <2>3. CASE ReadNone
      BY <2>3 DEF ReadNone, Display, Owed, driverVars
    <2>4. CASE Configure
      <3>1. /\ Owed /\ UNCHANGED Display
            /\ applied' = [f \in ModeFields |-> got[f]]
        BY <2>4 DEF Configure, Owed, Display, driverVars
      <3>2. applied' \in Calls!Mixtures
        BY <3>1, <1>0 DEF Calls!Mixtures, Mixed, Word, TypeOK, Fields
      <3>3. CASE Owed'
        BY <3>1, <3>2, <3>3 DEF Calls!CallTorn, Calls!CallsNext, Owed
      <3>4. CASE ~Owed'
        <4>1. driver = "idle" /\ ~event /\ Display = committed /\ committed # Unset
          BY <3>1, <3>4, <2>4, <1>0 DEF Owed, Configure, Display, driverVars,
             NotUpNotCommitted, TypeOK
        <4>2. \A f \in ModeFields : got[f] = committed[f]
          BY <4>1, <2>4 DEF Delivery, FreshRead, Configure
        <4>3. committed \in [ModeFields -> Nat]
          BY <1>0, ModeType DEF TypeOK
        <4>4. applied' = Display
          BY <3>1, <4>1, <4>2, <4>3
        <4> QED
          BY <3>1, <3>4, <4>1, <4>4 DEF Calls!Call, Calls!CallsNext, Owed
      <3> QED
        BY <3>3, <3>4
    <2>5. CASE WaitConfigureEvent
      BY <2>5 DEF WaitConfigureEvent, Display, Owed, driverVars
    <2>6. CASE FrameTaskLock \/ FrameTaskUnlock
      BY <2>6 DEF FrameTaskLock, FrameTaskUnlock, Display, Owed, driverVars, vdVars
    <2>7. CASE VdExit
      BY <2>7 DEF VdExit, Calls!ServiceEnds, Calls!CallsNext, Display, driverVars
    <2> QED
      BY <1>2, <2>1, <2>2, <2>3, <2>4, <2>5, <2>6, <2>7 DEF VdNext
  <1>3. CASE UNCHANGED vars
    BY <1>3 DEF vars, driverVars, vdVars, Display, Owed
  <1> QED
    BY <1>1, <1>2, <1>3 DEF Next

\* Two processes that race over four words and may end at any step make only
\* the calls of Monitor::configure that EncoderPipeline counts on: any that is not
\* the present mode is a mixture and is made up for (run config_restarts).
THEOREM ConfigureCallsAreMade == Spec => MakesConfigureCalls
  <1>0. Delivery => TypeOK
    BY DEF Delivery
  <1>1. Init => Calls!CallsInit
    BY DEF Init, Calls!CallsInit, Display
  <1> QED
    BY <1>0, <1>1, DeliveryInit, DeliveryStep, MixedInit, MixedStep, CallsStep, PTL
       DEF Spec, MakesConfigureCalls, Calls!CallsSpec

-----------------------------------------------------------------------------
(***************************************************************************)
(* When the monitor is up before the service starts, and stays, no read    *)
(* can come back empty where the code asserts that it cannot.              *)
(***************************************************************************)

\* The reads after an event: the control loop's and the retry of startup.
AfterEvent == vd \in {"lock", "read"} /\ phase \in {"retry", "control"}

Readable ==
    /\ TypeOK
    /\ driver \in {"idle", "write"}
    /\ vd \notin {"zeroLock", "zero", "panicked", "dead"}
    /\ vd \in {"off", "map"} => phase = "initial"
    /\ driver = "write" =>
         ("configured" \in toWrite \/ block["configured"] = 1)
    /\ (event \/ AfterEvent) => block["configured"] = 1
    /\ (vd = "read" /\ AfterEvent) =>
         ("configured" \in toRead \/ got["configured"] = 1)

LEMMA ReadableInit == DriverStartsFirst /\ Init => Readable
  BY TypeInit DEF Init, Readable, AfterEvent

\* The number of ends of the driver never falls.
LEMMA ReadableStep ==
    ((driverExits = 0 => Readable) /\ TypeOK /\ [Next]_vars) => (driverExits' = 0 => Readable')
  <1> SUFFICES ASSUME driverExits = 0 => Readable, TypeOK, [Next]_vars, driverExits' = 0
               PROVE  Readable'
    OBVIOUS
  <1>0. TypeOK /\ TypeOK'
    BY TypeStep
  <1>a. ~DriverDestroy /\ ~DriverCrash
    BY <1>0 DEF DriverDestroy, DriverCrash, TypeOK
  <1>b. driverExits = 0
    <2>1. CASE DriverNext
      BY <1>a, <2>1
         DEF DriverNext, DriverOpenEvents, DriverOpenMapping, DriverClear, CommitModes,
             WriteField, SetConfigureEvent, SwapChainLock, SwapChainUnlock,
             DriverRelease, counters
    <2>2. CASE VdNext
      BY <2>2
         DEF VdNext, VdOpenEvents, VdOpenMapping, VdLock, VdZero, ReadField, ReadSome,
             ReadNone, Configure, WaitConfigureEvent, FrameTaskLock, FrameTaskUnlock,
             VdExit, counters
    <2>3. CASE UNCHANGED vars
      BY <2>3 DEF vars, counters
    <2> QED
      BY <2>1, <2>2, <2>3 DEF Next
  <1> USE <1>0, <1>b DEF Readable, AfterEvent
  <1>1. CASE DriverNext
    <2>1. ~(DriverOpenEvents \/ DriverOpenMapping \/ DriverClear \/ DriverRelease)
      BY DEF DriverOpenEvents, DriverOpenMapping, DriverClear, DriverRelease
    <2>2. ~(DriverDestroy \/ DriverCrash)
      BY <1>a
    <2>3. ASSUME NEW m \in Modes, CommitModes(m) PROVE Readable'
      BY <2>3 DEF CommitModes, vdVars, Fields
    <2>4. ASSUME NEW f \in Fields, WriteField(f) PROVE Readable'
      BY <2>4, BlockOfType DEF WriteField, vdVars, TypeOK
    <2>5. CASE SetConfigureEvent
      BY <2>5 DEF SetConfigureEvent, Signalled, vdVars
    <2>6. CASE SwapChainLock \/ SwapChainUnlock
      BY <2>6 DEF SwapChainLock, SwapChainUnlock, driverVars, vdVars
    <2> QED
      BY <1>1, <2>1, <2>2, <2>3, <2>4, <2>5, <2>6 DEF DriverNext
  <1>2. CASE VdNext
    <2>1. CASE VdOpenEvents \/ VdOpenMapping
      BY <2>1 DEF VdOpenEvents, VdOpenMapping, driverVars, MappingExisted, DriverHoldsMapping
    <2>2. CASE VdLock
      BY <2>2 DEF VdLock, driverVars, Fields
    <2>3. ~VdZero
      BY DEF VdZero
    <2>4. ASSUME NEW f \in Fields, ReadField(f) PROVE Readable'
      BY <2>4 DEF ReadField, driverVars, TypeOK
    <2>5. CASE ReadSome
      BY <2>5 DEF ReadSome, driverVars
    <2>6. CASE ReadNone
      BY <2>6 DEF ReadNone, driverVars
    <2>7. CASE Configure
      BY <2>7 DEF Configure, driverVars
    <2>8. CASE WaitConfigureEvent
      BY <2>8 DEF WaitConfigureEvent, driverVars
    <2>9. CASE FrameTaskLock \/ FrameTaskUnlock
      BY <2>9 DEF FrameTaskLock, FrameTaskUnlock, driverVars, vdVars
    <2>10. CASE VdExit
      BY <2>10 DEF VdExit, driverVars, DriverHoldsMapping, DriverHoldsEvent
    <2> QED
      BY <1>2, <2>1, <2>2, <2>3, <2>4, <2>5, <2>6, <2>7, <2>8, <2>9, <2>10
         DEF VdNext
  <1>3. CASE UNCHANGED vars
    BY <1>3 DEF vars, driverVars, vdVars, counters
  <1> QED
    BY <1>1, <1>2, <1>3 DEF Next

\* With the monitor up first and never replaced, the assertions of the two
\* reads in entry() hold, however often the service itself restarts.
THEOREM ReadsSucceedWhenDriverIsUp == Spec => []ReadsSucceed
  <1>1. CASE ~DriverStartsFirst
    <2>1. ReadsSucceed
      BY <1>1 DEF ReadsSucceed
    <2> QED
      BY <2>1, PTL
  <1>2. CASE DriverStartsFirst
    <2> DEFINE Inv == TypeOK /\ (driverExits = 0 => Readable)
    <2>1. Init => Inv
      BY <1>2, ReadableInit, TypeInit
    <2>2. Inv /\ [Next]_vars => Inv'
      BY ReadableStep, TypeStep
    <2>3. Inv => ReadsSucceed
      BY DEF Readable, ReadsSucceed, StartupReadSucceeds, ControlReadSucceeds
    <2> QED
      BY <2>1, <2>2, <2>3, PTL DEF Spec
  <1> QED
    BY <1>1, <1>2
=============================================================================
