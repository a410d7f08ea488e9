--------------------------- MODULE ConfigChannel ---------------------------
(***************************************************************************)
(* How a display mode travels from the indirect display driver to the      *)
(* streaming service: a MonitorConfiguration block at the start of the     *)
(* shared frame buffer mapping, an auto-reset "configure" event and a      *)
(* mutex that the reader takes and the writer does not.                    *)
(*                                                                         *)
(* The driver side is MonitorClient (constructor, CommitModes, destructor) *)
(* inside the driver's host process.  The service side is entry() of       *)
(* vd-driver: it opens the kernel objects, zeroes a mapping it created,    *)
(* makes the initial read, and then hands over to the control thread.      *)
(* Each process may end at any step; a named kernel object lives as long   *)
(* as some process holds a handle to it.                                   *)
(*                                                                         *)
(* The four words of the block are written without the mutex by plain      *)
(* stores and read by plain loads: a data race, so both sides touch the    *)
(* words in any order.                                                     *)
(*                                                                         *)
(* A definition marked "Mistake" is not used: put in the place of the one  *)
(* that follows it, it shows which property notices that mistake.          *)
(***************************************************************************)
EXTENDS Naturals

CONSTANTS
    Modes,              \* the modes the OS may ask the driver to commit
    MaxCommits,         \* bound on calls of CommitModes
    MaxDriverExits,     \* bound on ends of the driver's monitor or host
    MaxVdExits,         \* bound on ends of the service process
    DriverStartsFirst   \* TRUE: the monitor exists before the service starts

ModeFields == {"width", "height", "framerate"}
Fields == {"configured"} \cup ModeFields

\* What Monitor::new holds, and "nothing committed" on the driver's side.
Unset == [f \in ModeFields |-> 0]

\* The content of a mapping nobody has written to.
FreshBlock == [f \in Fields |-> 0]

\* The block after CommitModes(m) has written all of it.
BlockOf(m) == [f \in Fields |-> IF f = "configured" THEN 1 ELSE m[f]]

\* The driver offers fixed modes only, none of which has a zero field.
ASSUME ModesAssumption == Modes \subseteq [ModeFields -> Nat \ {0}]
ASSUME BoundsAssumption ==
    /\ MaxCommits \in Nat
    /\ MaxDriverExits \in Nat
    /\ MaxVdExits \in Nat
    /\ DriverStartsFirst \in BOOLEAN

VARIABLES
    driver,     \* where the driver's MonitorClient is
    mode,       \* the argument of the CommitModes call in progress
    toWrite,    \* the words that call has not stored yet
    committed,  \* the mode of this client's last completed CommitModes
    vd,         \* where the service's configuration code is
    phase,      \* which read it is: the initial one, its retry, or the loop's
    toRead,     \* the words the read in progress has not loaded yet
    got,        \* the words it has loaded
    applied,    \* the arguments of the last Monitor::configure
    block,      \* MonitorConfiguration in the shared mapping
    event,      \* the auto-reset configure event
    mutex,      \* holder of the frame buffer mutex
    commits, driverExits, vdExits   \* counters for the bounds only

driverVars == <<driver, mode, toWrite, committed>>
vdVars == <<vd, phase, toRead, got, applied>>
counters == <<commits, driverExits, vdExits>>
vars == <<driverVars, vdVars, block, event, mutex, counters>>

(***************************************************************************)
(* Kernel objects.                                                         *)
(***************************************************************************)
DriverHoldsEvent == driver # "off"
DriverHoldsMapping == driver \in {"clear", "idle", "write"}

\* A panic unwinds the owner of the event handle; the mapping is also held
\* by the frame task.
VdHoldsEvent == vd \notin {"off", "panicked", "dead"}
VdHoldsMapping == vd \notin {"off", "map"}

\* Mistake: every process zeroes the mapping.
MappingNeverExisted == FALSE
\* FileMapping::new reports whether somebody had created the mapping before.
MappingExisted == DriverHoldsMapping

\* Mistake: the mutex stays with a holder that ended.
AbandonedIsLost(holders) == mutex
\* A mutex whose holder ended is abandoned; the next waiter takes it as acquired.
Abandon(holders) == IF mutex \in holders THEN "free" ELSE mutex

\* Mistake: no SetEvent after the stores.
SignalForgotten == event
\* SetEvent is a full barrier: every store is visible before the event is.
Signalled == TRUE

Init ==
    /\ driver = IF DriverStartsFirst THEN "idle" ELSE "off"
    /\ mode = Unset
    /\ toWrite = {}
    /\ committed = Unset
    /\ vd = "off"
    /\ phase = "initial"
    /\ toRead = {}
    /\ got = FreshBlock
    /\ applied = Unset
    /\ block = FreshBlock
    /\ event = FALSE
    /\ mutex = "free"
    /\ commits = 0
    /\ driverExits = 0
    /\ vdExits = 0

-----------------------------------------------------------------------------
(***************************************************************************)
(* The driver.                                                             *)
(***************************************************************************)

\* The constructor creates or opens the mutex and the events ...
DriverOpenEvents ==
    /\ driver = "off"
    /\ driver' = "map"
    /\ UNCHANGED <<mode, toWrite, committed, vdVars, block, event, mutex, counters>>

\* ... then the mapping ...
DriverOpenMapping ==
    /\ driver = "map"
    /\ driver' = "clear"
    /\ UNCHANGED <<mode, toWrite, committed, vdVars, block, event, mutex, counters>>

\* ... and marks the block as not configured, without the mutex.
DriverClear ==
    /\ driver = "clear"
    /\ driver' = "idle"
    /\ block' = [block EXCEPT !["configured"] = 0]
    /\ UNCHANGED <<mode, toWrite, committed, vdVars, event, mutex, counters>>

CommitModes(m) ==
    /\ driver = "idle"
    /\ commits < MaxCommits
    /\ driver' = "write"
    /\ mode' = m
    /\ toWrite' = Fields
    /\ commits' = commits + 1
    /\ UNCHANGED <<committed, vdVars, block, event, mutex, driverExits, vdExits>>

WriteField(f) ==
    /\ driver = "write"
    /\ f \in toWrite
    /\ block' = [block EXCEPT ![f] = BlockOf(mode)[f]]
    /\ toWrite' = toWrite \ {f}
    /\ UNCHANGED <<driver, mode, committed, vdVars, event, mutex, counters>>

SetConfigureEvent ==
    /\ driver = "write"
    /\ toWrite = {}
    /\ event' = Signalled
    /\ committed' = mode
    /\ driver' = "idle"
    /\ UNCHANGED <<mode, toWrite, vdVars, block, mutex, counters>>

\* The swap-chain thread holds the mutex while it copies a frame; it writes
\* after the block, never into it.
SwapChainLock ==
    /\ driver \in {"idle", "write"}
    /\ mutex = "free"
    /\ mutex' = "swapchain"
    /\ UNCHANGED <<driverVars, vdVars, block, event, counters>>

SwapChainUnlock ==
    /\ mutex = "swapchain"
    /\ mutex' = "free"
    /\ UNCHANGED <<driverVars, vdVars, block, event, counters>>

\* The destructor, after the swap-chain thread was joined: the mapping first.
DriverDestroy ==
    /\ driver = "idle"
    /\ mutex # "swapchain"
    /\ driverExits < MaxDriverExits
    /\ driver' = "closing"
    /\ committed' = Unset
    /\ block' = IF VdHoldsMapping THEN block ELSE FreshBlock
    /\ driverExits' = driverExits + 1
    /\ UNCHANGED <<mode, toWrite, vdVars, event, mutex, commits, vdExits>>

\* Then the destructors of its event and mutex members.
DriverRelease ==
    /\ driver = "closing"
    /\ driver' = "off"
    /\ event' = (event /\ VdHoldsEvent)
    /\ UNCHANGED <<mode, toWrite, committed, vdVars, block, mutex, counters>>

\* The driver's host process ends and every handle it had closes.
DriverCrash ==
    /\ driver \notin {"off", "closing"}
    /\ driverExits < MaxDriverExits
    /\ driver' = "off"
    /\ toWrite' = {}
    /\ committed' = Unset
    /\ block' = IF VdHoldsMapping THEN block ELSE FreshBlock
    /\ event' = (event /\ VdHoldsEvent)
    /\ mutex' = Abandon({"swapchain"})
    /\ driverExits' = driverExits + 1
    /\ UNCHANGED <<mode, vdVars, commits, vdExits>>

DriverNext ==
    \/ DriverOpenEvents
    \/ DriverOpenMapping
    \/ DriverClear
    \/ \E m \in Modes : CommitModes(m)
    \/ \E f \in Fields : WriteField(f)
    \/ SetConfigureEvent
    \/ SwapChainLock
    \/ SwapChainUnlock
    \/ DriverDestroy
    \/ DriverRelease
    \/ DriverCrash

-----------------------------------------------------------------------------
(***************************************************************************)
(* The service.                                                            *)
(***************************************************************************)

\* entry() creates or opens the mutex and the events ...
VdOpenEvents ==
    /\ vd = "off"
    /\ vd' = "map"
    /\ UNCHANGED <<driverVars, phase, toRead, got, applied, block, event, mutex, counters>>

\* ... then the mapping, and remembers whether it already existed.
VdOpenMapping ==
    /\ vd = "map"
    /\ vd' = IF MappingExisted THEN "lock" ELSE "zeroLock"
    /\ UNCHANGED <<driverVars, phase, toRead, got, applied, block, event, mutex, counters>>

\* win32::Mutex::lock accepts an abandoned mutex like a free one.
VdLock ==
    /\ vd \in {"zeroLock", "lock"}
    /\ mutex = "free"
    /\ mutex' = "control"
    /\ IF vd = "zeroLock"
       THEN vd' = "zero" /\ UNCHANGED toRead
       ELSE vd' = "read" /\ toRead' = Fields
    /\ UNCHANGED <<driverVars, phase, got, applied, block, event, counters>>

\* A mapping this process created is initialized under the mutex.
VdZero ==
    /\ vd = "zero"
    /\ block' = [block EXCEPT !["configured"] = 0]
    /\ mutex' = "free"
    /\ vd' = "lock"
    /\ UNCHANGED <<driverVars, phase, toRead, got, applied, event, counters>>

ReadField(f) ==
    /\ vd = "read"
    /\ f \in toRead
    /\ got' = [got EXCEPT ![f] = block[f]]
    /\ toRead' = toRead \ {f}
    /\ UNCHANGED <<driverVars, vd, phase, applied, block, event, mutex, counters>>

\* read_configuration returns Some((width, height, framerate)).
ReadSome ==
    /\ vd = "read"
    /\ toRead = {}
    /\ got["configured"] # 0
    /\ mutex' = "free"
    /\ vd' = "apply"
    /\ UNCHANGED <<driverVars, phase, toRead, got, applied, block, event, counters>>

\* It returns None: the initial read goes on to wait for the event, the read
\* after that wait panics the main task, the loop's read its thread.
ReadNone ==
    /\ vd = "read"
    /\ toRead = {}
    /\ got["configured"] = 0
    /\ mutex' = "free"
    /\ \/ phase = "initial" /\ phase' = "retry" /\ vd' = "wait"
       \/ phase = "retry" /\ phase' = phase /\ vd' = "panicked"
       \/ phase = "control" /\ phase' = phase /\ vd' = "dead"
    /\ UNCHANGED <<driverVars, toRead, got, applied, block, event, counters>>

\* Monitor::configure; whatever came before, the control loop follows.
Configure ==
    /\ vd = "apply"
    /\ applied' = [f \in ModeFields |-> got[f]]
    /\ vd' = "wait"
    /\ phase' = "control"
    /\ UNCHANGED <<driverVars, toRead, got, block, event, mutex, counters>>

\* The wait that ends resets the event.
WaitConfigureEvent ==
    /\ vd = "wait"
    /\ event
    /\ event' = FALSE
    /\ vd' = "lock"
    /\ UNCHANGED <<driverVars, phase, toRead, got, applied, block, mutex, counters>>

\* The frame task, spawned before the initial read, holds the mutex while it
\* copies a frame out.  It outlives the control thread.
FrameTaskLock ==
    /\ vd \in {"lock", "read", "apply", "wait", "dead"}
    /\ mutex = "free"
    /\ mutex' = "frametask"
    /\ UNCHANGED <<driverVars, vdVars, block, event, counters>>

FrameTaskUnlock ==
    /\ mutex = "frametask"
    /\ mutex' = "free"
    /\ UNCHANGED <<driverVars, vdVars, block, event, counters>>

\* The service process ends, by Ctrl-C, a panic or a kill.
VdExit ==
    /\ vd # "off"
    /\ vdExits < MaxVdExits
    /\ vd' = "off"
    /\ phase' = "initial"
    /\ toRead' = {}
    /\ got' = FreshBlock
    /\ applied' = Unset
    /\ block' = IF DriverHoldsMapping THEN block ELSE FreshBlock
    /\ event' = (event /\ DriverHoldsEvent)
    /\ mutex' = Abandon({"control", "frametask"})
    /\ vdExits' = vdExits + 1
    /\ UNCHANGED <<driverVars, commits, driverExits>>

VdNext ==
    \/ VdOpenEvents
    \/ VdOpenMapping
    \/ VdLock
    \/ VdZero
    \/ \E f \in Fields : ReadField(f)
    \/ ReadSome
    \/ ReadNone
    \/ Configure
    \/ WaitConfigureEvent
    \/ FrameTaskLock
    \/ FrameTaskUnlock
    \/ VdExit

Next == DriverNext \/ VdNext

\* One step at a time, each enabled until it is taken, VdLock excepted.
DriverThread ==
    \/ DriverOpenEvents \/ DriverOpenMapping \/ DriverClear \/ DriverRelease
    \/ (\E f \in Fields : WriteField(f)) \/ SetConfigureEvent

VdThread ==
    \/ VdOpenEvents \/ VdOpenMapping \/ VdLock \/ VdZero
    \/ (\E f \in Fields : ReadField(f)) \/ ReadSome \/ ReadNone
    \/ Configure \/ WaitConfigureEvent

\* Threads that can run do run, and the mutex is granted in the order of the
\* waiters, so a waiter is not overtaken for ever.  Nothing makes the OS commit
\* a mode, a swap chain deliver a frame or a process end.
Fairness ==
    /\ WF_vars(DriverThread)
    /\ WF_vars(SwapChainUnlock) /\ WF_vars(FrameTaskUnlock)
    /\ SF_vars(VdThread)

Spec == Init /\ [][Next]_vars
FairSpec == Spec /\ Fairness

-----------------------------------------------------------------------------
(***************************************************************************)
(* Properties.                                                             *)
(***************************************************************************)

\* Every variable has its type, and the mutex is held exactly by a thread that
\* is inside the matching critical section, crashes included.
TypeOK ==
    /\ driver \in {"off", "map", "clear", "idle", "write", "closing"}
    /\ mode \in Modes \cup {Unset}
    /\ toWrite \subseteq Fields
    /\ committed \in Modes \cup {Unset}
    /\ vd \in {"off", "map", "zeroLock", "zero", "lock", "read", "apply",
               "wait", "panicked", "dead"}
    /\ phase \in {"initial", "retry", "control"}
    /\ toRead \subseteq Fields
    /\ got \in [Fields -> Nat]
    /\ applied \in [ModeFields -> Nat]
    /\ block \in [Fields -> Nat]
    /\ event \in BOOLEAN
    /\ mutex \in {"free", "swapchain", "control", "frametask"}
    /\ commits \in Nat /\ driverExits \in Nat /\ vdExits \in Nat
    /\ (mutex = "control") <=> (vd \in {"zero", "read"})
    /\ (mutex = "swapchain") => driver \in {"idle", "write"}
    /\ (mutex = "frametask") => vd # "off"

\* Although CommitModes stores without the mutex, the calls of Monitor::configure
\* are those of ConfigureCalls: one with a mixture of modes is never the last, and
\* what the control thread has applied when it sleeps on an unset event is the
\* mode committed last, whichever process restarts (MonitorClient::CommitModes
\* against the loop of entry()).  A mode is on display from the call of
\* CommitModes on; it is owed until that call is over, its event is consumed and
\* the control thread is back in its wait.
Display == IF driver = "write" THEN mode ELSE committed
Calls == INSTANCE ConfigureCalls WITH
             display <- Display,
             owed <- \/ Display = Unset
                     \/ driver = "write" \/ event
                     \/ vd # "wait" \/ phase # "control"
MakesConfigureCalls == Calls!CallsSpec

\* The service never ends a read of the block empty-handed where its code
\* asserts that it cannot: the retry after the first event and the loop's read.
StartupReadSucceeds == vd # "panicked"
ControlReadSucceeds == vd # "dead"

\* With the monitor up first and never replaced both hold, however often the
\* service itself restarts.
ReadsSucceed ==
    (DriverStartsFirst /\ driverExits = 0) => StartupReadSucceeds /\ ControlReadSucceeds

\* With the monitor up first, the last committed mode (commits are bounded)
\* reaches Monitor::configure, however the frame traffic competes for the mutex and
\* whenever the service restarts, unless the monitor is replaced.
CommitReachesMonitor ==
    DriverStartsFirst => []<>(committed = Unset \/ applied = committed \/ driverExits > 0)
=============================================================================
