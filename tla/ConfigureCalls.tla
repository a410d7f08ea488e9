--------------------------- MODULE ConfigureCalls ---------------------------
(***************************************************************************)
(* What the encoding pipeline may expect of the configuration channel,     *)
(* without the words, the event, the mutex and the two processes behind    *)
(* it.  The display is in some mode; the control thread calls              *)
(* Monitor::configure.  It may call with a mixture of modes, but then it   *)
(* still owes a call; the call that settles what it owes carries the mode  *)
(* the display is in at that moment.                                       *)
(*                                                                         *)
(* ConfigChannel implements this, and EncoderPipeline makes its calls of   *)
(* configure by the same rules.                                            *)
(***************************************************************************)
EXTENDS Naturals

CONSTANTS
    Modes,      \* the modes of the display
    ModeFields, \* what a mode consists of
    Unset       \* no mode

VARIABLES
    display,    \* the mode the display is in, or Unset
    owed,       \* the control thread still has to pass it on
    applied     \* the arguments of the last call, Unset before the first

callsVars == <<display, owed, applied>>

\* What a read that raced with the stores of other modes may have got: every
\* word is one of some mode, or was never written.
Mixtures ==
    {c \in [ModeFields -> Nat] :
        \A f \in ModeFields : c[f] = 0 \/ \E m \in Modes : c[f] = m[f]}

CallsInit ==
    /\ display = Unset
    /\ owed = TRUE
    /\ applied = Unset

Switch ==
    /\ display' \in Modes
    /\ owed' = TRUE
    /\ UNCHANGED applied

Call ==
    /\ owed
    /\ display # Unset
    /\ applied' = display
    /\ owed' = FALSE
    /\ UNCHANGED display

CallTorn ==
    /\ owed
    /\ applied' \in Mixtures
    /\ UNCHANGED <<display, owed>>

\* The monitor goes, and with it the mode.
MonitorGone ==
    /\ display' = Unset
    /\ owed' = TRUE
    /\ UNCHANGED applied

\* A new service process has been told nothing.
ServiceEnds ==
    /\ applied' = Unset
    /\ owed' = TRUE
    /\ UNCHANGED display

CallsNext == Switch \/ Call \/ CallTorn \/ MonitorGone \/ ServiceEnds

CallsSpec == CallsInit /\ [][CallsNext]_callsVars
=============================================================================
