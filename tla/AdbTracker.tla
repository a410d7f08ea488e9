----------------------------- MODULE AdbTracker -----------------------------
(***************************************************************************)
(* Phones on a cable: AdbClient follows the device list of the local ADB   *)
(* server and, for every device that is ready in a list it reads, starts a *)
(* task that asks for the reverse tunnel through which the phone reaches   *)
(* port 9867.  Any error ends the tracking, which starts again 10 seconds  *)
(* later; a task that fails is not repeated.                               *)
(*                                                                         *)
(* The ADB server and the devices are external, modelled as the code uses  *)
(* them: a connection of a server that stops is at its end once what it    *)
(* sent is read, and a tunnel lasts as long as its device and the server.  *)
(*                                                                         *)
(* A definition marked "Mistake" is not used: put in the place of the one  *)
(* that follows it, it shows which property notices that mistake.          *)
(***************************************************************************)
EXTENDS Integers, Sequences

CONSTANTS
    N,          \* number of devices
    MaxChanges, \* bound on changes of a device
    MaxStops,   \* bound on stops of the ADB server
    MaxGarbled  \* bound on answers and lists that cannot be parsed

ASSUME BoundsAssumption ==
    N \in Nat \ {0} /\ {MaxChanges, MaxStops, MaxGarbled} \subseteq Nat

Devices == 1..N

VARIABLES
    up,         \* whether the ADB server runs
    device,     \* the state of each device
    tunnel,     \* devices with a reverse tunnel
    tracker,    \* where the tracking task is
    lists, lost,    \* lists on its connection, and whether its end follows
    attempts,   \* how many tasks of each device are at each step
    refused,    \* devices whose tunnel was refused since they were listed last
    changes, stops, garbled     \* counters for the bounds only

serverVars == <<up, device, tunnel>>
connection == <<lists, lost>>
counters == <<changes, stops, garbled>>
vars == <<serverVars, tracker, connection, attempts, refused, counters>>

States == {"absent", "offline", "device"}
Steps == {"connect", "transport", "command", "result"}
NoTask == [s \in Steps |-> 0]

Init ==
    /\ up \in BOOLEAN /\ device \in [Devices -> States] /\ tunnel = {}
    /\ tracker = "connect" /\ lists = <<>> /\ lost = FALSE
    /\ attempts = [d \in Devices |-> NoTask] /\ refused = {}
    /\ changes = 0 /\ stops = 0 /\ garbled = 0

-----------------------------------------------------------------------------
(***************************************************************************)
(* The ADB server and its devices.                                         *)
(***************************************************************************)

\* A device that goes takes its tunnel along, and the transports opened to it.
DeviceChanges(d) ==
    /\ changes < MaxChanges
    /\ changes' = changes + 1
    /\ \E s \in States \ {device[d]} : device' = [device EXCEPT ![d] = s]
    /\ tunnel' = tunnel \ {d}
    /\ attempts' = [attempts EXCEPT ![d].command = 0, ![d].result = 0]
    /\ lists' = IF up /\ tracker = "read" /\ ~lost THEN Append(lists, device') ELSE lists
    /\ UNCHANGED <<up, tracker, lost, refused, stops, garbled>>

\* Its connections end, and the tasks on them with an error.
ServerStops ==
    /\ up /\ stops < MaxStops
    /\ stops' = stops + 1
    /\ up' = FALSE /\ tunnel' = {}
    /\ lost' = (tracker \in {"request", "read"})
    /\ attempts' = [d \in Devices |-> [NoTask EXCEPT !.connect = attempts[d].connect]]
    /\ UNCHANGED <<device, tracker, lists, refused, changes, garbled>>

ServerStarts ==
    /\ ~up
    /\ up' = TRUE
    /\ UNCHANGED <<device, tunnel, tracker, connection, attempts, refused, counters>>

-----------------------------------------------------------------------------
(***************************************************************************)
(* The tracking task: run_internal and track_devices.                      *)
(***************************************************************************)

\* Mistake: the lists of a connection that failed are still read.
KeptLists == lists
NoLists == <<>>

\* The connection is dropped, and the task sleeps.
TrackingEnds ==
    /\ tracker' = "sleep"
    /\ lists' = NoLists /\ lost' = FALSE
    /\ UNCHANGED <<serverVars, attempts, refused, changes, stops>>

Connect ==
    /\ tracker = "connect"
    /\ IF up THEN /\ tracker' = "request"
                  /\ UNCHANGED <<serverVars, connection, attempts, refused, counters>>
             ELSE TrackingEnds /\ UNCHANGED garbled

\* The request is accepted, and the present list is on its way; later ones follow.
StartTracking ==
    /\ tracker = "request" /\ ~lost
    /\ tracker' = "read"
    /\ lists' = <<device>>
    /\ UNCHANGED <<serverVars, lost, attempts, refused, counters>>

\* Mistake: the list is given up at a device that is not ready.
UpToOffline(list) ==
    {d \in Devices : list[d] = "device" /\ \A e \in 1..d : list[e] # "offline"}
Ready(list) == {d \in Devices : list[d] = "device"}

\* One task for every device that is ready, whatever has been tried before.
ReadList ==
    /\ tracker = "read" /\ lists # <<>>
    /\ lists' = Tail(lists)
    /\ attempts' = [d \in Devices |-> IF d \in Ready(Head(lists))
                                      THEN [attempts[d] EXCEPT !.connect = @ + 1] ELSE attempts[d]]
    /\ refused' = refused \ Ready(Head(lists))
    /\ UNCHANGED <<serverVars, tracker, lost, counters>>

\* The server says FAIL, or something else than the protocol allows.
ReadGarbled ==
    /\ tracker \in {"request", "read"}
    /\ garbled < MaxGarbled /\ garbled' = garbled + 1
    /\ TrackingEnds

ConnectionLost ==
    /\ tracker \in {"request", "read"}
    /\ lost /\ lists = <<>>
    /\ TrackingEnds /\ UNCHANGED garbled

\* Mistake: there is no loop around the tracking.
Once == "ended"
AfterSleep == "connect"

SleepEnds ==
    /\ tracker = "sleep"
    /\ tracker' = AfterSleep
    /\ UNCHANGED <<serverVars, connection, attempts, refused, counters>>

-----------------------------------------------------------------------------
(***************************************************************************)
(* enable_reverse for device d: connect, switch to the device, ask for the *)
(* tunnel, and read the second result.                                     *)
(***************************************************************************)
Following == [connect |-> "transport", transport |-> "command", command |-> "result"]

Reachable(d, s) == up /\ (s = "connect" \/ device[d] = "device")

AttemptGoesOn(d, s) ==
    /\ attempts[d][s] > 0 /\ s # "result"
    /\ Reachable(d, s)
    /\ attempts' = [attempts EXCEPT ![d][s] = @ - 1, ![d][Following[s]] = @ + 1]
    /\ tunnel' = IF s = "command" THEN tunnel \cup {d} ELSE tunnel
    /\ UNCHANGED <<up, device, tracker, connection, refused, counters>>

\* Either end of a task: the tunnel is there, or the error is logged.
AttemptEnds(d, s) ==
    /\ attempts[d][s] > 0
    /\ attempts' = [attempts EXCEPT ![d][s] = @ - 1]
    /\ refused' = IF Reachable(d, s) /\ s # "result" THEN refused \cup {d} ELSE refused
    /\ UNCHANGED <<serverVars, tracker, connection, counters>>

Tracker ==
    Connect \/ StartTracking \/ ReadList \/ ConnectionLost \/ SleepEnds
Attempt(d) == \E s \in Steps : AttemptGoesOn(d, s) \/ AttemptEnds(d, s)

Next ==
    \/ ServerStops \/ ServerStarts \/ ReadGarbled \/ Tracker
    \/ \E d \in Devices : DeviceChanges(d) \/ Attempt(d)

\* The service's own tasks run, and a server that listens answers them.
Fairness == WF_vars(Tracker) /\ \A d \in Devices : WF_vars(Attempt(d))

Spec == Init /\ [][Next]_vars
FairSpec == Spec /\ Fairness

-----------------------------------------------------------------------------
(***************************************************************************)
(* Properties.                                                             *)
(***************************************************************************)

\* Every variable has its type, a tunnel needs its device and the server, and lists are
\* read only from the connection they came on.
TypeOK ==
    /\ up \in BOOLEAN /\ device \in [Devices -> States]
    /\ tunnel \subseteq {d \in Devices : up /\ device[d] = "device"}
    /\ tracker \in {"connect", "request", "read", "sleep"}
    /\ lists \in Seq([Devices -> States]) /\ lost \in BOOLEAN
    /\ lists # <<>> => tracker = "read"
    /\ lost => tracker \in {"request", "read"}
    /\ attempts \in [Devices -> [Steps -> Nat]] /\ refused \subseteq Devices
    /\ changes \in 0..MaxChanges /\ stops \in 0..MaxStops /\ garbled \in 0..MaxGarbled

\* Everything the server has sent is worked off.
Settled ==
    /\ up /\ tracker = "read" /\ lists = <<>> /\ ~lost
    /\ attempts = [d \in Devices |-> NoTask]

\* When nothing is under way, every device that is ready has its tunnel, unless it was
\* refused since it was listed last: no order of changes, restarts of the server and late
\* tasks of earlier lists leaves one out.
NoDeviceIsForgotten ==
    Settled => \A d \in Devices : device[d] = "device" => d \in tunnel \cup refused

\* Once the server stays up, and it and the devices stop changing, the tunnels come up:
\* neither a garbled list nor a lost connection is the end of the tracking.
TunnelsOpen ==
    <>[]up => <>[](\A d \in Devices : device[d] = "device" => d \in tunnel \cup refused)
=============================================================================
