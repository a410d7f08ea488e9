-------------------------- MODULE AdbTrackerProofs --------------------------
(***************************************************************************)
(* Theorems about AdbTracker, for any number of devices, changes, stops    *)
(* and lists on their way.  Caught is the inductive part: while the        *)
(* tracking task reads a connection that has not ended, the last list on   *)
(* its way is the present one, and when none is left a task has been       *)
(* started for every device that is ready.                                 *)
(***************************************************************************)
EXTENDS AdbTracker, TLAPS

\* A task for device d has not asked for the tunnel yet.
Trying(d) == \E s \in Steps \ {"result"} : attempts[d][s] > 0

Caught ==
    /\ (tracker \in {"request", "read"} /\ ~lost) => up
    /\ (tracker = "read" /\ ~lost) =>
          IF lists = <<>>
          THEN \A d \in Devices : device[d] = "device" => d \in tunnel \cup refused \/ Trying(d)
          ELSE lists[Len(lists)] = device

Inv == TypeOK /\ Caught
-----------------------------------------------------------------------------
(***************************************************************************)
(* What the steps do to the tasks.                                         *)
(***************************************************************************)
Tasks == [Steps -> Nat]

\* Setting the number of tasks at one step leaves the other steps as they are.
LEMMA TasksWithout ==
    ASSUME NEW t \in Tasks, NEW s \in Steps, NEW n \in Nat, NEW u, u = [t EXCEPT ![s] = n]
    PROVE  u \in Tasks /\ u[s] = n /\ \A r \in Steps : r # s => u[r] = t[r]
  BY DEF Tasks

\* A task of one device moves on from step s, or ends there.
LEMMA TaskGoesOn ==
    ASSUME attempts \in [Devices -> Tasks], NEW d \in Devices, NEW s \in Steps \ {"result"},
           attempts[d][s] > 0,
           attempts' = [attempts EXCEPT ![d][s] = @ - 1, ![d][Following[s]] = @ + 1]
    PROVE  /\ attempts' \in [Devices -> Tasks]
           /\ Following[s] \in Steps \ {s} /\ attempts'[d][Following[s]] > 0
           /\ s # "command" => Following[s] # "result"
           /\ \A e \in Devices : e # d => attempts'[e] = attempts[e]
           /\ \A r \in Steps \ {s} : attempts'[d][r] >= attempts[d][r]
  <1>1. Following[s] \in Steps \ {s} /\ (s # "command" => Following[s] # "result")
    BY DEF Following, Steps
  <1> DEFINE t == [attempts[d] EXCEPT ![s] = attempts[d][s] - 1]
             u == [t EXCEPT ![Following[s]] = attempts[d][Following[s]] + 1]
             c == [attempts EXCEPT ![d] = t]
  <1>2. attempts[d] \in Tasks /\ attempts[d][s] \in Nat /\ attempts[d][s] - 1 \in Nat
    BY DEF Tasks
  <1>3. /\ t \in Tasks
        /\ \A r \in Steps : r # s => t[r] = attempts[d][r]
    BY <1>2 DEF Tasks
  <1>4. t[Following[s]] = attempts[d][Following[s]] /\ t[Following[s]] + 1 \in Nat
    BY <1>1, <1>3 DEF Tasks
  <1>5. /\ u \in Tasks /\ u[Following[s]] = t[Following[s]] + 1
        /\ \A r \in Steps : r # Following[s] => u[r] = t[r]
    <2> HIDE DEF t
    <2> QED
      BY <1>1, <1>3, <1>4, TasksWithout
  <1>6. attempts' = [attempts EXCEPT ![d] = u]
    <2>1. attempts' = [c EXCEPT ![d][Following[s]] = attempts[d][Following[s]] + 1]
      OBVIOUS
    <2>2. c[d] = t /\ DOMAIN c = Devices /\ \A e \in Devices : e # d => c[e] = attempts[e]
      OBVIOUS
    <2>3. attempts' = [c EXCEPT ![d] = [c[d] EXCEPT ![Following[s]] = attempts[d][Following[s]] + 1]]
      <3> HIDE DEF c
      <3> QED
        BY <2>1
    <2>4. attempts' = [c EXCEPT ![d] = u]
      <3> HIDE DEF c
      <3> QED
        BY <2>2, <2>3
    <2>5. attempts' = [e \in Devices |-> IF e = d THEN u ELSE attempts[e]]
      <3> HIDE DEF c, u
      <3> QED
        BY <2>2, <2>4
    <2> HIDE DEF t, u
    <2> QED
      BY <2>5
  <1>7. u[Following[s]] > 0 /\ \A r \in Steps \ {s} : u[r] >= attempts[d][r]
    <2>1. \A r \in Steps : attempts[d][r] \in Nat
      BY <1>2 DEF Tasks
    <2> HIDE DEF t, u
    <2> QED
      BY <2>1, <1>1, <1>3, <1>4, <1>5
  <1> HIDE DEF u
  <1> QED
    BY <1>1, <1>5, <1>6, <1>7

\* A task of one device ends at step s; the other tasks stay where they are.
LEMMA TaskEnds ==
    ASSUME attempts \in [Devices -> Tasks], NEW d \in Devices, NEW s \in Steps,
           attempts[d][s] > 0,
           attempts' = [attempts EXCEPT ![d][s] = @ - 1]
    PROVE  /\ attempts' \in [Devices -> Tasks]
           /\ \A e \in Devices : e # d => attempts'[e] = attempts[e]
           /\ \A r \in Steps \ {s} : attempts'[d][r] = attempts[d][r]
  <1> DEFINE t == [attempts[d] EXCEPT ![s] = attempts[d][s] - 1]
  <1>1. attempts[d] \in Tasks /\ attempts[d][s] - 1 \in Nat
    BY DEF Tasks
  <1>2. t \in Tasks /\ \A r \in Steps : r # s => t[r] = attempts[d][r]
    BY <1>1 DEF Tasks
  <1>3. attempts' = [attempts EXCEPT ![d] = t]
    OBVIOUS
  <1> HIDE DEF t
  <1> QED
    BY <1>2, <1>3
-----------------------------------------------------------------------------
\* Nothing is tracked at first.
LEMMA InvInit == Init => Inv
  <1> SUFFICES ASSUME Init PROVE Inv
    OBVIOUS
  <1>1. NoTask \in [Steps -> Nat]
    BY DEF NoTask
  <1>2. attempts \in [Devices -> [Steps -> Nat]]
    BY <1>1 DEF Init
  <1>3. lists \in Seq([Devices -> States]) /\ lists = <<>>
    BY DEF Init
  <1>4. TypeOK
    <2>1. up \in BOOLEAN /\ device \in [Devices -> States] /\ lost \in BOOLEAN
      BY DEF Init
    <2>2. tunnel = {} /\ refused = {} /\ tracker = "connect" /\ ~lost
      BY DEF Init
    <2>3. changes \in 0..MaxChanges /\ stops \in 0..MaxStops /\ garbled \in 0..MaxGarbled
      BY BoundsAssumption DEF Init
    <2> QED
      BY <1>2, <1>3, <2>1, <2>2, <2>3 DEF TypeOK
  <1>5. Caught
    BY DEF Init, Caught
  <1> QED
    BY <1>4, <1>5 DEF Inv

\* The connection ends, at whatever step.
LEMMA InvTrackingEnds ==
    ASSUME Inv, TrackingEnds, garbled' \in 0..MaxGarbled
    PROVE  Inv'
  <1> USE DEF TrackingEnds, serverVars, NoLists
  <1>1. lists' \in Seq([Devices -> States]) /\ lists' = <<>>
    OBVIOUS
  <1>2. TypeOK'
    BY <1>1 DEF Inv, TypeOK
  <1>3. Caught'
    BY DEF Caught
  <1> QED
    BY <1>2, <1>3 DEF Inv

\* A change of a device puts a new last list on every connection that is read.
LEMMA InvDeviceChanges ==
    ASSUME Inv, NEW d \in Devices, DeviceChanges(d)
    PROVE  Inv'
  <1> USE DEF Inv
  <1>1. PICK s \in States \ {device[d]} : device' = [device EXCEPT ![d] = s]
    BY DEF DeviceChanges
  <1>2. /\ tunnel' = tunnel \ {d} /\ UNCHANGED <<up, tracker, lost, refused, stops, garbled>>
        /\ changes' = changes + 1 /\ changes < MaxChanges
        /\ attempts' = [attempts EXCEPT ![d].command = 0, ![d].result = 0]
        /\ lists' = IF up /\ tracker = "read" /\ ~lost THEN Append(lists, device') ELSE lists
    BY DEF DeviceChanges
  <1>3. device' \in [Devices -> States] /\ \A e \in Devices : e # d => device'[e] = device[e]
    BY <1>1 DEF TypeOK
  <1>4. attempts' \in [Devices -> [Steps -> Nat]]
    <2> DEFINE t == [attempts[d] EXCEPT !["command"] = 0]
               u == [t EXCEPT !["result"] = 0]
    <2>1. attempts \in [Devices -> Tasks] /\ "command" \in Steps /\ "result" \in Steps
      BY DEF TypeOK, Tasks, Steps
    <2>2. t \in Tasks
      BY <2>1, TasksWithout
    <2>3. u \in Tasks
      <3> HIDE DEF t
      <3> QED
        BY <2>1, <2>2, TasksWithout
    <2>4. attempts' = [attempts EXCEPT ![d] = u]
      BY <1>2, <2>1
    <2> HIDE DEF u
    <2> QED
      BY <2>1, <2>3, <2>4 DEF Tasks
  <1>5. lists' \in Seq([Devices -> States]) /\ (lists' # <<>> => tracker' = "read")
    BY <1>2, <1>3 DEF TypeOK
  <1>6. TypeOK'
    BY <1>2, <1>3, <1>4, <1>5, BoundsAssumption DEF TypeOK
  <1>7. Caught'
    <2>1. CASE tracker = "read" /\ ~lost
      <3>1. up /\ lists' = Append(lists, device') /\ lists \in Seq([Devices -> States])
        BY <2>1, <1>2 DEF Caught, TypeOK
      <3>2. lists' # <<>> /\ lists'[Len(lists')] = device'
        BY <3>1, <1>3
      <3> QED
        BY <3>1, <3>2, <1>2 DEF Caught
    <2>2. CASE ~(tracker = "read" /\ ~lost)
      BY <2>2, <1>2 DEF Caught
    <2> QED
      BY <2>1, <2>2
  <1> QED
    BY <1>6, <1>7

\* A server that stops ends the connection, and none is read before one starts.
LEMMA InvServer ==
    ASSUME Inv, ServerStops \/ ServerStarts
    PROVE  Inv'
  <1> USE DEF Inv
  <1>1. CASE ServerStops
    <2>1. attempts' \in [Devices -> [Steps -> Nat]]
      <3>1. \A d \in Devices : [NoTask EXCEPT !.connect = attempts[d].connect] \in [Steps -> Nat]
        <4> SUFFICES ASSUME NEW d \in Devices
                     PROVE  [NoTask EXCEPT !["connect"] = attempts[d]["connect"]] \in Tasks
          BY DEF Tasks
        <4>1. "connect" \in Steps /\ NoTask \in Tasks
          BY DEF Steps, NoTask, Tasks
        <4>2. attempts[d]["connect"] \in Nat
          BY <4>1 DEF TypeOK
        <4> QED
          BY <4>1, <4>2, TasksWithout
      <3>2. attempts' = [d \in Devices |-> [NoTask EXCEPT !.connect = attempts[d].connect]]
        BY <1>1 DEF ServerStops
      <3> QED
        BY <3>1, <3>2
    <2>2. tunnel' = {} /\ stops' \in 0..MaxStops
      BY <1>1, BoundsAssumption DEF TypeOK, ServerStops
    <2>4. lost' \in BOOLEAN /\ (lost' => tracker' \in {"request", "read"})
      <3>1. lost' = (tracker \in {"request", "read"}) /\ tracker' = tracker
        BY <1>1 DEF ServerStops
      <3>2. (tracker \in {"request", "read"}) \in BOOLEAN
        OBVIOUS
      <3>3. lost' \in BOOLEAN
        BY <3>1, <3>2, Zenon
      <3>4. lost' => tracker \in {"request", "read"}
        BY <3>1, Zenon
      <3> QED
        BY <3>1, <3>3, <3>4
    <2>5. up' = FALSE /\ UNCHANGED <<device, tracker, lists, refused, changes, garbled>>
      BY <1>1 DEF ServerStops
    <2>6. TypeOK'
      BY <2>1, <2>2, <2>4, <2>5 DEF TypeOK
    <2>3. Caught'
      BY <1>1 DEF TypeOK, Caught, ServerStops
    <2> QED
      BY <2>3, <2>6
  <1>2. CASE ServerStarts
    <2> USE <1>2 DEF ServerStarts, connection, counters
    <2>1. TypeOK'
      BY DEF TypeOK
    <2>2. Caught'
      BY DEF Caught, TypeOK
    <2> QED
      BY <2>1, <2>2
  <1> QED
    BY <1>1, <1>2

\* The tracking task, while its connection lasts.
LEMMA InvTracker ==
    ASSUME Inv, Tracker \/ ReadGarbled
    PROVE  Inv'
  <1> USE DEF Inv
  <1>1. CASE Connect
    <2>1. CASE up
      <3> USE <1>1, <2>1 DEF Connect, serverVars, connection, counters
      <3>1. TypeOK'
        BY DEF TypeOK
      <3>2. Caught'
        BY DEF Caught
      <3> QED
        BY <3>1, <3>2
    <2>2. CASE ~up
      BY <1>1, <2>2, InvTrackingEnds DEF Connect, TypeOK
    <2> QED
      BY <2>1, <2>2
  <1>2. CASE StartTracking
    <2> USE <1>2 DEF StartTracking, serverVars, counters
    <2>1. device \in [Devices -> States] /\ lists' = <<device>> /\ ~lost
      BY DEF TypeOK
    <2>2. lists' \in Seq([Devices -> States]) /\ lists' # <<>> /\ lists'[Len(lists')] = device
      BY <2>1
    <2>3. TypeOK'
      BY <2>2 DEF TypeOK
    <2>4. Caught'
      BY <2>2 DEF Caught
    <2> QED
      BY <2>3, <2>4
  <1>3. CASE ReadList
    <2>1. /\ tracker = "read" /\ lists # <<>>
          /\ lists' = Tail(lists)
          /\ attempts' = [d \in Devices |-> IF d \in Ready(Head(lists))
                                            THEN [attempts[d] EXCEPT !.connect = @ + 1] ELSE attempts[d]]
          /\ refused' = refused \ Ready(Head(lists))
          /\ UNCHANGED <<serverVars, tracker, lost, counters>>
      BY <1>3 DEF ReadList
    <2>2. lists \in Seq([Devices -> States]) /\ attempts \in [Devices -> Tasks]
      BY DEF TypeOK, Tasks
    <2>3. /\ attempts' \in [Devices -> Tasks]
          /\ \A d \in Devices : d \in Ready(Head(lists)) => attempts'[d]["connect"] > 0
      <3>1. \A d \in Devices : [attempts[d] EXCEPT !["connect"] = @ + 1] \in Tasks
                               /\ [attempts[d] EXCEPT !["connect"] = @ + 1]["connect"] > 0
        BY <2>2 DEF Tasks, Steps
      <3> QED
        BY <2>1, <2>2, <3>1
    <2>4. lists' \in Seq([Devices -> States])
          /\ (lists' = <<>> => lists[Len(lists)] = Head(lists))
          /\ (lists' # <<>> => lists'[Len(lists')] = lists[Len(lists)])
      <3>1. Len(lists) \in Nat \ {0} /\ Len(lists') = Len(lists) - 1
            /\ lists' \in Seq([Devices -> States]) /\ Head(lists) = lists[1]
            /\ \A i \in 1..Len(lists') : lists'[i] = lists[i + 1]
        BY <2>1, <2>2
      <3>2. lists' = <<>> => Len(lists) = 1
        BY <3>1
      <3>3. lists' # <<>> => Len(lists') \in 1..Len(lists')
        BY <3>1
      <3> QED
        BY <3>1, <3>2, <3>3
    <2>5. TypeOK'
      <3>1. refused' \subseteq Devices /\ UNCHANGED <<up, device, tunnel, tracker, lost, changes, stops, garbled>>
        BY <2>1 DEF TypeOK, serverVars, counters
      <3> QED
        BY <2>1, <2>3, <2>4, <3>1 DEF TypeOK, Tasks
    <2>6. Caught'
      <3>1. CASE lists' = <<>> /\ ~lost
        <4>1. \A d \in Devices : device[d] = "device" => attempts'[d]["connect"] > 0
          BY <2>1, <2>3, <2>4, <3>1 DEF Caught, Ready
        <4>2. \A d \in Devices : attempts'[d]["connect"] > 0 => Trying(d)'
          BY DEF Trying, Steps
        <4> QED
          BY <2>1, <3>1, <4>1, <4>2 DEF Caught, serverVars
      <3>2. CASE lists' # <<>> /\ ~lost
        BY <2>1, <2>4, <3>2 DEF Caught, serverVars
      <3>3. CASE lost
        BY <2>1, <3>3 DEF Caught
      <3> QED
        BY <3>1, <3>2, <3>3
    <2> QED
      BY <2>5, <2>6
  <1>4. CASE ConnectionLost
    BY <1>4, InvTrackingEnds DEF ConnectionLost, TypeOK
  <1>5. CASE ReadGarbled
    <2>1. garbled' \in 0..MaxGarbled /\ TrackingEnds
      BY <1>5, BoundsAssumption DEF ReadGarbled, TypeOK
    <2> QED
      BY <2>1, InvTrackingEnds
  <1>6. CASE SleepEnds
    <2> USE <1>6 DEF SleepEnds, AfterSleep, serverVars, connection, counters
    <2>1. TypeOK'
      BY DEF TypeOK
    <2>2. Caught'
      BY DEF Caught
    <2> QED
      BY <2>1, <2>2
  <1> QED
    BY <1>1, <1>2, <1>3, <1>4, <1>5, <1>6 DEF Tracker

\* The tasks for the devices.
LEMMA InvAttempt ==
    ASSUME Inv, NEW d \in Devices, Attempt(d)
    PROVE  Inv'
  <1> USE DEF Inv
  <1>1. PICK s \in Steps : AttemptGoesOn(d, s) \/ AttemptEnds(d, s)
    BY DEF Attempt
  <1>2. attempts \in [Devices -> Tasks]
    BY DEF TypeOK, Tasks
  <1>3. CASE AttemptGoesOn(d, s)
    <2>1. /\ attempts[d][s] > 0 /\ s \in Steps \ {"result"}
          /\ up /\ (s = "connect" \/ device[d] = "device")
          /\ attempts' = [attempts EXCEPT ![d][s] = @ - 1, ![d][Following[s]] = @ + 1]
          /\ tunnel' = IF s = "command" THEN tunnel \cup {d} ELSE tunnel
          /\ UNCHANGED <<up, device, tracker, lists, lost, refused, changes, stops, garbled>>
      BY <1>3 DEF AttemptGoesOn, Reachable, connection, counters
    <2>2. /\ attempts' \in [Devices -> Tasks]
          /\ Following[s] \in Steps /\ attempts'[d][Following[s]] > 0
          /\ s # "command" => Following[s] # "result"
          /\ \A e \in Devices : e # d => attempts'[e] = attempts[e]
      BY <1>2, <2>1, TaskGoesOn
    <2>3. TypeOK'
      <3>1. tunnel' \subseteq {e \in Devices : up' /\ device'[e] = "device"}
        BY <2>1 DEF TypeOK
      <3> QED
        BY <2>1, <2>2, <3>1 DEF TypeOK, Tasks
    <2>4. \A e \in Devices : e # d => (Trying(e)' <=> Trying(e))
      BY <2>2 DEF Trying
    <2>5. d \in tunnel' \/ Trying(d)'
      BY <2>1, <2>2 DEF Trying
    <2>6. Caught'
      BY <2>1, <2>4, <2>5 DEF Caught
    <2> QED
      BY <2>3, <2>6
  <1>4. CASE AttemptEnds(d, s)
    <2>1. /\ attempts[d][s] > 0
          /\ attempts' = [attempts EXCEPT ![d][s] = @ - 1]
          /\ refused' = IF Reachable(d, s) /\ s # "result" THEN refused \cup {d} ELSE refused
          /\ UNCHANGED <<up, device, tunnel, tracker, lists, lost, changes, stops, garbled>>
      BY <1>4 DEF AttemptEnds, serverVars, connection, counters
    <2>2. /\ attempts' \in [Devices -> Tasks]
          /\ \A e \in Devices : e # d => attempts'[e] = attempts[e]
          /\ \A r \in Steps \ {s} : attempts'[d][r] = attempts[d][r]
      BY <1>2, <2>1, TaskEnds
    <2>3. TypeOK'
      BY <2>1, <2>2 DEF TypeOK, Tasks
    <2>4. \A e \in Devices : e # d => (Trying(e)' <=> Trying(e))
      BY <2>2 DEF Trying
    <2>5. s = "result" /\ Trying(d) => Trying(d)'
      BY <2>2 DEF Trying
    <2>6. up /\ device[d] = "device" /\ s # "result" => d \in refused'
      BY <2>1 DEF Reachable
    <2>7. refused \subseteq refused'
      BY <2>1
    <2>8. Caught'
      <3>1. (tracker = "read" /\ ~lost /\ lists = <<>>) =>
                \A e \in Devices : device[e] = "device" => e \in tunnel \cup refused' \/ Trying(e)'
        BY <2>4, <2>5, <2>6, <2>7 DEF Caught
      <3> QED
        BY <3>1, <2>1 DEF Caught
    <2> QED
      BY <2>3, <2>8
  <1> QED
    BY <1>1, <1>3, <1>4

\* All steps together.
LEMMA InvStep ==
    ASSUME Inv, [Next]_vars
    PROVE  Inv'
  <1>1. CASE UNCHANGED vars
    <2> USE <1>1 DEF vars, serverVars, connection, counters
    <2>1. TypeOK'
      BY DEF Inv, TypeOK
    <2>2. Caught'
      BY DEF Inv, Caught, Trying
    <2> QED
      BY <2>1, <2>2 DEF Inv
  <1> QED
    BY <1>1, InvDeviceChanges, InvServer, InvTracker, InvAttempt DEF Next

\* While a connection is read, its last list is the present one, and after that list a
\* task has been started for every device that is ready and has no tunnel.
THEOREM TrackingCatchesUp == Spec => []Inv
  BY InvInit, InvStep, PTL DEF Spec

\* Every variable of the tracker, its tasks and the ADB server keeps its type.
THEOREM TypeCorrect == Spec => []TypeOK
  <1>1. Inv => TypeOK
    BY DEF Inv
  <1> QED
    BY <1>1, TrackingCatchesUp, PTL

\* Every device that is ready when all is worked off has its tunnel or was refused it,
\* for any number of devices and any order of changes, lists and late tasks.
THEOREM NobodyIsForgotten == Spec => []NoDeviceIsForgotten
  <1>1. Inv => NoDeviceIsForgotten
    <2> SUFFICES ASSUME Inv, Settled, NEW d \in Devices, device[d] = "device"
                 PROVE  d \in tunnel \cup refused
      BY DEF NoDeviceIsForgotten
    <2>1. ~Trying(d)
      BY DEF Settled, Trying, NoTask
    <2> QED
      BY <2>1 DEF Inv, Caught, Settled
  <1> QED
    BY <1>1, TrackingCatchesUp, PTL
=============================================================================
