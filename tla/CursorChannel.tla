--------------------------- MODULE CursorChannel ---------------------------
(***************************************************************************)
(* The mouse cursor, from the OS to the clients: the cursor thread of the  *)
(* driver queries it and writes it to a shared block, the control thread   *)
(* of the service reads the block and puts it into two watch channels, and *)
(* handle_control writes what changed to each client.                      *)
(*                                                                         *)
(* An image is written and read under the cursor mutex, a position word by *)
(* word without it; each has an auto-reset event.  Either process may end; *)
(* the block, the mutex and the events live as long as one of them holds a *)
(* handle.                                                                 *)
(*                                                                         *)
(* A shape is its dimensions and its bytes, both abstract.  An optional    *)
(* value is a set of at most one member.                                   *)
(*                                                                         *)
(* A definition marked "Mistake" is not used: put in the place of the one  *)
(* that follows it, it shows which property notices that mistake.          *)
(***************************************************************************)
EXTENDS Integers, Sequences

CONSTANTS
    Cursors,        \* what the OS may show: a shape, a place, visible or not
    Unencodable,    \* those the PNG encoder rejects
    Clients,        \* connections to the control channel
    CacheSize,      \* images in the cache; 60 in the code
    QueriesFail,    \* TRUE: IddCxMonitorQueryHardwareCursor may fail
    MaxChanges,     \* bound on changes of the cursor
    MaxDriverExits, \* bound on ends of the driver's monitor or host
    MaxVdExits      \* bound on ends of the service

ASSUME CursorsAssumption ==
    Cursors \subseteq [shape : [size : Nat \ {0}, pixels : Nat \ {0}],
                       x : Int, y : Int, visible : BOOLEAN]
ASSUME BoundsAssumption ==
    /\ CacheSize \in Nat \ {0}
    /\ QueriesFail \in BOOLEAN
    /\ MaxChanges \in Nat /\ MaxDriverExits \in Nat /\ MaxVdExits \in Nat

VARIABLES
    os,         \* the cursor the OS shows
    dataEvent,  \* the auto-reset event of new cursor data
    cur,        \* where the driver's cursor thread is
    known,      \* the result of its last query, if any
    sentShape,  \* m_CursorShapeId: the last shape sent, if any
    block,      \* the shared cursor block
    mutex,      \* holder of the cursor mutex
    imageEvent, positionEvent,  \* the auto-reset events
    ctl,        \* where the control thread is
    toRead, read,   \* the position words it has to load, and has loaded
    cache,      \* the images in cursor_cache, the last used one first
    position, image,    \* the values of the watch channels, if any
    pc,         \* where the task of each client is
    newPosition, newImage,  \* what its receivers have not seen yet
    packet,     \* what it is writing, if anything
    shownPosition, shownImage,  \* what the client has been sent last, if anything
    changes, driverExits, vdExits   \* counters for the bounds only

driverVars == <<cur, known, sentShape>>
controlVars == <<ctl, toRead, read, cache>>
watchVars == <<position, image>>
clientVars == <<pc, newPosition, newImage, packet, shownPosition, shownImage>>
events == <<imageEvent, positionEvent>>
counters == <<changes, driverExits, vdExits>>
\* What the steps of each thread leave alone.
notDriver == <<os, controlVars, watchVars, clientVars, counters>>
notControl == <<os, dataEvent, driverVars, counters>>
notTask == <<os, dataEvent, driverVars, block, mutex, events, controlVars,
             watchVars, counters>>
vars == <<os, dataEvent, driverVars, block, mutex, events, controlVars,
          watchVars, clientVars, counters>>

Words == {"x", "y", "visible"}
FreshBlock == [x |-> 0, y |-> 0, visible |-> FALSE, size |-> 0, pixels |-> 0]
Unread == [x |-> 0, y |-> 0, visible |-> FALSE]
PositionOf(q) == [x |-> q.x, y |-> q.y, visible |-> q.visible]

DriverHolds == cur # "off"
\* All handles of the control thread go with it.
VdHolds == ctl \notin {"off", "dead"}

\* Mistake: the cursor mutex does not keep the others out.
MutexIgnored == TRUE
MutexFree == mutex = "free"
\* Mistake: the mutex stays with a holder that ended.
AbandonedIsLost(holder) == mutex
Abandon(holder) == IF mutex = holder THEN "free" ELSE mutex

\* Mistake: the position is announced before it is written.
EventFirst ==
    [lock |-> "size", size |-> "pixels", pixels |-> "imageEvent",
     imageEvent |-> "positionEvent", positionEvent |-> "x", x |-> "y",
     y |-> "visible", visible |-> "wait"]
\* The order in which the cursor thread works through UpdateCursorImage and
\* UpdateCursorPosition.
After ==
    [lock |-> "size", size |-> "pixels", pixels |-> "imageEvent",
     imageEvent |-> "x", x |-> "y", y |-> "visible",
     visible |-> "positionEvent", positionEvent |-> "wait"]

Shapes == {o.shape : o \in Cursors}

Init ==
    /\ os \in Cursors
    /\ dataEvent = FALSE
    /\ cur = "off" /\ known = {} /\ sentShape = {}
    /\ block = FreshBlock /\ mutex = "free"
    /\ imageEvent = FALSE /\ positionEvent = FALSE
    /\ ctl = "off" /\ toRead = {} /\ read = Unread /\ cache = <<>>
    /\ position = {} /\ image = {}
    /\ pc = [c \in Clients |-> "off"]
    /\ newPosition = [c \in Clients |-> FALSE]
    /\ newImage = [c \in Clients |-> FALSE]
    /\ packet = [c \in Clients |-> [position |-> {}, image |-> {}]]
    /\ shownPosition = [c \in Clients |-> {}]
    /\ shownImage = [c \in Clients |-> {}]
    /\ changes = 0 /\ driverExits = 0 /\ vdExits = 0

-----------------------------------------------------------------------------
(***************************************************************************)
(* The OS and the driver's cursor thread.                                  *)
(***************************************************************************)

\* The cursor changes, or a CommitModes call sets the hardware cursor up again.
CursorChanges ==
    /\ changes < MaxChanges
    /\ changes' = changes + 1
    /\ os' \in Cursors
    /\ dataEvent' = (cur # "off")
    /\ UNCHANGED <<driverVars, block, mutex, events, controlVars, watchVars,
                   clientVars, driverExits, vdExits>>

\* A monitor arrives: the objects are opened and the thread starts.  Its mode is
\* committed, which sets up the hardware cursor.
DriverStart ==
    /\ cur = "off"
    /\ cur' = "wait"
    /\ dataEvent' = TRUE
    /\ UNCHANGED <<notDriver, known, sentShape, block, mutex, events>>

WaitData ==
    /\ cur = "wait"
    /\ dataEvent
    /\ dataEvent' = FALSE
    /\ cur' = "query"
    /\ UNCHANGED <<notDriver, known, sentShape, block, mutex, events>>

\* The image is sent when its shape is new and the cursor visible, the position
\* always.
QueryCursor ==
    /\ cur = "query"
    /\ known' = {os}
    /\ cur' = IF sentShape # {os.shape} /\ os.visible THEN "lock" ELSE "x"
    /\ UNCHANGED <<notDriver, dataEvent, sentShape, block, mutex, events>>

\* A query that failed goes back to the wait.
QueryFails ==
    /\ cur = "query"
    /\ QueriesFail
    /\ cur' = "wait"
    /\ UNCHANGED <<notDriver, dataEvent, known, sentShape, block, mutex, events>>

Continue == cur' = After[cur]

LockForImage ==
    /\ cur = "lock"
    /\ MutexFree
    /\ mutex' = "driver"
    /\ Continue
    /\ UNCHANGED <<notDriver, dataEvent, known, sentShape, block, events>>

WriteSize ==
    /\ cur = "size"
    /\ \E q \in known : block' = [block EXCEPT !.size = q.shape.size]
    /\ Continue
    /\ UNCHANGED <<notDriver, dataEvent, known, sentShape, mutex, events>>

WritePixels ==
    /\ cur = "pixels"
    /\ \E q \in known : block' = [block EXCEPT !.pixels = q.shape.pixels]
    /\ mutex' = "free"
    /\ Continue
    /\ UNCHANGED <<notDriver, dataEvent, known, sentShape, events>>

SetImageEvent ==
    /\ cur = "imageEvent"
    /\ imageEvent' = TRUE
    /\ sentShape' = {q.shape : q \in known}
    /\ Continue
    /\ UNCHANGED <<notDriver, dataEvent, known, block, mutex, positionEvent>>

\* Interlocked stores of one word each, without the mutex.
WriteWord(w) ==
    /\ cur = w
    /\ \E q \in known : block' = [block EXCEPT ![w] = q[w]]
    /\ Continue
    /\ UNCHANGED <<notDriver, dataEvent, known, sentShape, mutex, events>>

SetPositionEvent ==
    /\ cur = "positionEvent"
    /\ positionEvent' = TRUE
    /\ Continue
    /\ UNCHANGED <<notDriver, dataEvent, known, sentShape, block, mutex, imageEvent>>

\* The driver's handles close.
DriverGone ==
    /\ driverExits < MaxDriverExits
    /\ driverExits' = driverExits + 1
    /\ cur' = "off" /\ known' = {} /\ sentShape' = {} /\ dataEvent' = FALSE
    /\ mutex' = Abandon("driver")
    /\ block' = IF VdHolds THEN block ELSE FreshBlock
    /\ imageEvent' = (imageEvent /\ VdHolds)
    /\ positionEvent' = (positionEvent /\ VdHolds)
    /\ UNCHANGED <<os, controlVars, watchVars, clientVars, changes, vdExits>>

\* The destructor terminates the thread, which sees that only in its wait and
\* after new data.
DriverEnds == cur = "wait" /\ ~dataEvent /\ DriverGone

DriverCrashes == cur # "off" /\ DriverGone

-----------------------------------------------------------------------------
(***************************************************************************)
(* The control thread.                                                     *)
(***************************************************************************)
VdStart ==
    /\ ctl = "off"
    /\ ctl' = "wait"
    /\ UNCHANGED <<notControl, block, mutex, events, toRead, read, cache, watchVars,
                   clientVars>>

\* WaitForMultipleObjects reports the first event set, in the order image,
\* position, configure.
WaitImage ==
    /\ ctl = "wait"
    /\ imageEvent
    /\ imageEvent' = FALSE
    /\ ctl' = "lock"
    /\ UNCHANGED <<notControl, block, mutex, positionEvent, toRead, read, cache,
                   watchVars, clientVars>>

WaitPosition ==
    /\ ctl = "wait"
    /\ ~imageEvent /\ positionEvent
    /\ positionEvent' = FALSE
    /\ ctl' = "read"
    /\ toRead' = Words
    /\ UNCHANGED <<notControl, block, mutex, imageEvent, read, cache, watchVars,
                   clientVars>>

\* The configure branch, which ConfigChannel models: it may panic.  When it does
\* not, it leaves nothing of this module changed.
ConfigurePanics ==
    /\ ctl = "wait"
    /\ ~imageEvent /\ ~positionEvent
    /\ ctl' = "dead"
    /\ block' = IF DriverHolds THEN block ELSE FreshBlock
    /\ UNCHANGED <<notControl, mutex, events, toRead, read, cache, watchVars,
                   clientVars>>

LockToRead ==
    /\ ctl = "lock"
    /\ MutexFree
    /\ mutex' = "control"
    /\ ctl' = "image"
    /\ UNCHANGED <<notControl, block, events, toRead, read, cache, watchVars,
                   clientVars>>

\* The cache is looked up by a checksum of the pixels.
Key(img) == img.pixels
\* The cache after set_cursor_image(img): the image it found or made, then the
\* others in the order of their last use.
Recent(img) ==
    LET found == {i \in DOMAIN cache : Key(cache[i]) = Key(img)} IN
      IF found = {} THEN LET all == <<img>> \o cache IN
           IF Len(all) > CacheSize THEN SubSeq(all, 1, CacheSize) ELSE all
      ELSE LET i == CHOOSE i \in found : TRUE IN
           <<cache[i]>> \o SubSeq(cache, 1, i - 1) \o SubSeq(cache, i + 1, Len(cache))

\* Mistake: only the clients that wait at this moment are told.
ToldIfWaiting == [c \in Clients |-> pc[c] = "select"]
\* A value sent to a watch is new to every receiver there is.
Told == [c \in Clients |-> pc[c] # "off"]

\* set_cursor_image, still under the mutex: an image that is not in the cache
\* and cannot be encoded is dropped.
SetCursorImage ==
    /\ ctl = "image"
    /\ LET img == [size |-> block.size, pixels |-> block.pixels] IN
         IF img \in Unencodable /\ \A i \in DOMAIN cache : Key(cache[i]) # Key(img)
         THEN UNCHANGED <<cache, image, newImage>>
         ELSE /\ cache' = Recent(img)
              /\ image' = {Head(cache')}
              /\ newImage' = Told
    /\ mutex' = "free"
    /\ ctl' = "wait"
    /\ UNCHANGED <<notControl, block, events, toRead, read, position, pc,
                   newPosition, packet, shownPosition, shownImage>>

ReadWord(w) ==
    /\ ctl = "read"
    /\ w \in toRead
    /\ read' = [read EXCEPT ![w] = block[w]]
    /\ toRead' = toRead \ {w}
    /\ UNCHANGED <<notControl, block, mutex, events, ctl, cache, watchVars,
                   clientVars>>

SetCursorPosition ==
    /\ ctl = "read"
    /\ toRead = {}
    /\ position' = {read}
    /\ newPosition' = Told
    /\ read' = Unread
    /\ ctl' = "wait"
    /\ UNCHANGED <<notControl, block, mutex, events, toRead, cache, image, pc,
                   newImage, packet, shownPosition, shownImage>>

VdExit ==
    /\ ctl # "off"
    /\ vdExits < MaxVdExits
    /\ vdExits' = vdExits + 1
    /\ ctl' = "off" /\ toRead' = {} /\ read' = Unread /\ cache' = <<>>
    /\ position' = {} /\ image' = {}
    /\ pc' = [c \in Clients |-> "off"]
    /\ newPosition' = [c \in Clients |-> FALSE]
    /\ newImage' = [c \in Clients |-> FALSE]
    /\ packet' = [c \in Clients |-> [position |-> {}, image |-> {}]]
    /\ shownPosition' = [c \in Clients |-> {}]
    /\ shownImage' = [c \in Clients |-> {}]
    /\ mutex' = Abandon("control")
    /\ block' = IF DriverHolds THEN block ELSE FreshBlock
    /\ imageEvent' = (imageEvent /\ DriverHolds)
    /\ positionEvent' = (positionEvent /\ DriverHolds)
    /\ UNCHANGED <<os, dataEvent, driverVars, changes, driverExits>>

-----------------------------------------------------------------------------
(***************************************************************************)
(* The clients: handle_control, and the control channel of WebRTC.         *)
(***************************************************************************)

\* Mistake: new receivers take the present value as seen.
PresentIsSeen(value) == FALSE
\* A clone of the monitor's own receivers, which have seen nothing.
Unseen(value) == value # {}

Connect(c) ==
    /\ pc[c] = "off"
    /\ ctl # "off"
    /\ pc' = [pc EXCEPT ![c] = "select"]
    /\ newPosition' = [newPosition EXCEPT ![c] = Unseen(position)]
    /\ newImage' = [newImage EXCEPT ![c] = Unseen(image)]
    /\ UNCHANGED <<notTask, packet, shownPosition, shownImage>>

\* changed() returns, and marks as seen; the value is borrowed after that.
PositionChanged(c) ==
    /\ pc[c] = "select"
    /\ newPosition[c]
    /\ newPosition' = [newPosition EXCEPT ![c] = FALSE]
    /\ pc' = [pc EXCEPT ![c] = "position"]
    /\ UNCHANGED <<notTask, newImage, packet, shownPosition, shownImage>>

ImageChanged(c) ==
    /\ pc[c] = "select"
    /\ newImage[c]
    /\ newImage' = [newImage EXCEPT ![c] = FALSE]
    /\ pc' = [pc EXCEPT ![c] = "image"]
    /\ UNCHANGED <<notTask, newPosition, packet, shownPosition, shownImage>>

Borrow(c) ==
    /\ pc[c] \in {"position", "image"}
    /\ packet' = [packet EXCEPT ![c] =
                    IF pc[c] = "position" THEN [position |-> position, image |-> {}]
                                          ELSE [position |-> {}, image |-> image]]
    /\ pc' = [pc EXCEPT ![c] = "write"]
    /\ UNCHANGED <<notTask, newPosition, newImage, shownPosition, shownImage>>

WriteDone(c) ==
    /\ pc[c] = "write"
    /\ LET p == packet[c] IN
         /\ shownPosition' = [shownPosition EXCEPT ![c] = IF p.position # {} THEN p.position ELSE @]
         /\ shownImage' = [shownImage EXCEPT ![c] = IF p.image # {} THEN p.image ELSE @]
    /\ packet' = [packet EXCEPT ![c] = [position |-> {}, image |-> {}]]
    /\ pc' = [pc EXCEPT ![c] = "select"]
    /\ UNCHANGED <<notTask, newPosition, newImage>>

\* The write fails or takes too long: the task ends.
WriteFails(c) ==
    /\ pc[c] = "write"
    /\ pc' = [pc EXCEPT ![c] = "off"]
    /\ newPosition' = [newPosition EXCEPT ![c] = FALSE]
    /\ newImage' = [newImage EXCEPT ![c] = FALSE]
    /\ packet' = [packet EXCEPT ![c] = [position |-> {}, image |-> {}]]
    /\ shownPosition' = [shownPosition EXCEPT ![c] = {}]
    /\ shownImage' = [shownImage EXCEPT ![c] = {}]
    /\ UNCHANGED <<notTask>>

CursorThread ==
    \/ WaitData \/ QueryCursor \/ LockForImage \/ WriteSize \/ WritePixels
    \/ SetImageEvent \/ (\E w \in Words : WriteWord(w)) \/ SetPositionEvent

ControlThread ==
    \/ WaitImage \/ WaitPosition \/ LockToRead
    \/ SetCursorImage \/ (\E w \in Words : ReadWord(w)) \/ SetCursorPosition

Task(c) ==
    PositionChanged(c) \/ ImageChanged(c) \/ Borrow(c) \/ WriteDone(c) \/ WriteFails(c)

Next ==
    \/ CursorChanges \/ DriverStart \/ CursorThread \/ QueryFails
    \/ DriverEnds \/ DriverCrashes
    \/ VdStart \/ ControlThread \/ ConfigurePanics \/ VdExit
    \/ \E c \in Clients : Connect(c) \/ Task(c)

\* Every thread and task runs when it can.  Nothing more is assumed of who gets the
\* mutex, or of the branch a select picks: the changes of the cursor come to an end.
Fairness ==
    /\ WF_vars(CursorThread) /\ WF_vars(ControlThread)
    /\ \A c \in Clients : WF_vars(Task(c))

Spec == Init /\ [][Next]_vars
FairSpec == Spec /\ Fairness

-----------------------------------------------------------------------------
(***************************************************************************)
(* Properties.                                                             *)
(***************************************************************************)
Images == [size : Nat, pixels : Nat]
Positions == [x : Int, y : Int, visible : BOOLEAN]
Option(o, S) == o \subseteq S /\ \A d, e \in o : d = e

\* Every variable has its type, and the cursor mutex is held exactly by a thread
\* inside its critical section, whoever ended and when.
TypeOK ==
    /\ os \in Cursors /\ dataEvent \in BOOLEAN
    /\ cur \in {"off", "wait", "query"} \cup DOMAIN After
    /\ Option(known, Cursors) /\ Option(sentShape, Shapes)
    /\ block \in [x : Int, y : Int, visible : BOOLEAN, size : Nat, pixels : Nat]
    /\ mutex \in {"free", "driver", "control"}
    /\ imageEvent \in BOOLEAN /\ positionEvent \in BOOLEAN
    /\ ctl \in {"off", "wait", "lock", "image", "read", "dead"}
    /\ toRead \subseteq Words /\ read \in Positions
    /\ cache \in Seq(Images) /\ Len(cache) <= CacheSize
    /\ Option(position, Positions) /\ Option(image, Images)
    /\ pc \in [Clients -> {"off", "select", "position", "image", "write"}]
    /\ newPosition \in [Clients -> BOOLEAN] /\ newImage \in [Clients -> BOOLEAN]
    /\ packet \in [Clients -> [position : SUBSET Positions, image : SUBSET Images]]
    /\ shownPosition \in [Clients -> SUBSET Positions]
    /\ shownImage \in [Clients -> SUBSET Images]
    /\ changes \in Nat /\ driverExits \in Nat /\ vdExits \in Nat
    /\ (mutex = "driver") <=> (cur \in {"size", "pixels"})
    /\ (mutex = "control") <=> (ctl = "image")

\* Nothing is on its way from the cursor thread to the client.
Settled(c) == cur = "wait" /\ ctl = "wait" /\ pc[c] = "select"

\* When nothing is on its way, a client shows the position and visibility the
\* driver last found, if it shows any: reads torn by the stores that go on
\* without a lock, and updates that overtake each other in the event, the watch
\* or the select, are made up for, restarts of either process included.
ClientShowsPosition ==
    \A c \in Clients :
        (Settled(c) /\ ~positionEvent /\ ~newPosition[c]) =>
            \A q \in known, p \in shownPosition[c] : p = PositionOf(q)

\* The same for the image of a visible cursor.  A cursor that was hidden when
\* its shape changed gets it when it shows again, and the cache never answers
\* with other pixels; it may answer with other dimensions.
ClientShowsShape ==
    \A c \in Clients :
        (Settled(c) /\ ~imageEvent /\ ~newImage[c]) =>
            \A q \in known, img \in shownImage[c] :
                q.visible => img.pixels = q.shape.pixels \/ q.shape \in Unencodable

\* Unless the driver ended, an image that goes to the clients is one of the OS's:
\* it never has the size of one and the pixels of another.
ImageIsWhole == driverExits = 0 => image \subseteq Shapes

Shows(c, o) ==
    /\ shownPosition[c] = {PositionOf(o)}
    /\ (o.visible /\ o.shape \notin Unencodable) =>
         \E img \in shownImage[c] : img.pixels = o.shape.pixels

\* What the driver found last reaches every client that stays connected, its image too
\* when it is visible, unless a process ends or the control thread panics.
CursorReachesClient ==
    \A c \in Clients :
        []<>(\/ \A o \in known : Shows(c, o)
             \/ pc[c] = "off" \/ ctl \in {"off", "dead"} \/ cur = "off"
             \/ driverExits + vdExits > 0)
=============================================================================
