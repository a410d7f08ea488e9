------------------------- MODULE CursorChannelProofs -------------------------
(***************************************************************************)
(* Theorems about CursorChannel, for any cursors, clients, size of the     *)
(* cache and number of restarts: types and the mutex, what a client shows  *)
(* when nothing is on its way, and that images are whole.  The inductive   *)
(* invariant follows an update on its way: Driver says what the block and  *)
(* m_CursorShapeId hold at each step of the cursor thread, Control what    *)
(* the control thread has published when no event is left, Client what     *)
(* each client has been sent when no notice is left.                       *)
(***************************************************************************)
EXTENDS CursorChannel, SequenceTheorems, TLAPS

NoPacket == [position |-> {}, image |-> {}]
Writing == {"size", "pixels", "imageEvent"}
ShapeOf(b) == [size |-> b.size, pixels |-> b.pixels]

\* What the cursor thread has written is what its last query found, as far as it has
\* come; the shape it last sent stays in the block until it writes the next.
Driver ==
    /\ cur = "off" => known = {} /\ sentShape = {} /\ ~dataEvent
    /\ cur \notin {"off", "lock"} \cup Writing =>
         \A q \in known : q.visible => sentShape = {q.shape}
    /\ cur = "pixels" => \A q \in known : block.size = q.shape.size
    /\ cur = "imageEvent" => \A q \in known : ShapeOf(block) = q.shape
    /\ cur \notin {"pixels", "imageEvent"} => \A s \in sentShape : ShapeOf(block) = s
    /\ cur \in {"y", "visible", "positionEvent", "wait", "query"} =>
         \A q \in known : block.x = q.x
    /\ cur \in {"visible", "positionEvent", "wait", "query"} =>
         \A q \in known : block.y = q.y
    /\ cur \in {"positionEvent", "wait", "query"} =>
         \A q \in known : block.visible = q.visible

\* Without an event that waits, the watches hold what the driver last sent; a position
\* being read agrees with it word by word.
Control ==
    /\ (cur # "imageEvent" /\ ~imageEvent /\ ctl \notin {"lock", "image"}) =>
         \A img \in image, s \in sentShape : img.pixels = s.pixels \/ s \in Unencodable
    /\ (cur \in {"wait", "query"} /\ ~positionEvent) =>
         \A q \in known :
            IF ctl = "read" THEN \A w \in Words \ toRead : read[w] = q[w]
            ELSE \A p \in position : p = PositionOf(q)

\* Without a notice that waits, a client has, or is being sent, what the watches hold.
Client(c) ==
    /\ pc[c] = "off" => shownPosition[c] = {} /\ shownImage[c] = {}
    /\ pc[c] # "write" => packet[c] = NoPacket
    /\ pc[c] = "position" \/ newPosition[c] => position # {}
    /\ pc[c] = "image" \/ newImage[c] => image # {}
    /\ (pc[c] \notin {"off", "position"} /\ ~newPosition[c]) =>
         IF packet[c].position = {} THEN shownPosition[c] \subseteq position
                                    ELSE packet[c].position = position
    /\ (pc[c] \notin {"off", "image"} /\ ~newImage[c]) =>
         IF packet[c].image = {} THEN shownImage[c] \subseteq image
                                 ELSE packet[c].image = image

\* Until the driver ends once, the block is whole when its image is announced or read.
Whole ==
    driverExits = 0 =>
        /\ image \subseteq Shapes
        /\ \A i \in DOMAIN cache : cache[i] \in Shapes
        /\ (cur # "pixels" /\ (cur = "imageEvent" \/ imageEvent \/ ctl \in {"lock", "image"})) =>
              ShapeOf(block) \in Shapes

Inv == TypeOK /\ Driver /\ Control /\ (\A c \in Clients : Client(c)) /\ Whole
-----------------------------------------------------------------------------
(***************************************************************************)
(* Cursors, and the cache.                                                 *)
(***************************************************************************)
Blocks == [x : Int, y : Int, visible : BOOLEAN, size : Nat, pixels : Nat]

\* What CursorsAssumption says of a cursor, its shape and its position.
LEMMA CursorIsTyped ==
    ASSUME NEW q \in Cursors
    PROVE  /\ q \in [shape : [size : Nat \ {0}, pixels : Nat \ {0}],
                     x : Int, y : Int, visible : BOOLEAN]
           /\ q.shape \in Shapes /\ q.shape \in Images
           /\ PositionOf(q) \in Positions
  BY CursorsAssumption DEF Shapes, Images, PositionOf, Positions

\* What the driver writes can be published.
LEMMA ShapesAreImages == Shapes \subseteq Images
  BY CursorIsTyped DEF Shapes

\* set_cursor_image leaves at most CacheSize images in the cache, and in front one of the
\* same pixels: the one it was given, or one that was there.
LEMMA RecentIsFirst ==
    ASSUME cache \in Seq(Images), Len(cache) <= CacheSize, NEW img \in Images
    PROVE  /\ Recent(img) \in Seq(Images) /\ Len(Recent(img)) \in 1..CacheSize
           /\ Key(Head(Recent(img))) = Key(img)
           /\ \A i \in DOMAIN Recent(img) :
                \/ Recent(img)[i] = img
                \/ \E j \in DOMAIN cache : Recent(img)[i] = cache[j]
  <1> DEFINE found == {i \in DOMAIN cache : Key(cache[i]) = Key(img)}
  <1>0. Len(cache) \in Nat /\ CacheSize \in Nat \ {0} /\ DOMAIN cache = 1..Len(cache)
    BY BoundsAssumption
  <1>1. CASE found = {}
    <2> DEFINE all == <<img>> \o cache
    <2>1. Recent(img) = IF Len(all) > CacheSize THEN SubSeq(all, 1, CacheSize) ELSE all
      BY <1>1 DEF Recent
    <2>2. /\ all \in Seq(Images) /\ Len(all) = Len(cache) + 1 /\ all[1] = img
          /\ \A i \in 2..Len(all) : all[i] = cache[i - 1]
      BY <1>0
    <2> HIDE DEF all
    <2>3. Recent(img) \in Seq(Images) /\ Len(Recent(img)) \in 1..CacheSize
          /\ \A i \in 1..Len(Recent(img)) : i \in 1..Len(all) /\ Recent(img)[i] = all[i]
      BY <1>0, <2>1, <2>2
    <2>4. Head(Recent(img)) = img
      BY <2>2, <2>3
    <2>5. ASSUME NEW i \in 1..Len(Recent(img)), i # 1
          PROVE  i - 1 \in DOMAIN cache /\ Recent(img)[i] = cache[i - 1]
      BY <1>0, <2>2, <2>3, <2>5
    <2> QED
      BY <2>2, <2>3, <2>4, <2>5
  <1>2. CASE found # {}
    <2> DEFINE i == CHOOSE i \in found : TRUE
               before == SubSeq(cache, 1, i - 1)
               after == SubSeq(cache, i + 1, Len(cache))
    <2>1. i \in 1..Len(cache) /\ Key(cache[i]) = Key(img)
      BY <1>0, <1>2
    <2>2. Recent(img) = <<cache[i]>> \o before \o after
      BY <1>2 DEF Recent
    <2> HIDE DEF i
    <2>3. /\ before \in Seq(Images) /\ Len(before) = i - 1
          /\ \A j \in 1..(i - 1) : before[j] = cache[j]
      BY <1>0, <2>1
    <2>4. /\ after \in Seq(Images) /\ Len(after) = Len(cache) - i
          /\ \A j \in 1..(Len(cache) - i) : after[j] = cache[i + j]
      <3>1. i + 1 \in Int /\ Len(cache) \in Int /\ \A j \in (i + 1)..Len(cache) : cache[j] \in Images
        BY <1>0, <2>1
      <3>2. /\ after \in Seq(Images)
            /\ Len(after) = IF i + 1 <= Len(cache) THEN Len(cache) - (i + 1) + 1 ELSE 0
            /\ \A j \in 1..(Len(cache) - (i + 1) + 1) : after[j] = cache[i + 1 + j - 1]
        BY <3>1, SubSeqProperties
      <3>3. i \in Int /\ Len(cache) - (i + 1) + 1 = Len(cache) - i
        BY <1>0, <2>1
      <3>4. \A j \in 1..(Len(cache) - i) : i + 1 + j - 1 = i + j
        BY <1>0, <3>3
      <3>5. Len(after) = Len(cache) - i
        <4>1. CASE i + 1 <= Len(cache)
          BY <3>2, <3>3, <4>1
        <4>2. CASE ~(i + 1 <= Len(cache))
          <5>1. Len(cache) = i
            <6>1. i \in Int /\ Len(cache) \in Int /\ i <= Len(cache)
              BY <1>0, <2>1, <3>3
            <6> QED
              BY <4>2, <6>1
          <5> QED
            BY <3>2, <3>3, <4>2, <5>1
        <4> QED
          BY <4>1, <4>2
      <3> QED
        BY <3>2, <3>3, <3>4, <3>5
    <2>5. cache[i] \in Images
      BY <2>1
    <2> HIDE DEF before, after
    <2> DEFINE front == <<cache[i]>> \o before
    <2>6. /\ front \in Seq(Images) /\ Len(front) = i /\ front[1] = cache[i]
          /\ \A j \in 2..i : front[j] = cache[j - 1]
      BY <1>0, <2>1, <2>3, <2>5
    <2> HIDE DEF front
    <2>7. Recent(img) = front \o after
      BY <2>2 DEF front
    <2>8. /\ Recent(img) \in Seq(Images) /\ Len(Recent(img)) = Len(cache)
          /\ \A j \in 1..i : Recent(img)[j] = front[j]
          /\ \A j \in (i + 1)..Len(cache) : Recent(img)[j] = after[j - i]
      <3>1. /\ front \o after \in Seq(Images) /\ Len(front \o after) = Len(front) + Len(after)
            /\ \A j \in 1..(Len(front) + Len(after)) :
                 (front \o after)[j] = IF j <= Len(front) THEN front[j] ELSE after[j - Len(front)]
        BY <2>4, <2>6, ConcatProperties
      <3> QED
        BY <1>0, <2>1, <2>4, <2>6, <2>7, <3>1
    <2>9. Head(Recent(img)) = cache[i]
      BY <1>0, <2>1, <2>6, <2>8
    <2>10. ASSUME NEW j \in 1..Len(cache)
           PROVE  \E k \in DOMAIN cache : Recent(img)[j] = cache[k]
      <3>1. CASE j = 1
        BY <1>0, <3>1, <2>1, <2>6, <2>8
      <3>2. CASE j \in 2..i
        <4>1. j - 1 \in DOMAIN cache /\ Recent(img)[j] = cache[j - 1]
          BY <1>0, <3>2, <2>1, <2>6, <2>8
        <4> QED
          BY <4>1
      <3>3. CASE j \in (i + 1)..Len(cache)
        <4>1. Recent(img)[j] = cache[j] /\ j \in DOMAIN cache
          BY <1>0, <3>3, <2>1, <2>4, <2>8
        <4> QED
          BY <4>1
      <3> QED
        BY <3>1, <3>2, <3>3, <2>1
    <2>11. DOMAIN Recent(img) = 1..Len(cache)
      BY <2>8
    <2> QED
      BY <1>0, <2>1, <2>8, <2>9, <2>10, <2>11
  <1> QED
    BY <1>1, <1>2

-----------------------------------------------------------------------------
(***************************************************************************)
(* Types.                                                                  *)
(***************************************************************************)
Steps == {"off", "wait", "query", "lock", "size", "pixels", "imageEvent", "x", "y", "visible",
          "positionEvent"}

DriverTypes ==
    /\ os \in Cursors /\ dataEvent \in BOOLEAN /\ cur \in Steps
    /\ Option(known, Cursors) /\ Option(sentShape, Shapes)
    /\ block \in Blocks /\ mutex \in {"free", "driver", "control"}
    /\ imageEvent \in BOOLEAN /\ positionEvent \in BOOLEAN
    /\ changes \in Nat /\ driverExits \in Nat /\ vdExits \in Nat
    /\ (mutex = "driver") <=> (cur \in {"size", "pixels"})
    /\ (mutex = "control") <=> (ctl = "image")

ControlTypes ==
    /\ ctl \in {"off", "wait", "lock", "image", "read", "dead"}
    /\ toRead \subseteq Words /\ read \in Positions
    /\ cache \in Seq(Images) /\ Len(cache) <= CacheSize
    /\ Option(position, Positions) /\ Option(image, Images)

Packets == [position : SUBSET Positions, image : SUBSET Images]

ClientTypes ==
    /\ pc \in [Clients -> {"off", "select", "position", "image", "write"}]
    /\ newPosition \in [Clients -> BOOLEAN] /\ newImage \in [Clients -> BOOLEAN]
    /\ packet \in [Clients -> Packets]
    /\ shownPosition \in [Clients -> SUBSET Positions]
    /\ shownImage \in [Clients -> SUBSET Images]

\* TypeOK in three parts, by who changes the variables.
LEMMA TypeParts ==
    /\ TypeOK <=> DriverTypes /\ ControlTypes /\ ClientTypes
    /\ TypeOK' <=> DriverTypes' /\ ControlTypes' /\ ClientTypes'
  <1>1. Steps = {"off", "wait", "query"} \cup DOMAIN After
    BY DEF Steps, After
  <1> QED
    BY <1>1 DEF TypeOK, DriverTypes, ControlTypes, ClientTypes, Blocks, Packets

\* The types hold at first.
LEMMA TypeInit == Init => TypeOK
  <1> SUFFICES ASSUME Init PROVE TypeOK
    OBVIOUS
  <1>1. DriverTypes
    <2>1. block \in Blocks
      BY DEF Init, FreshBlock, Blocks
    <2>4. dataEvent = FALSE /\ imageEvent = FALSE /\ positionEvent = FALSE
      BY DEF Init
    <2>2. mutex = "free" /\ cur = "off" /\ ctl = "off"
      BY DEF Init
    <2>3. Option(known, Cursors) /\ Option(sentShape, Shapes)
      BY DEF Init, Option
    <2> QED
      BY <2>1, <2>2, <2>3, <2>4 DEF Init, DriverTypes, Steps
  <1>2. ControlTypes
    <2>1. cache \in Seq(Images) /\ Len(cache) <= CacheSize
      BY BoundsAssumption DEF Init
    <2> QED
      BY <2>1 DEF Init, ControlTypes, Option, Unread, Positions
  <1>3. ClientTypes
    <2>1. [position |-> {}, image |-> {}] \in Packets
      BY DEF Packets
    <2> QED
      BY <2>1 DEF Init, ClientTypes
  <1> QED
    BY <1>1, <1>2, <1>3, TypeParts

\* A store of one word of the position leaves the others and the image as they are.
LEMMA WordIsWritten ==
    ASSUME block \in Blocks, NEW q \in Cursors, NEW w \in Words,
           block' = [block EXCEPT ![w] = q[w]]
    PROVE  /\ block' \in Blocks
           /\ block'.size = block.size /\ block'.pixels = block.pixels
           /\ block'.x = (IF w = "x" THEN q.x ELSE block.x)
           /\ block'.y = (IF w = "y" THEN q.y ELSE block.y)
           /\ block'.visible = (IF w = "visible" THEN q.visible ELSE block.visible)
  BY CursorIsTyped DEF Blocks, Words

\* The shape that is written, half by half.
LEMMA SizeIsWritten ==
    ASSUME block \in Blocks, NEW q \in Cursors, block' = [block EXCEPT !.size = q.shape.size]
    PROVE  /\ block' \in Blocks /\ block'.size = q.shape.size
           /\ block'.pixels = block.pixels /\ PositionOf(block') = PositionOf(block)
  BY CursorIsTyped DEF Blocks, PositionOf, Images

\* The pixels are stored beside the dimensions and the position.
LEMMA PixelsAreWritten ==
    ASSUME block \in Blocks, NEW q \in Cursors, block' = [block EXCEPT !.pixels = q.shape.pixels]
    PROVE  /\ block' \in Blocks /\ block'.pixels = q.shape.pixels
           /\ block'.size = block.size /\ PositionOf(block') = PositionOf(block)
  BY CursorIsTyped DEF Blocks, PositionOf, Images

\* A load of one word leaves the others that were read as they are.
LEMMA WordIsRead ==
    ASSUME block \in Blocks, read \in Positions, NEW w \in Words, read' = [read EXCEPT ![w] = block[w]]
    PROVE  /\ read' \in Positions /\ read'[w] = block[w]
           /\ \A v \in Words \ {w} : read'[v] = read[v]
  BY DEF Blocks, Positions, Words

\* Types under the steps of the OS and the driver, its ends included.
LEMMA TypeDriver ==
    ASSUME TypeOK, CursorChanges \/ DriverStart \/ CursorThread \/ QueryFails
                   \/ DriverEnds \/ DriverCrashes
    PROVE  TypeOK'
  <1> USE DEF notDriver, controlVars, watchVars, clientVars, counters, events, driverVars
  <1>0. DriverTypes /\ ControlTypes /\ ClientTypes
    BY TypeParts
  <1>1. UNCHANGED <<ctl, toRead, read, cache, position, image>>
    BY DEF CursorChanges, DriverStart, CursorThread, QueryFails, DriverEnds, DriverCrashes, DriverGone,
           WaitData, QueryCursor, LockForImage, WriteSize, WritePixels, SetImageEvent, WriteWord,
           SetPositionEvent
  <1>2. UNCHANGED <<pc, newPosition, newImage, packet, shownPosition, shownImage>>
    BY DEF CursorChanges, DriverStart, CursorThread, QueryFails, DriverEnds, DriverCrashes, DriverGone,
           WaitData, QueryCursor, LockForImage, WriteSize, WritePixels, SetImageEvent, WriteWord,
           SetPositionEvent
  <1>3. ControlTypes' /\ ClientTypes'
    BY <1>0, <1>1, <1>2 DEF ControlTypes, ClientTypes
  <1>4. DriverTypes'
    <2> USE <1>0, <1>1 DEF DriverTypes, Steps
    <2>1. CASE CursorChanges
      BY <2>1 DEF CursorChanges
    <2>2. CASE DriverStart \/ WaitData \/ QueryFails
      BY <2>2 DEF DriverStart, WaitData, QueryFails
    <2>10. CASE SetPositionEvent
      BY <2>10 DEF SetPositionEvent, Continue, After
    <2>3. CASE QueryCursor
      BY <2>3 DEF QueryCursor, Option
    <2>4. CASE LockForImage
      BY <2>4 DEF LockForImage, MutexFree, Continue, After
    <2>5. CASE WriteSize
      <3>1. PICK q \in known : block' = [block EXCEPT !.size = q.shape.size]
        BY <2>5 DEF WriteSize
      <3>2. block' \in Blocks
        BY <3>1, SizeIsWritten DEF Option
      <3> QED
        BY <2>5, <3>2 DEF WriteSize, Continue, After
    <2>6. CASE WritePixels
      <3>1. PICK q \in known : block' = [block EXCEPT !.pixels = q.shape.pixels]
        BY <2>6 DEF WritePixels
      <3>2. block' \in Blocks
        BY <3>1, PixelsAreWritten DEF Option
      <3> QED
        BY <2>6, <3>2 DEF WritePixels, Continue, After
    <2>7. CASE SetImageEvent
      <3>1. Option(sentShape', Shapes)
        BY <2>7, CursorIsTyped DEF SetImageEvent, Option
      <3> QED
        BY <2>7, <3>1 DEF SetImageEvent, Continue, After
    <2>8. ASSUME NEW w \in Words, WriteWord(w)
          PROVE  DriverTypes'
      <3>1. PICK q \in known : block' = [block EXCEPT ![w] = q[w]]
        BY <2>8 DEF WriteWord
      <3>2. block' \in Blocks
        BY <3>1, WordIsWritten DEF Option
      <3> QED
        BY <2>8, <3>2 DEF WriteWord, Continue, After, Words
    <2>9. CASE DriverGone
      <3>1. block' \in Blocks
        BY <2>9 DEF DriverGone, FreshBlock, Blocks
      <3>2. imageEvent' \in BOOLEAN /\ positionEvent' \in BOOLEAN
        <4>1. VdHolds \in BOOLEAN
          BY DEF VdHolds
        <4> QED
          BY <2>9, <4>1 DEF DriverGone
      <3>3. Option(known', Cursors) /\ Option(sentShape', Shapes)
        BY <2>9 DEF DriverGone, Option
      <3>4. mutex' = (IF mutex = "driver" THEN "free" ELSE mutex) /\ cur' = "off"
        BY <2>9 DEF DriverGone, Abandon
      <3>5. driverExits' \in Nat /\ dataEvent' = FALSE /\ UNCHANGED <<os, changes, vdExits>>
        BY <2>9 DEF DriverGone
      <3> QED
        BY <3>1, <3>2, <3>3, <3>4, <3>5
    <2> QED
      BY <2>1, <2>2, <2>3, <2>4, <2>5, <2>6, <2>7, <2>8, <2>9, <2>10
      DEF CursorThread, DriverEnds, DriverCrashes
  <1> QED
    BY <1>3, <1>4, TypeParts

\* Types under the steps of the service's control thread, its ends included.
LEMMA TypeControl ==
    ASSUME TypeOK, VdStart \/ ControlThread \/ ConfigurePanics \/ VdExit
    PROVE  TypeOK'
  <1> USE DEF notControl, driverVars, watchVars, counters, events
  <1>0. DriverTypes /\ ControlTypes /\ ClientTypes
    BY TypeParts
  <1> USE <1>0 DEF ControlTypes
  <1>1. CASE VdStart \/ WaitImage \/ WaitPosition \/ LockToRead
    <2>1. ClientTypes'
      BY <1>1 DEF VdStart, WaitImage, WaitPosition, LockToRead, clientVars, ClientTypes
    <2>2. ControlTypes'
      BY <1>1 DEF VdStart, WaitImage, WaitPosition, LockToRead, Words
    <2>3. DriverTypes'
      BY <1>1 DEF VdStart, WaitImage, WaitPosition, LockToRead, MutexFree, DriverTypes
    <2> QED
      BY <2>1, <2>2, <2>3, TypeParts
  <1>2. CASE ConfigurePanics
    <2>1. block' \in Blocks
      BY <1>2 DEF ConfigurePanics, FreshBlock, Blocks, DriverTypes
    <2>2. DriverTypes' /\ ControlTypes'
      BY <1>2, <2>1 DEF ConfigurePanics, DriverTypes
    <2>3. ClientTypes'
      BY <1>2 DEF ConfigurePanics, clientVars, ClientTypes
    <2> QED
      BY <2>2, <2>3, TypeParts
  <1>3. CASE SetCursorImage
    <2> DEFINE img == [size |-> block.size, pixels |-> block.pixels]
    <2>1. img \in Images
      BY DEF DriverTypes, Blocks, Images
    <2>2. DriverTypes'
      BY <1>3 DEF SetCursorImage, DriverTypes
    <2>3. \/ UNCHANGED <<cache, image, newImage>>
          \/ cache' = Recent(img) /\ image' = {Head(cache')} /\ newImage' = Told
      BY <1>3 DEF SetCursorImage
    <2> HIDE DEF img
    <2>4. cache' \in Seq(Images) /\ Len(cache') <= CacheSize /\ Option(image', Images)
      <3>1. CASE UNCHANGED <<cache, image, newImage>>
        BY <3>1
      <3>2. CASE cache' = Recent(img) /\ image' = {Head(cache')}
        BY <2>1, <3>2, RecentIsFirst, BoundsAssumption DEF Option
      <3> QED
        BY <2>3, <3>1, <3>2
    <2>5. ControlTypes'
      BY <1>3, <2>4 DEF SetCursorImage
    <2>6. ClientTypes'
      <3>1. newImage' \in [Clients -> BOOLEAN]
        BY <2>3 DEF ClientTypes, Told
      <3> QED
        BY <1>3, <3>1 DEF SetCursorImage, ClientTypes
    <2> QED
      BY <2>2, <2>5, <2>6, TypeParts
  <1>4. ASSUME NEW w \in Words, ReadWord(w)
        PROVE  TypeOK'
    <2>1. read' \in Positions
      BY <1>4, WordIsRead DEF ReadWord, DriverTypes
    <2>2. DriverTypes' /\ ControlTypes'
      BY <1>4, <2>1 DEF ReadWord, DriverTypes
    <2>3. ClientTypes'
      BY <1>4 DEF ReadWord, clientVars, ClientTypes
    <2> QED
      BY <2>2, <2>3, TypeParts
  <1>5. CASE SetCursorPosition
    <2>1. Unread \in Positions
      BY DEF Unread, Positions
    <2>2. Option(position', Positions)
      BY <1>5 DEF SetCursorPosition, Option
    <2>3. DriverTypes' /\ ControlTypes'
      BY <1>5, <2>1, <2>2 DEF SetCursorPosition, DriverTypes
    <2>4. ClientTypes'
      BY <1>5 DEF SetCursorPosition, ClientTypes, Told
    <2> QED
      BY <2>3, <2>4, TypeParts
  <1>6. CASE VdExit
    <2>1. cache' \in Seq(Images) /\ Len(cache') <= CacheSize
      BY <1>6, BoundsAssumption DEF VdExit
    <2>2. ControlTypes'
      BY <1>6, <2>1 DEF VdExit, Option, Unread, Positions
    <2>3. block' \in Blocks
      BY <1>6 DEF VdExit, FreshBlock, Blocks, DriverTypes
    <2>4. DriverTypes'
      <3>1. imageEvent' \in BOOLEAN /\ positionEvent' \in BOOLEAN
        <4>1. DriverHolds \in BOOLEAN
          BY DEF DriverHolds
        <4> QED
          BY <1>6, <4>1 DEF VdExit, DriverTypes
      <3>2. mutex' = (IF mutex = "control" THEN "free" ELSE mutex) /\ ctl' = "off"
        BY <1>6 DEF VdExit, Abandon
      <3>3. vdExits' \in Nat /\ UNCHANGED <<os, dataEvent, cur, known, sentShape, changes, driverExits>>
        BY <1>6 DEF VdExit, DriverTypes
      <3> QED
        BY <2>3, <3>1, <3>2, <3>3 DEF DriverTypes
    <2>5. ClientTypes'
      <3>1. [position |-> {}, image |-> {}] \in Packets
        BY DEF Packets
      <3> QED
        BY <1>6, <3>1 DEF VdExit, ClientTypes
    <2> QED
      BY <2>2, <2>4, <2>5, TypeParts
  <1> QED
    BY <1>1, <1>2, <1>3, <1>4, <1>5, <1>6 DEF ControlThread

\* Types under the steps of one client, which changes nothing but its own task.
LEMMA TypeClient ==
    ASSUME TypeOK, NEW c \in Clients, Connect(c) \/ Task(c)
    PROVE  TypeOK' /\ UNCHANGED notTask
  <1>0. DriverTypes /\ ControlTypes /\ ClientTypes
    BY TypeParts
  <1>1. UNCHANGED notTask
    BY DEF Connect, Task, PositionChanged, ImageChanged, Borrow, WriteDone, WriteFails
  <1>2. DriverTypes' /\ ControlTypes'
    BY <1>0, <1>1
    DEF notTask, driverVars, events, controlVars, watchVars, counters, DriverTypes, ControlTypes
  <1>3. ClientTypes'
    <2> USE <1>0 DEF ClientTypes
    <2>1. CASE Connect(c)
      <3>1. Unseen(position) \in BOOLEAN /\ Unseen(image) \in BOOLEAN
        BY DEF Unseen
      <3> QED
        BY <2>1, <3>1 DEF Connect
    <2>2. CASE PositionChanged(c) \/ ImageChanged(c)
      BY <2>2 DEF PositionChanged, ImageChanged
    <2>3. CASE Borrow(c)
      <3> DEFINE p == IF pc[c] = "position" THEN [position |-> position, image |-> {}]
                                            ELSE [position |-> {}, image |-> image]
      <3>1. p \in Packets
        BY <1>0 DEF ControlTypes, Option, Packets
      <3>2. packet' = [packet EXCEPT ![c] = p]
        BY <2>3 DEF Borrow
      <3> HIDE DEF p
      <3> QED
        BY <2>3, <3>1, <3>2 DEF Borrow
    <2>4. CASE WriteDone(c)
      <3>1. packet[c].position \in SUBSET Positions /\ packet[c].image \in SUBSET Images
        BY DEF Packets
      <3>2. [position |-> {}, image |-> {}] \in Packets
        BY DEF Packets
      <3>3. shownPosition' \in [Clients -> SUBSET Positions] /\ shownImage' \in [Clients -> SUBSET Images]
        BY <2>4, <3>1 DEF WriteDone
      <3> QED
        BY <2>4, <3>2, <3>3 DEF WriteDone
    <2>5. CASE WriteFails(c)
      <3>1. [position |-> {}, image |-> {}] \in Packets
        BY DEF Packets
      <3> QED
        BY <2>5, <3>1 DEF WriteFails
    <2> QED
      BY <2>1, <2>2, <2>3, <2>4, <2>5 DEF Task
  <1> QED
    BY <1>1, <1>2, <1>3, TypeParts
-----------------------------------------------------------------------------
(***************************************************************************)
(* The driver's part.                                                      *)
(***************************************************************************)

\* What the control thread does to the block: nothing while the driver holds it.
LEMMA ControlFrame ==
    ASSUME VdStart \/ ControlThread \/ ConfigurePanics \/ VdExit
    PROVE  /\ UNCHANGED <<os, dataEvent, driverVars>> /\ driverExits' = driverExits
           /\ cur # "off" => block' = block
  BY DEF VdStart, ControlThread, ConfigurePanics, VdExit, WaitImage, WaitPosition, LockToRead,
         SetCursorImage, ReadWord, SetCursorPosition, notControl, counters, DriverHolds

\* What the driver has written stays what it found, since nobody else writes the block.
LEMMA DriverStep ==
    ASSUME TypeOK, Driver, [Next]_vars
    PROVE  Driver'
  <1>0. DriverTypes
    BY TypeParts
  <1> USE DEF Writing
  <1>1. CASE UNCHANGED <<cur, known, sentShape, block, dataEvent>>
    BY <1>1 DEF Driver, ShapeOf
  <1>2. CASE VdStart \/ ControlThread \/ ConfigurePanics \/ VdExit
    <2>1. UNCHANGED <<cur, known, sentShape, dataEvent>> /\ (cur # "off" => block' = block)
      BY <1>2, ControlFrame DEF driverVars
    <2>2. CASE cur = "off"
      BY <2>1, <2>2 DEF Driver
    <2>3. CASE cur # "off"
      BY <2>1, <2>3 DEF Driver, ShapeOf
    <2> QED
      BY <2>2, <2>3
  <1>3. CASE CursorChanges
    <2>1. UNCHANGED <<cur, known, sentShape, block>> /\ (cur = "off" => ~dataEvent')
      BY <1>3 DEF CursorChanges, driverVars
    <2> QED
      BY <2>1 DEF Driver, ShapeOf
  <1>4. CASE DriverStart
    <2>1. cur = "off" /\ cur' = "wait" /\ UNCHANGED <<known, sentShape, block>>
      BY <1>4 DEF DriverStart
    <2> QED
      BY <2>1 DEF Driver
  <1>5. CASE WaitData \/ QueryFails
    <2>1. /\ cur \in {"wait", "query"} /\ cur' \in {"wait", "query"}
          /\ UNCHANGED <<known, sentShape, block>>
      BY <1>5 DEF WaitData, QueryFails
    <2> QED
      BY <2>1 DEF Driver, ShapeOf
  <1>6. CASE QueryCursor
    <2>1. /\ cur = "query" /\ known' = {os} /\ UNCHANGED <<sentShape, block>>
          /\ cur' = IF sentShape # {os.shape} /\ os.visible THEN "lock" ELSE "x"
      BY <1>6 DEF QueryCursor
    <2> QED
      BY <2>1 DEF Driver, ShapeOf
  <1>7. CASE LockForImage
    <2>1. cur = "lock" /\ cur' = "size" /\ UNCHANGED <<known, sentShape, block>>
      BY <1>7 DEF LockForImage, Continue, After
    <2> QED
      BY <2>1 DEF Driver, ShapeOf
  <1>8. CASE WriteSize
    <2>1. cur = "size" /\ cur' = "pixels" /\ UNCHANGED <<known, sentShape>>
      BY <1>8 DEF WriteSize, Continue, After
    <2>2. PICK q \in known : block' = [block EXCEPT !.size = q.shape.size]
      BY <1>8 DEF WriteSize
    <2>3. block'.size = q.shape.size /\ \A r \in known : r = q
      BY <1>0, <2>2, SizeIsWritten DEF DriverTypes, Option
    <2> QED
      BY <2>1, <2>3 DEF Driver
  <1>9. CASE WritePixels
    <2>1. cur = "pixels" /\ cur' = "imageEvent" /\ UNCHANGED <<known, sentShape>>
      BY <1>9 DEF WritePixels, Continue, After
    <2>2. PICK q \in known : block' = [block EXCEPT !.pixels = q.shape.pixels]
      BY <1>9 DEF WritePixels
    <2>3. /\ block'.pixels = q.shape.pixels /\ block'.size = block.size
          /\ \A r \in known : r = q
      BY <1>0, <2>2, PixelsAreWritten DEF DriverTypes, Option
    <2>4. ShapeOf(block') = q.shape
      <3>1. block.size = q.shape.size
        BY <2>1, <2>2 DEF Driver
      <3>2. q.shape \in Images
        BY <1>0, <2>2, CursorIsTyped DEF DriverTypes, Option
      <3> QED
        BY <2>3, <3>1, <3>2 DEF ShapeOf, Images
    <2> QED
      BY <2>1, <2>3, <2>4 DEF Driver, ShapeOf
  <1>10. CASE SetImageEvent
    <2>1. /\ cur = "imageEvent" /\ cur' = "x" /\ UNCHANGED <<known, block>>
          /\ sentShape' = {q.shape : q \in known}
      BY <1>10 DEF SetImageEvent, Continue, After
    <2>2. \A q \in known : sentShape' = {q.shape}
      BY <1>0, <2>1 DEF DriverTypes, Option
    <2>3. \A s \in sentShape' : ShapeOf(block) = s
      BY <2>1 DEF Driver
    <2> QED
      BY <2>1, <2>2, <2>3 DEF Driver, ShapeOf
  <1>11. ASSUME NEW w \in Words, WriteWord(w)
         PROVE  Driver'
    <2>1. /\ cur = w /\ UNCHANGED <<known, sentShape>>
          /\ cur' = CASE w = "x" -> "y" [] w = "y" -> "visible" [] w = "visible" -> "positionEvent"
      BY <1>11 DEF WriteWord, Continue, After, Words
    <2>2. PICK q \in known : block' = [block EXCEPT ![w] = q[w]]
      BY <1>11 DEF WriteWord
    <2>3. /\ block'.size = block.size /\ block'.pixels = block.pixels
          /\ block'.x = (IF w = "x" THEN q.x ELSE block.x)
          /\ block'.y = (IF w = "y" THEN q.y ELSE block.y)
          /\ block'.visible = (IF w = "visible" THEN q.visible ELSE block.visible)
          /\ \A r \in known : r = q
      BY <1>0, <2>2, WordIsWritten DEF DriverTypes, Option
    <2>4. w \in {"x", "y", "visible"} /\ cur' \in {"y", "visible", "positionEvent"}
      BY <2>1 DEF Words
    <2>5. /\ \A r \in known : r.visible => sentShape = {r.shape}
          /\ \A s \in sentShape : ShapeOf(block) = s
      BY <2>1, <2>4 DEF Driver
    <2>6. \A s \in sentShape' : ShapeOf(block') = s
      BY <2>1, <2>3, <2>5 DEF ShapeOf
    <2>7. \A r \in known' : block'.x = r.x
      BY <2>1, <2>3, <2>4 DEF Driver
    <2>8. w # "x" => \A r \in known' : block'.y = r.y
      BY <2>1, <2>3, <2>4 DEF Driver
    <2>9. w = "visible" => \A r \in known' : block'.visible = r.visible
      BY <2>1, <2>3
    <2> QED
      BY <2>1, <2>4, <2>5, <2>6, <2>7, <2>8, <2>9 DEF Driver
  <1>12. CASE SetPositionEvent
    <2>1. cur = "positionEvent" /\ cur' = "wait" /\ UNCHANGED <<known, sentShape, block>>
      BY <1>12 DEF SetPositionEvent, Continue, After
    <2> QED
      BY <2>1 DEF Driver, ShapeOf
  <1>13. CASE DriverGone
    <2>1. cur' = "off" /\ known' = {} /\ sentShape' = {} /\ ~dataEvent'
      BY <1>13 DEF DriverGone
    <2> QED
      BY <2>1 DEF Driver
  <1>14. ASSUME NEW c \in Clients, Connect(c) \/ Task(c)
         PROVE  UNCHANGED <<cur, known, sentShape, block, dataEvent>>
    BY <1>14, TypeClient DEF notTask, driverVars
  <1> QED
    BY <1>1, <1>2, <1>3, <1>4, <1>5, <1>6, <1>7, <1>8, <1>9, <1>10, <1>11, <1>12, <1>13, <1>14
    DEF Next, vars, driverVars, CursorThread, DriverEnds, DriverCrashes

-----------------------------------------------------------------------------
(***************************************************************************)
(* What is published.                                                      *)
(***************************************************************************)

\* No event of an image waits, and none is being read: the watch has the image.
ImagePublished ==
    (cur # "imageEvent" /\ ~imageEvent /\ ctl \notin {"lock", "image"}) =>
        \A img \in image, s \in sentShape : img.pixels = s.pixels \/ s \in Unencodable

PositionPublished ==
    (cur \in {"wait", "query"} /\ ~positionEvent) =>
        \A q \in known :
            IF ctl = "read" THEN \A w \in Words \ toRead : read[w] = q[w]
            ELSE \A p \in position : p = PositionOf(q)

\* Control in two parts, the image and the position.
LEMMA ControlParts ==
    /\ Control <=> ImagePublished /\ PositionPublished
    /\ Control' <=> ImagePublished' /\ PositionPublished'
  BY DEF Control, ImagePublished, PositionPublished

\* The image that is read is the one last sent, or the next one before its event.
LEMMA ImageIsPublished ==
    ASSUME TypeOK, Driver, ImagePublished, SetCursorImage
    PROVE  ImagePublished'
  <1> DEFINE img == [size |-> block.size, pixels |-> block.pixels]
  <1>0. DriverTypes /\ ControlTypes
    BY TypeParts
  <1>1. cur \notin {"size", "pixels"}
    BY <1>0 DEF SetCursorImage, DriverTypes
  <1>2. UNCHANGED <<cur, sentShape, imageEvent>>
    BY DEF SetCursorImage, notControl, driverVars, events
  <1>3. cur # "imageEvent" => \A s \in sentShape : img = s
    BY <1>1 DEF Driver, ShapeOf
  <1>4. \/ UNCHANGED <<cache, image, newImage>> /\ img \in Unencodable
        \/ cache' = Recent(img) /\ image' = {Head(cache')}
    BY DEF SetCursorImage
  <1>5. img \in Images
    BY <1>0 DEF DriverTypes, Blocks, Images
  <1> HIDE DEF img
  <1>6. CASE UNCHANGED <<cache, image, newImage>> /\ img \in Unencodable
    BY <1>2, <1>3, <1>6 DEF ImagePublished
  <1>7. CASE cache' = Recent(img) /\ image' = {Head(cache')}
    <2>1. \A i \in image' : i.pixels = img.pixels
      BY <1>0, <1>5, <1>7, RecentIsFirst DEF ControlTypes, Key
    <2> QED
      BY <1>2, <1>3, <2>1 DEF ImagePublished
  <1> QED
    BY <1>4, <1>6, <1>7

\* A store before the event is read after it: what was torn is read again.
LEMMA ControlStep ==
    ASSUME TypeOK, Driver, Control, [Next]_vars
    PROVE  Control'
  <1>0. DriverTypes /\ ControlTypes /\ ImagePublished /\ PositionPublished
    BY TypeParts, ControlParts
  <1>1. CASE UNCHANGED <<cur, known, sentShape, controlVars, watchVars, events>>
    <2>1. ImagePublished'
      BY <1>0, <1>1 DEF ImagePublished, controlVars, watchVars, events
    <2>2. PositionPublished'
      BY <1>0, <1>1 DEF PositionPublished, controlVars, watchVars, events
    <2> QED
      BY <2>1, <2>2, ControlParts
  <1>2. CASE CursorThread \/ QueryFails \/ DriverStart \/ DriverGone
    <2>1. UNCHANGED <<ctl, toRead, read, image, position>>
      BY <1>2 DEF CursorThread, QueryFails, DriverStart, DriverGone, WaitData, QueryCursor,
         LockForImage, WriteSize, WritePixels, SetImageEvent, WriteWord, SetPositionEvent,
         notDriver, controlVars, watchVars
    <2>2. CASE DriverStart \/ DriverGone
      <3>1. known' = {} /\ sentShape' = {}
        <4>1. DriverStart => cur = "off"
          BY DEF DriverStart
        <4> QED
          BY <2>2, <4>1 DEF Driver, DriverStart, DriverGone
      <3> QED
        BY <3>1, ControlParts DEF ImagePublished, PositionPublished
    <2>3. CASE WaitData \/ QueryFails
      <3>1. /\ cur \in {"wait", "query"} /\ cur' \in {"wait", "query"}
            /\ UNCHANGED <<known, sentShape, imageEvent, positionEvent>>
        BY <2>3 DEF WaitData, QueryFails, events
      <3>2. ImagePublished'
        BY <1>0, <2>1, <3>1 DEF ImagePublished
      <3>3. PositionPublished'
        BY <1>0, <2>1, <3>1 DEF PositionPublished
      <3> QED
        BY <3>2, <3>3, ControlParts
    <2>4. CASE QueryCursor \/ LockForImage \/ WriteSize \/ (\E w \in Words : WriteWord(w))
      <3>1. /\ cur # "imageEvent" /\ cur' \notin {"wait", "query"}
            /\ UNCHANGED <<sentShape, imageEvent>>
        BY <2>4 DEF QueryCursor, LockForImage, WriteSize, WriteWord, Continue, After, events, Words
      <3>2. ImagePublished'
        BY <1>0, <2>1, <3>1 DEF ImagePublished
      <3>3. PositionPublished'
        BY <3>1 DEF PositionPublished
      <3> QED
        BY <3>2, <3>3, ControlParts
    <2>5. CASE WritePixels \/ SetImageEvent
      <3>1. cur' = "imageEvent" \/ imageEvent'
        BY <2>5 DEF WritePixels, SetImageEvent, Continue, After
      <3>2. cur' \notin {"wait", "query"}
        BY <2>5 DEF WritePixels, SetImageEvent, Continue, After
      <3> QED
        BY <3>1, <3>2, ControlParts DEF ImagePublished, PositionPublished
    <2>6. CASE SetPositionEvent
      <3>1. cur = "positionEvent" /\ positionEvent' /\ UNCHANGED <<sentShape, imageEvent>>
        BY <2>6 DEF SetPositionEvent
      <3>2. ImagePublished'
        BY <1>0, <2>1, <3>1 DEF ImagePublished
      <3> QED
        BY <3>1, <3>2, ControlParts DEF PositionPublished
    <2> QED
      BY <1>2, <2>2, <2>3, <2>4, <2>5, <2>6 DEF CursorThread
  <1>3. ASSUME VdStart \/ ControlThread \/ ConfigurePanics \/ VdExit
        PROVE  Control'
    <2>0. UNCHANGED <<cur, known, sentShape>> /\ (cur # "off" => block' = block)
      BY <1>3, ControlFrame DEF driverVars
    <2>1. CASE VdStart
      <3>1. ctl = "off" /\ ctl' = "wait" /\ UNCHANGED <<image, position, imageEvent, positionEvent>>
        BY <2>1 DEF VdStart, watchVars, events
      <3>2. ImagePublished' /\ PositionPublished'
        BY <1>0, <2>0, <3>1 DEF ImagePublished, PositionPublished
      <3> QED
        BY <3>2, ControlParts
    <2>2. CASE WaitImage
      <3>1. /\ ctl = "wait" /\ ctl' = "lock"
            /\ UNCHANGED <<image, position, positionEvent, toRead, read>>
        BY <2>2 DEF WaitImage, watchVars
      <3>2. ImagePublished' /\ PositionPublished'
        BY <1>0, <2>0, <3>1 DEF ImagePublished, PositionPublished
      <3> QED
        BY <3>2, ControlParts
    <2>3. CASE WaitPosition
      <3>1. /\ ctl = "wait" /\ ctl' = "read" /\ toRead' = Words
            /\ UNCHANGED <<image, imageEvent>>
        BY <2>3 DEF WaitPosition, watchVars
      <3>2. ImagePublished' /\ PositionPublished'
        BY <1>0, <2>0, <3>1 DEF ImagePublished, PositionPublished
      <3> QED
        BY <3>2, ControlParts
    <2>4. CASE ConfigurePanics
      <3>1. /\ ctl = "wait" /\ ctl' = "dead"
            /\ UNCHANGED <<image, position, imageEvent, positionEvent>>
        BY <2>4 DEF ConfigurePanics, watchVars, events
      <3>2. ImagePublished' /\ PositionPublished'
        BY <1>0, <2>0, <3>1 DEF ImagePublished, PositionPublished
      <3> QED
        BY <3>2, ControlParts
    <2>5. CASE LockToRead
      <3>1. /\ ctl = "lock" /\ ctl' = "image"
            /\ UNCHANGED <<image, position, imageEvent, positionEvent>>
        BY <2>5 DEF LockToRead, watchVars, events
      <3>2. ImagePublished' /\ PositionPublished'
        BY <1>0, <2>0, <3>1 DEF ImagePublished, PositionPublished
      <3> QED
        BY <3>2, ControlParts
    <2>6. CASE SetCursorImage
      <3>1. ctl = "image" /\ ctl' = "wait" /\ UNCHANGED <<position, positionEvent>>
        BY <2>6 DEF SetCursorImage, events
      <3>2. PositionPublished'
        BY <1>0, <2>0, <3>1 DEF PositionPublished
      <3> QED
        BY <1>0, <2>6, <3>2, ImageIsPublished, ControlParts
    <2>7. ASSUME NEW w \in Words, ReadWord(w)
          PROVE  Control'
      <3>1. /\ ctl = "read" /\ w \in toRead /\ toRead' = toRead \ {w}
            /\ read' = [read EXCEPT ![w] = block[w]]
            /\ UNCHANGED <<ctl, image, position, imageEvent, positionEvent>>
        BY <2>7 DEF ReadWord, watchVars, events
      <3>2. read'[w] = block[w] /\ \A v \in Words \ {w} : read'[v] = read[v]
        BY <1>0, <3>1, WordIsRead DEF DriverTypes, ControlTypes
      <3>3. cur \in {"wait", "query"} => \A q \in known : block[w] = q[w]
        BY DEF Driver, Words
      <3>4. ImagePublished'
        BY <1>0, <2>0, <3>1 DEF ImagePublished
      <3>5. PositionPublished'
        BY <1>0, <2>0, <3>1, <3>2, <3>3 DEF PositionPublished
      <3> QED
        BY <3>4, <3>5, ControlParts
    <2>8. CASE SetCursorPosition
      <3>1. /\ ctl = "read" /\ ctl' = "wait" /\ toRead = {} /\ position' = {read}
            /\ UNCHANGED <<image, imageEvent, positionEvent>>
        BY <2>8 DEF SetCursorPosition, events
      <3>2. ASSUME NEW q \in known, \A w \in Words : read[w] = q[w]
            PROVE  read = PositionOf(q)
        <4>1. read \in Positions /\ PositionOf(q) \in Positions
          BY <1>0, CursorIsTyped DEF ControlTypes, DriverTypes, Option
        <4>2. read.x = q.x /\ read.y = q.y /\ read.visible = q.visible
          BY <3>2 DEF Words
        <4> QED
          BY <4>1, <4>2 DEF Positions, PositionOf
      <3>3. ImagePublished'
        BY <1>0, <2>0, <3>1 DEF ImagePublished
      <3>4. PositionPublished'
        BY <1>0, <2>0, <3>1, <3>2 DEF PositionPublished
      <3> QED
        BY <3>3, <3>4, ControlParts
    <2>9. CASE VdExit
      <3>1. ctl' = "off" /\ image' = {} /\ position' = {}
        BY <2>9 DEF VdExit
      <3> QED
        BY <3>1, ControlParts DEF ImagePublished, PositionPublished
    <2> QED
      BY <1>3, <2>1, <2>2, <2>3, <2>4, <2>5, <2>6, <2>7, <2>8, <2>9 DEF ControlThread
  <1>4. ASSUME NEW c \in Clients, Connect(c) \/ Task(c)
        PROVE  UNCHANGED <<cur, known, sentShape, controlVars, watchVars, events>>
    BY <1>4, TypeClient DEF notTask, driverVars
  <1>5. CursorChanges => UNCHANGED <<cur, known, sentShape, controlVars, watchVars, events>>
    BY DEF CursorChanges, driverVars
  <1> QED
    BY <1>1, <1>2, <1>3, <1>4, <1>5 DEF Next, vars, driverVars, DriverEnds, DriverCrashes

-----------------------------------------------------------------------------
(***************************************************************************)
(* What the clients have been sent.                                        *)
(***************************************************************************)

\* What the other clients, and the threads while they publish nothing, leave alone.
LEMMA ClientFrame ==
    ASSUME NEW c \in Clients, Client(c),
           UNCHANGED <<pc[c], newPosition[c], newImage[c], packet[c], shownPosition[c],
                       shownImage[c], position, image>>
    PROVE  Client(c)'
  BY DEF Client, NoPacket

\* A value that is published is new to every client there is.
LEMMA Published ==
    ASSUME TypeOK, \A c \in Clients : Client(c), SetCursorImage \/ SetCursorPosition
    PROVE  \A c \in Clients : Client(c)'
  <1>0. ControlTypes /\ ClientTypes /\ DriverTypes
    BY TypeParts
  <1> SUFFICES ASSUME NEW c \in Clients PROVE Client(c)'
    OBVIOUS
  <1>1. CASE SetCursorImage
    <2> DEFINE img == [size |-> block.size, pixels |-> block.pixels]
    <2>1. UNCHANGED <<pc, newPosition, packet, shownPosition, shownImage, position>>
      BY <1>1 DEF SetCursorImage
    <2>2. UNCHANGED <<image, newImage>> \/ (image' # {} /\ newImage' = Told)
      BY <1>1 DEF SetCursorImage
    <2>3. CASE UNCHANGED <<image, newImage>>
      BY <2>1, <2>3, ClientFrame
    <2>4. CASE image' # {} /\ newImage' = Told
      <3>1. newImage'[c] = (pc[c] # "off")
        BY <2>4 DEF Told
      <3> QED
        BY <2>1, <2>4, <3>1 DEF Client, NoPacket
    <2> QED
      BY <2>2, <2>3, <2>4
  <1>2. CASE SetCursorPosition
    <2>1. /\ UNCHANGED <<pc, newImage, packet, shownPosition, shownImage, image>>
          /\ position' = {read}
      BY <1>2 DEF SetCursorPosition
    <2>2. newPosition'[c] = (pc[c] # "off")
      BY <1>2 DEF SetCursorPosition, Told
    <2> QED
      BY <2>1, <2>2 DEF Client, NoPacket
  <1> QED
    BY <1>1, <1>2

\* A client takes the notice and the value of a watch together.
LEMMA OwnTask ==
    ASSUME TypeOK, NEW c \in Clients, Client(c), Connect(c) \/ Task(c)
    PROVE  Client(c)'
  <1>0. ControlTypes /\ ClientTypes
    BY TypeParts
  <1>1. UNCHANGED <<position, image>>
    BY TypeClient DEF notTask, watchVars
  <1>2. /\ packet[c] \in Packets
        /\ shownPosition[c] \in SUBSET Positions /\ shownImage[c] \in SUBSET Images
        /\ NoPacket.position = {} /\ NoPacket.image = {}
    BY <1>0 DEF ClientTypes, NoPacket
  <1> USE <1>0 DEF ClientTypes
  <1>3. CASE Connect(c)
    <2>1. /\ pc[c] = "off" /\ pc'[c] = "select"
          /\ newPosition'[c] = (position # {}) /\ newImage'[c] = (image # {})
          /\ UNCHANGED <<packet, shownPosition, shownImage>>
      BY <1>3 DEF Connect, Unseen
    <2>2. packet'[c] = NoPacket /\ shownPosition'[c] = {} /\ shownImage'[c] = {}
      BY <2>1 DEF Client
    <2> QED
      BY <1>1, <1>2, <2>1, <2>2 DEF Client
  <1>4. CASE PositionChanged(c)
    <2>1. /\ pc[c] = "select" /\ pc'[c] = "position" /\ newPosition[c] /\ ~newPosition'[c]
          /\ UNCHANGED <<newImage, packet, shownPosition, shownImage>>
      BY <1>4 DEF PositionChanged
    <2> QED
      BY <1>1, <1>2, <2>1 DEF Client
  <1>5. CASE ImageChanged(c)
    <2>1. /\ pc[c] = "select" /\ pc'[c] = "image" /\ newImage[c] /\ ~newImage'[c]
          /\ UNCHANGED <<newPosition, packet, shownPosition, shownImage>>
      BY <1>5 DEF ImageChanged
    <2> QED
      BY <1>1, <1>2, <2>1 DEF Client
  <1>6. CASE Borrow(c)
    <2>1. /\ pc[c] \in {"position", "image"} /\ pc'[c] = "write"
          /\ packet'[c] = IF pc[c] = "position" THEN [position |-> position, image |-> {}]
                                                ELSE [position |-> {}, image |-> image]
          /\ UNCHANGED <<newPosition, newImage, shownPosition, shownImage>>
      BY <1>6 DEF Borrow
    <2>2. packet[c] = NoPacket
      BY <2>1 DEF Client
    <2>3. CASE pc[c] = "position"
      <3>1. packet'[c].position = position /\ packet'[c].image = {} /\ position # {}
        BY <2>1, <2>3 DEF Client
      <3> QED
        BY <1>1, <1>2, <2>1, <2>2, <2>3, <3>1 DEF Client
    <2>4. CASE pc[c] = "image"
      <3>1. packet'[c].position = {} /\ packet'[c].image = image /\ image # {}
        BY <2>1, <2>4 DEF Client
      <3> QED
        BY <1>1, <1>2, <2>1, <2>2, <2>4, <3>1 DEF Client
    <2> QED
      BY <2>1, <2>3, <2>4
  <1>7. CASE WriteDone(c)
    <2>1. /\ pc[c] = "write" /\ pc'[c] = "select"
          /\ shownPosition'[c] = IF packet[c].position # {} THEN packet[c].position ELSE shownPosition[c]
          /\ shownImage'[c] = IF packet[c].image # {} THEN packet[c].image ELSE shownImage[c]
          /\ packet'[c] = NoPacket
          /\ UNCHANGED <<newPosition, newImage>>
      BY <1>7 DEF WriteDone, NoPacket
    <2> QED
      BY <1>1, <1>2, <2>1 DEF Client
  <1>8. CASE WriteFails(c)
    <2>1. /\ pc'[c] = "off" /\ ~newPosition'[c] /\ ~newImage'[c]
          /\ packet'[c] = NoPacket /\ shownPosition'[c] = {} /\ shownImage'[c] = {}
      BY <1>8 DEF WriteFails, NoPacket
    <2> QED
      BY <2>1 DEF Client
  <1> QED
    BY <1>3, <1>4, <1>5, <1>6, <1>7, <1>8 DEF Task

\* Each client's statement holds after its own steps, those of others and those that
\* publish.
LEMMA ClientStep ==
    ASSUME TypeOK, \A c \in Clients : Client(c), [Next]_vars
    PROVE  \A c \in Clients : Client(c)'
  <1>0. ClientTypes
    BY TypeParts
  <1>1. CASE UNCHANGED <<pc, newPosition, newImage, packet, shownPosition, shownImage,
                         position, image>>
    BY <1>1, ClientFrame
  <1>2. CASE SetCursorImage \/ SetCursorPosition
    BY <1>2, Published
  <1>3. CASE VdExit
    BY <1>3 DEF VdExit, Client, NoPacket
  <1>4. ASSUME NEW c \in Clients, Connect(c) \/ Task(c)
        PROVE  \A d \in Clients : Client(d)'
    <2>1. UNCHANGED <<position, image>>
      BY <1>4, TypeClient DEF notTask, watchVars
    <2>2. ASSUME NEW d \in Clients, d # c
          PROVE  UNCHANGED <<pc[d], newPosition[d], newImage[d], packet[d], shownPosition[d],
                             shownImage[d]>>
      BY <1>0, <1>4, <2>2
      DEF Connect, Task, PositionChanged, ImageChanged, Borrow, WriteDone, WriteFails, ClientTypes
    <2> QED
      BY <1>4, <2>1, <2>2, OwnTask, ClientFrame
  <1>5. CursorThread \/ QueryFails \/ DriverStart \/ DriverGone \/ CursorChanges =>
          UNCHANGED <<pc, newPosition, newImage, packet, shownPosition, shownImage, position, image>>
    BY DEF CursorThread, QueryFails, DriverStart, DriverGone, CursorChanges, WaitData, QueryCursor,
       LockForImage, WriteSize, WritePixels, SetImageEvent, WriteWord, SetPositionEvent,
       notDriver, clientVars, watchVars
  <1>6. VdStart \/ WaitImage \/ WaitPosition \/ LockToRead \/ (\E w \in Words : ReadWord(w))
          \/ ConfigurePanics \/ UNCHANGED vars =>
          UNCHANGED <<pc, newPosition, newImage, packet, shownPosition, shownImage, position, image>>
    BY DEF VdStart, WaitImage, WaitPosition, LockToRead, ReadWord, ConfigurePanics, clientVars,
       watchVars, vars
  <1> QED
    BY <1>1, <1>2, <1>3, <1>4, <1>5, <1>6 DEF Next, ControlThread, DriverEnds, DriverCrashes

-----------------------------------------------------------------------------
(***************************************************************************)
(* Whole images.                                                           *)
(***************************************************************************)
BlockIsWhole ==
    (cur # "pixels" /\ (cur = "imageEvent" \/ imageEvent \/ ctl \in {"lock", "image"})) =>
        ShapeOf(block) \in Shapes

WatchIsWhole == image \subseteq Shapes /\ \A i \in DOMAIN cache : cache[i] \in Shapes

\* The mutex keeps the two stores of an image together until a driver ends inside it.
LEMMA WholeStep ==
    ASSUME TypeOK, Driver, Whole, [Next]_vars
    PROVE  Whole'
  <1> SUFFICES ASSUME driverExits' = 0
               PROVE  BlockIsWhole' /\ WatchIsWhole'
    BY DEF Whole, BlockIsWhole, WatchIsWhole
  <1>0. DriverTypes /\ ControlTypes
    BY TypeParts
  <1>1. CASE UNCHANGED <<cur, block, imageEvent, ctl, image, cache, driverExits>>
    BY <1>1 DEF Whole, BlockIsWhole, WatchIsWhole, ShapeOf
  <1>2. CASE DriverGone
    <2>1. driverExits' = driverExits + 1 /\ driverExits \in Nat
      BY <1>0, <1>2 DEF DriverGone, DriverTypes
    <2> QED
      BY <2>1
  <1>3. CASE CursorChanges \/ DriverStart \/ CursorThread \/ QueryFails
    <2>1. UNCHANGED <<ctl, image, cache, driverExits>>
      BY <1>3 DEF CursorThread, QueryFails, DriverStart, CursorChanges, WaitData, QueryCursor,
         LockForImage, WriteSize, WritePixels, SetImageEvent, WriteWord, SetPositionEvent,
         notDriver, controlVars, watchVars, counters
    <2>2. WatchIsWhole'
      BY <2>1 DEF Whole, WatchIsWhole
    <2>3. BlockIsWhole
      BY <2>1 DEF Whole, BlockIsWhole
    <2>4. CASE CursorChanges \/ DriverStart \/ WaitData \/ QueryCursor \/ QueryFails \/ LockForImage
               \/ SetPositionEvent
      <3>1. \/ cur' # "imageEvent" /\ cur # "pixels" /\ UNCHANGED <<block, imageEvent>>
            \/ UNCHANGED <<cur, block, imageEvent>>
        BY <2>4 DEF QueryFails, DriverStart, CursorChanges, WaitData, QueryCursor, LockForImage,
           SetPositionEvent, Continue, After, events, driverVars
      <3> QED
        BY <2>1, <2>2, <2>3, <3>1 DEF BlockIsWhole, ShapeOf
    <2>5. CASE WriteSize
      BY <2>2, <2>5 DEF WriteSize, Continue, After, BlockIsWhole
    <2>6. CASE WritePixels
      <3>1. PICK q \in known : block' = [block EXCEPT !.pixels = q.shape.pixels]
        BY <2>6 DEF WritePixels
      <3>2. q \in Cursors /\ cur = "pixels"
        BY <1>0, <2>6, <3>1 DEF WritePixels, DriverTypes, Option
      <3>3. block'.pixels = q.shape.pixels /\ block'.size = q.shape.size
        BY <1>0, <3>1, <3>2, PixelsAreWritten DEF Driver, DriverTypes
      <3>4. ShapeOf(block') = q.shape
        BY <3>2, <3>3, CursorIsTyped DEF ShapeOf, Images
      <3> QED
        BY <2>2, <3>2, <3>4, CursorIsTyped DEF BlockIsWhole
    <2>7. CASE SetImageEvent
      <3>1. cur = "imageEvent" /\ cur' = "x" /\ block' = block
        BY <2>7 DEF SetImageEvent, Continue, After
      <3> QED
        BY <2>2, <2>3, <3>1 DEF BlockIsWhole
    <2>8. ASSUME NEW w \in Words, WriteWord(w)
          PROVE  BlockIsWhole' /\ WatchIsWhole'
      <3>1. PICK q \in known : block' = [block EXCEPT ![w] = q[w]]
        BY <2>8 DEF WriteWord
      <3>2. ShapeOf(block') = ShapeOf(block)
        BY <1>0, <3>1, WordIsWritten DEF DriverTypes, Option, ShapeOf
      <3>3. cur # "pixels" /\ cur' # "imageEvent" /\ imageEvent' = imageEvent
        BY <2>8 DEF WriteWord, Continue, After, Words, events
      <3> QED
        BY <2>1, <2>2, <2>3, <3>2, <3>3 DEF BlockIsWhole
    <2> QED
      BY <1>3, <2>4, <2>5, <2>6, <2>7, <2>8 DEF CursorThread
  <1>4. ASSUME VdStart \/ ControlThread \/ ConfigurePanics \/ VdExit
        PROVE  BlockIsWhole' /\ WatchIsWhole'
    <2>0. /\ UNCHANGED <<cur, driverExits>> /\ (cur # "off" => block' = block)
          /\ BlockIsWhole /\ WatchIsWhole
      BY <1>4, ControlFrame DEF driverVars, Whole, BlockIsWhole, WatchIsWhole
    <2>1. CASE VdStart \/ WaitPosition \/ (\E w \in Words : ReadWord(w)) \/ SetCursorPosition
      <3>1. /\ UNCHANGED <<block, imageEvent, image, cache>>
            /\ ctl' \notin {"lock", "image"} \/ ctl' = ctl
        BY <2>1 DEF VdStart, WaitPosition, ReadWord, SetCursorPosition, watchVars, events
      <3> QED
        BY <2>0, <3>1 DEF BlockIsWhole, WatchIsWhole, ShapeOf
    <2>2. CASE WaitImage \/ LockToRead
      <3>1. /\ UNCHANGED <<block, image, cache>> /\ (imageEvent' => imageEvent)
            /\ imageEvent \/ ctl = "lock"
        BY <2>2 DEF WaitImage, LockToRead, watchVars, events
      <3> QED
        BY <2>0, <3>1 DEF BlockIsWhole, WatchIsWhole, ShapeOf
    <2>3. CASE ConfigurePanics
      <3>1. ~imageEvent' /\ ctl' = "dead" /\ UNCHANGED <<image, cache>>
        BY <2>3 DEF ConfigurePanics, watchVars, events
      <3> QED
        BY <2>0, <3>1 DEF BlockIsWhole, WatchIsWhole, ShapeOf
    <2>4. CASE SetCursorImage
      <3> DEFINE img == [size |-> block.size, pixels |-> block.pixels]
      <3>1. /\ \/ UNCHANGED <<cache, image, newImage>>
               \/ cache' = Recent(img) /\ image' = {Head(cache')}
            /\ ctl = "image" /\ ctl' = "wait" /\ UNCHANGED <<block, imageEvent>>
        BY <2>4 DEF SetCursorImage, events
      <3>2. cur # "pixels"
        BY <1>0, <3>1 DEF DriverTypes
      <3>3. img \in Shapes
        BY <2>0, <3>1, <3>2 DEF BlockIsWhole, ShapeOf
      <3>4. BlockIsWhole'
        BY <2>0, <3>1, <3>2 DEF BlockIsWhole, ShapeOf
      <3> HIDE DEF img
      <3>5. CASE cache' = Recent(img) /\ image' = {Head(cache')}
        <4>1. \A i \in DOMAIN cache' : cache'[i] \in Shapes
          BY <1>0, <2>0, <3>3, <3>5, RecentIsFirst, ShapesAreImages DEF ControlTypes, WatchIsWhole
        <4>2. cache' \in Seq(Images) /\ Len(cache') >= 1
          BY <1>0, <3>3, <3>5, RecentIsFirst, ShapesAreImages, BoundsAssumption DEF ControlTypes
        <4>3. Head(cache') = cache'[1] /\ 1 \in DOMAIN cache'
          BY <4>2
        <4> QED
          BY <3>4, <3>5, <4>1, <4>3 DEF WatchIsWhole
      <3>6. CASE UNCHANGED <<cache, image, newImage>>
        BY <2>0, <3>4, <3>6 DEF WatchIsWhole
      <3> QED
        BY <3>1, <3>5, <3>6
    <2>5. CASE VdExit
      <3>1. /\ image' = {} /\ cache' = <<>> /\ ctl' = "off"
            /\ imageEvent' = (imageEvent /\ cur # "off")
        BY <2>5 DEF VdExit, DriverHolds
      <3>2. WatchIsWhole'
        BY <3>1 DEF WatchIsWhole
      <3>3. BlockIsWhole'
        <4>1. cur = "off" => cur' = "off" /\ ~imageEvent'
          BY <2>0, <3>1
        <4>2. cur # "off" => block' = block /\ imageEvent' = imageEvent
          BY <1>0, <2>0, <3>1 DEF DriverTypes
        <4> QED
          BY <2>0, <3>1, <4>1, <4>2 DEF BlockIsWhole, ShapeOf
      <3> QED
        BY <3>2, <3>3
    <2> QED
      BY <1>4, <2>1, <2>2, <2>3, <2>4, <2>5 DEF ControlThread
  <1>5. ASSUME NEW c \in Clients, Connect(c) \/ Task(c)
        PROVE  UNCHANGED <<cur, block, imageEvent, ctl, image, cache, driverExits>>
    BY <1>5, TypeClient DEF notTask, driverVars, controlVars, watchVars, events, counters
  <1> QED
    BY <1>1, <1>2, <1>3, <1>4, <1>5
    DEF Next, vars, driverVars, controlVars, watchVars, events, counters, DriverEnds, DriverCrashes
-----------------------------------------------------------------------------
\* Nothing is on its way at first.
LEMMA InvInit == Init => Inv
  <1> SUFFICES ASSUME Init PROVE Inv
    OBVIOUS
  <1>1. Driver /\ Control /\ Whole
    BY DEF Init, Driver, Control, Whole, Writing
  <1>2. \A c \in Clients : Client(c)
    BY DEF Init, Client, NoPacket
  <1> QED
    BY <1>1, <1>2, TypeInit DEF Inv

\* All steps together.
LEMMA InvStep ==
    ASSUME Inv, [Next]_vars
    PROVE  Inv'
  <1>1. TypeOK'
    <2>1. CASE UNCHANGED vars
      BY <2>1
      DEF Inv, vars, driverVars, controlVars, watchVars, clientVars, events, counters, TypeOK
    <2> QED
      BY <2>1, TypeDriver, TypeControl, TypeClient DEF Inv, Next
  <1> QED
    BY <1>1, DriverStep, ControlStep, ClientStep, WholeStep DEF Inv

\* What has been found last is in the block, in an event, in the watches, in a notice or
\* with the client, whatever ends and restarts.
THEOREM UpdatesAreOnTheirWay == Spec => []Inv
  BY InvInit, InvStep, PTL DEF Spec

\* Every variable keeps its type, and the mutex is held by the thread that is inside.
THEOREM TypeCorrect == Spec => []TypeOK
  <1>1. Inv => TypeOK
    BY DEF Inv
  <1> QED
    BY <1>1, UpdatesAreOnTheirWay, PTL

\* Reads torn by the stores that go on without a lock are made up for: when nothing is on
\* its way, each client shows the place and visibility the driver found last.
THEOREM PositionIsShown == Spec => []ClientShowsPosition
  <1>1. Inv => ClientShowsPosition
    BY DEF Inv, ClientShowsPosition, Settled, Control, Client, NoPacket
  <1> QED
    BY <1>1, UpdatesAreOnTheirWay, PTL

\* The same for the pixels of a visible cursor, through a cache of any size.
THEOREM ShapeIsShown == Spec => []ClientShowsShape
  <1>1. Inv => ClientShowsShape
    <2> SUFFICES ASSUME Inv, NEW c \in Clients, Settled(c), ~imageEvent, ~newImage[c],
                        NEW q \in known, NEW img \in shownImage[c], q.visible
                 PROVE  img.pixels = q.shape.pixels \/ q.shape \in Unencodable
      BY DEF ClientShowsShape
    <2>1. img \in image
      BY DEF Inv, Settled, Client, NoPacket
    <2>2. sentShape = {q.shape}
      BY DEF Inv, Settled, Driver, Writing
    <2> QED
      BY <2>1, <2>2 DEF Inv, Settled, Control
  <1> QED
    BY <1>1, UpdatesAreOnTheirWay, PTL

\* Until a driver ends, no image has the size of one shape and the pixels of another.
THEOREM ImagesAreWhole == Spec => []ImageIsWhole
  <1>1. Inv => ImageIsWhole
    BY DEF Inv, Whole, ImageIsWhole
  <1> QED
    BY <1>1, UpdatesAreOnTheirWay, PTL
=============================================================================
