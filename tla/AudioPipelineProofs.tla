------------------------- MODULE AudioPipelineProofs -------------------------
(***************************************************************************)
(* Theorems about AudioPipeline, for any clients, sizes of packets, blocks *)
(* and channel, and numbers of changes: types, that a client hears every   *)
(* sound, and that a header is at most one packet late.  Thread counts the *)
(* headers that can still be published; Announced says who knows the       *)
(* present one; Ordered that sounds go from the buffer through queue and   *)
(* packet to a client in their order; Covered where the sounds are that a  *)
(* client has still to hear.                                               *)
(***************************************************************************)
EXTENDS AudioPipeline, FiniteSetTheorems, SequenceTheorems, TLAPS

\* Headers published, and wake-ups and openings that can still lead to one.
Due ==
    header + notices + (IF token THEN 1 ELSE 0) + (IF thread \in {"open", "publish"} THEN 1 ELSE 0)

Thread ==
    /\ Due <= 1 + Roles * (default - 1)
    /\ stream # 0 => thread = "recv"
    /\ data <= captured

\* A client without a notice has the present header; one that has been sent a packet
\* before its header has a notice, and looks at it before the next packet.
Announced ==
    \A c \in Clients :
        /\ \A i \in DOMAIN queue[c] : queue[c][i].stream <= header
        /\ c \in Custom =>
             /\ (pc[c] \notin {"off", "first"} /\ ~newHeader[c]) => shown[c] = header
             /\ \/ ahead[c] = 0
                \/ ahead[c] = 1 /\ newHeader[c] /\ pc[c] \in {"packet", "select"}

HasLast(S) == \E n \in S : \A k \in S : k <= n
Before(S, T) == \A s \in S, t \in T : s < t
Queued(c) == UNION {queue[c][i].sounds : i \in DOMAIN queue[c]}
Past(c) == {heard[c]} \cup packet[c].sounds

\* Sounds are passed on in order: heard or written, queued, in the buffer, not yet cut.
OrderOf(c) ==
    /\ pc[c] = "off" => queue[c] = <<>> /\ heard[c] = 0 /\ ~lagged[c]
    /\ pc[c] # "packet" => packet[c] = NoPacket
    /\ pc[c] = "packet" => HasLast(packet[c].sounds)
    /\ \A i \in DOMAIN queue[c] : HasLast(queue[c][i].sounds)
    /\ \A i, j \in DOMAIN queue[c] : i < j => Before(queue[c][i].sounds, queue[c][j].sounds)
    /\ Before(Past(c), Queued(c)) /\ Before(Past(c) \cup Queued(c), buffer)
    /\ \A s \in Past(c) \cup Queued(c) : s <= captured - data

Ordered ==
    /\ \A s \in buffer : s <= captured - data
    /\ \A c \in Clients : OrderOf(c)

\* The last sound a client has been sent or is being sent; before the first, the last of
\* the first packet that waits for it.
From(c) ==
    IF pc[c] = "packet" THEN Last(packet[c].sounds)
    ELSE IF heard[c] # 0 THEN heard[c]
    ELSE IF queue[c] # <<>> THEN Last(queue[c][1].sounds)
    ELSE captured - data

\* Unless packets were dropped, whatever has been cut since then is skipped, or in the
\* buffer, or waits.
Covered(c) ==
    (pc[c] # "off" /\ ~lagged[c]) =>
        \A s \in Sounds : (From(c) < s /\ s <= captured - data) =>
            s \in skipped \cup buffer \cup Queued(c)

Missed(c) ==
    (pc[c] = "packet" /\ heard[c] # 0) =>
        heard[c] + 1 .. Last(packet[c].sounds) \subseteq packet[c].sounds \cup skipped

Inv ==
    /\ TypeOK /\ Thread /\ Announced /\ Ordered
    /\ \A c \in Custom : Covered(c) /\ Missed(c)
-----------------------------------------------------------------------------
(***************************************************************************)
(* Packets and their last sounds.                                          *)
(***************************************************************************)
LEMMA BoundsAre ==
    /\ PacketSize \in Nat \ {0} /\ MaxBlock \in Nat \ {0} /\ Capacity \in Nat \ {0}
    /\ Roles \in Nat \ {0} /\ MaxChanges \in Nat /\ MaxSound \in Nat
  BY BoundsAssumption

\* Last(S) is what its CHOOSE looks for, if there is such a number.
LEMMA LastIsGreatest ==
    ASSUME NEW S \in SUBSET Sounds, HasLast(S)
    PROVE  Last(S) \in S /\ Last(S) \in Sounds /\ \A k \in S : k <= Last(S)
  BY DEF HasLast, Last

\* A number of a set that is not below any other is its last.
LEMMA LastOf ==
    ASSUME NEW S \in SUBSET Sounds, NEW n \in S, \A k \in S : k <= n
    PROVE  HasLast(S) /\ Last(S) = n
  <1>1. HasLast(S)
    BY DEF HasLast
  <1>2. Last(S) \in S /\ n <= Last(S) /\ Last(S) <= n
    BY <1>1, LastIsGreatest
  <1>3. n \in Nat /\ Last(S) \in Nat
    BY <1>1, LastIsGreatest, BoundsAre DEF Sounds
  <1> QED
    BY <1>1, <1>2, <1>3

\* One turn of the loop takes the next sounds, as many as the packet has room for.
LEMMA FilledIs ==
    ASSUME TypeOK, data > 0, data <= captured, \A s \in buffer : s <= captured - data
    PROVE  \E n \in 1..data :
              /\ Filled = buffer \cup (captured - data + 1 .. captured - data + n)
              /\ Filled \subseteq Sounds
              /\ Cardinality(Filled) <= PacketSize
              /\ Cardinality(Filled \ buffer) = n
              /\ HasLast(Filled) /\ Last(Filled) = captured - data + n
  <1> DEFINE room == PacketSize - Cardinality(buffer)
             n == IF data < room THEN data ELSE room
             new == captured - data + 1 .. captured - data + n
  <1>1. IsFiniteSet(buffer) /\ Cardinality(buffer) \in Nat
    <2>1. IsFiniteSet(Sounds)
      BY BoundsAre, FS_Interval DEF Sounds
    <2> QED
      BY <2>1, FS_Subset, FS_CardinalityType DEF TypeOK
  <1>2. data \in Nat /\ captured \in Nat /\ captured <= MaxSound /\ buffer \subseteq Sounds
    BY BoundsAre DEF TypeOK
  <1>3. room \in Nat \ {0} /\ n \in 1..data /\ n <= room
    BY <1>1, <1>2, BoundsAre DEF TypeOK
  <1>4. Filled = buffer \cup new
    BY DEF Filled
  <1> HIDE DEF n, room
  <1>5. IsFiniteSet(new) /\ Cardinality(new) = n
    <2> DEFINE a == captured - data + 1
               b == captured - data + n
    <2>1. a \in Int /\ b \in Int /\ ~(a > b) /\ b - a + 1 = n
      BY <1>2, <1>3
    <2>2. new = a..b
      OBVIOUS
    <2> HIDE DEF new, a, b
    <2>3. IsFiniteSet(a..b) /\ Cardinality(a..b) = IF a > b THEN 0 ELSE b - a + 1
      BY <2>1, FS_Interval
    <2> QED
      BY <2>1, <2>2, <2>3
  <1>6. new \subseteq Sounds /\ captured - data + n \in new /\ \A k \in new : k <= captured - data + n
    BY <1>2, <1>3, BoundsAre DEF Sounds
  <1>7. new \cap buffer = {}
    BY <1>2, <1>3, BoundsAre DEF Sounds
  <1>8. Cardinality(Filled) = Cardinality(buffer) + n
    <2> HIDE DEF new
    <2>1. Cardinality(buffer \cap new) = 0
      BY <1>7, FS_EmptySet
    <2>2. Cardinality(buffer \cup new) = Cardinality(buffer) + Cardinality(new) - Cardinality(buffer \cap new)
      BY <1>1, <1>5, FS_Union
    <2> QED
      BY <1>1, <1>3, <1>4, <1>5, <2>1, <2>2
  <1>9. Filled \ buffer = new
    BY <1>4, <1>7
  <1>10. Cardinality(Filled) <= PacketSize
    BY <1>1, <1>3, <1>8, BoundsAre DEF room
  <1>11. Filled \in SUBSET Sounds /\ captured - data + n \in Filled
         /\ \A k \in Filled : k <= captured - data + n
    BY <1>2, <1>3, <1>4, <1>6, BoundsAre DEF Sounds
  <1> QED
    BY <1>3, <1>4, <1>5, <1>9, <1>10, <1>11, LastOf

\* A packet is pushed to a channel, whose oldest packet goes when it is full.
LEMMA PushedIs ==
    ASSUME NEW q \in Seq(Packets), Len(q) <= Capacity, NEW p \in Packets,
           NEW r, r = (IF Len(q) = Capacity THEN Tail(q) ELSE q) \o <<p>>
    PROVE  \E dropped \in {0, 1} :
              /\ dropped = 1 <=> Len(q) = Capacity
              /\ r \in Seq(Packets) /\ Len(r) = Len(q) + 1 - dropped /\ Len(r) \in 1..Capacity
              /\ r[Len(r)] = p
              /\ \A i \in 1..(Len(r) - 1) : i + dropped \in 1..Len(q) /\ r[i] = q[i + dropped]
  <1>0. Len(q) \in Nat /\ Capacity \in Nat \ {0}
    BY BoundsAre
  <1>1. CASE Len(q) = Capacity
    <2>1. /\ Tail(q) \in Seq(Packets) /\ Len(Tail(q)) = Len(q) - 1
          /\ \A i \in 1..(Len(q) - 1) : Tail(q)[i] = q[i + 1]
      BY <1>0, <1>1
    <2>2. /\ r \in Seq(Packets) /\ Len(r) = Len(q) /\ r[Len(q)] = p
          /\ \A i \in 1..(Len(q) - 1) : r[i] = Tail(q)[i]
      BY <1>0, <1>1, <2>1
    <2>3. ASSUME NEW i \in 1..(Len(r) - 1)
          PROVE  i + 1 \in 1..Len(q) /\ r[i] = q[i + 1]
      <3>1. i \in 1..(Len(q) - 1) /\ i + 1 \in 1..Len(q)
        BY <1>0, <2>2
      <3>2. r[i] = Tail(q)[i] /\ Tail(q)[i] = q[i + 1]
        BY <2>1, <2>2, <3>1
      <3> QED
        BY <3>1, <3>2
    <2> QED
      BY <1>0, <1>1, <2>2, <2>3
  <1>2. CASE Len(q) # Capacity
    <2>1. /\ r \in Seq(Packets) /\ Len(r) = Len(q) + 1 /\ r[Len(q) + 1] = p
          /\ \A i \in 1..Len(q) : r[i] = q[i]
      <3>1. r = q \o <<p>>
        BY <1>2
      <3>2. <<p>> \in Seq(Packets) /\ Len(<<p>>) = 1 /\ <<p>>[1] = p
        OBVIOUS
      <3> DEFINE t == <<p>>
      <3> HIDE DEF t
      <3>3. /\ q \o t \in Seq(Packets) /\ Len(q \o t) = Len(q) + Len(t)
            /\ \A i \in 1..(Len(q) + Len(t)) : (q \o t)[i] = IF i <= Len(q) THEN q[i] ELSE t[i - Len(q)]
        BY <3>2, ConcatProperties DEF t
      <3>4. (q \o t)[Len(q) + 1] = p /\ \A i \in 1..Len(q) : (q \o t)[i] = q[i]
        BY <1>0, <3>2, <3>3 DEF t
      <3>5. r = q \o t /\ Len(t) = 1
        BY <3>1, <3>2 DEF t
      <3> QED
        BY <3>3, <3>4, <3>5
    <2>2. \A i \in 1..(Len(r) - 1) : i + 0 \in 1..Len(q) /\ r[i] = q[i + 0]
      BY <1>0, <2>1
    <2> QED
      BY <1>0, <1>2, <2>1, <2>2
  <1> QED
    BY <1>1, <1>2

\* Taking the first packet from a queue moves the others up by one.
LEMMA TailIs ==
    ASSUME NEW q \in Seq(Packets), q # <<>>
    PROVE  /\ Tail(q) \in Seq(Packets) /\ Len(Tail(q)) = Len(q) - 1 /\ Len(q) \in Nat \ {0}
           /\ Head(q) = q[1] /\ q[1] \in Packets
           /\ \A i \in 1..(Len(q) - 1) : Tail(q)[i] = q[i + 1]
  OBVIOUS
-----------------------------------------------------------------------------
(***************************************************************************)
(* Types, and the number of headers.                                       *)
(***************************************************************************)
SourceTypes ==
    /\ default \in 1..(MaxChanges + 1) /\ notices \in 0..Roles /\ token \in BOOLEAN
    /\ thread \in {"recv", "open", "publish", "build", "dead"} /\ device \in 0..(MaxChanges + 1)
    /\ header \in Nat /\ stream \in {0, header}
    /\ captured \in 0..MaxSound /\ data \in 0..MaxBlock
    /\ buffer \subseteq Sounds /\ Cardinality(buffer) < PacketSize
    /\ skipped \subseteq Sounds

ClientTypes ==
    /\ pc \in [Clients -> {"off", "first", "select", "header", "recv", "sleep", "packet"}]
    /\ newHeader \in [Clients -> BOOLEAN] /\ lagged \in [Clients -> BOOLEAN]
    /\ queue \in [Clients -> Seq(Packets)] /\ packet \in [Clients -> Packets]
    /\ \A c \in Clients : Len(queue[c]) <= Capacity
    /\ shown \in [Clients -> Headers] /\ heard \in [Clients -> 0..MaxSound]
    /\ ahead \in [Clients -> Nat]

\* The bound of Headers follows from the count.
LEMMA HeadersAreBounded ==
    ASSUME NEW h \in Nat, NEW n \in 0..Roles, NEW d \in 1..(MaxChanges + 1), NEW t, NEW o,
           h + n + (IF t THEN 1 ELSE 0) + (IF o THEN 1 ELSE 0) <= 1 + Roles * (d - 1)
    PROVE  h \in Headers
  <1>1. Roles * (d - 1) <= Roles * MaxChanges /\ Roles * MaxChanges \in Nat
    BY BoundsAre
  <1>2. Roles * (d - 1) \in Nat
    BY BoundsAre
  <1>3. h <= 1 + Roles * (d - 1)
    BY <1>2, BoundsAre
  <1> QED
    BY <1>1, <1>2, <1>3 DEF Headers

\* TypeOK in two parts, by who changes the variables.
LEMMA TypeParts ==
    /\ Thread => (TypeOK <=> SourceTypes /\ ClientTypes)
    /\ Thread' => (TypeOK' <=> SourceTypes' /\ ClientTypes')
  <1>1. ASSUME Thread, SourceTypes
        PROVE  header \in Headers
    BY <1>1, HeadersAreBounded DEF SourceTypes, Thread, Due
  <1>2. ASSUME Thread', SourceTypes'
        PROVE  header' \in Headers
    BY <1>2, HeadersAreBounded DEF SourceTypes, Thread, Due
  <1>3. Headers \subseteq Nat
    BY BoundsAre DEF Headers
  <1> QED
    BY <1>1, <1>2, <1>3 DEF TypeOK, SourceTypes, ClientTypes

\* Each change of the device allows Roles more headers.
LEMMA OneMoreChange ==
    ASSUME NEW d \in 1..(MaxChanges + 1)
    PROVE  Roles * d = Roles * (d - 1) + Roles /\ Roles * d \in Nat /\ Roles * (d - 1) \in Nat
  BY BoundsAre

\* At first one opening of a device is due.
LEMMA ThreadInit == Init => SourceTypes /\ Thread
  <1> SUFFICES ASSUME Init PROVE SourceTypes /\ Thread
    OBVIOUS
  <1>1. Cardinality(buffer) < PacketSize
    BY BoundsAre, FS_EmptySet DEF Init
  <1>2. Roles * (default - 1) = 0
    BY BoundsAre DEF Init
  <1> QED
    BY <1>1, <1>2, BoundsAre DEF Init, SourceTypes, Thread, Due

\* The default device, its notices, and the audio thread.
LEMMA ThreadActs ==
    ASSUME SourceTypes, Thread, DefaultChanges \/ OnDefaultDeviceChanged \/ AudioThread
    PROVE  /\ SourceTypes' /\ Thread'
           /\ captured' = captured /\ data' = data /\ header' >= header
           /\ \/ UNCHANGED <<buffer, skipped>>
              \/ skipped' = skipped \cup buffer /\ buffer' = {}
           /\ UNCHANGED <<pc, queue, lagged, packet, shown, heard, ahead>>
  <1> USE DEF SourceTypes, captureVars, clientVars
  <1>0. Roles * (default - 1) \in Nat /\ header \in Nat /\ notices \in Nat
    BY OneMoreChange, BoundsAre
  <1>1. CASE DefaultChanges
    <2>1. /\ default <= MaxChanges /\ default' = default + 1 /\ notices' = Roles
          /\ UNCHANGED <<token, thread, device, header, stream, captured, data, buffer, skipped>>
          /\ UNCHANGED <<pc, queue, lagged, packet, shown, heard, ahead>>
      BY <1>1 DEF DefaultChanges
    <2>2. Roles * (default' - 1) = Roles * (default - 1) + Roles
      BY <2>1, OneMoreChange
    <2>3. Due' <= 1 + Roles * (default' - 1)
      BY <1>0, <2>1, <2>2, BoundsAre DEF Thread, Due
    <2> QED
      BY <2>1, <2>3, BoundsAre DEF Thread
  <1>2. CASE OnDefaultDeviceChanged
    <2>1. /\ notices > 0 /\ notices' = notices - 1 /\ token' \in BOOLEAN
          /\ UNCHANGED <<default, thread, device, header, stream, captured, data, buffer, skipped>>
          /\ UNCHANGED <<pc, queue, lagged, packet, shown, heard, ahead>>
      BY <1>2 DEF OnDefaultDeviceChanged
    <2>2. Due' <= 1 + Roles * (default - 1)
      BY <1>0, <2>1, BoundsAre DEF Thread, Due
    <2> QED
      BY <2>1, <2>2, BoundsAre DEF Thread
  <1>3. CASE DropStream
    <2>1. /\ thread = "recv" /\ token /\ token' = FALSE /\ thread' = "open" /\ stream' = 0
          /\ skipped' = skipped \cup buffer /\ buffer' = {}
          /\ UNCHANGED <<default, notices, device, header, captured, data>>
          /\ UNCHANGED <<pc, queue, lagged, packet, shown, heard, ahead>>
      BY <1>3 DEF DropStream
    <2>2. Due' <= 1 + Roles * (default - 1)
      BY <1>0, <2>1, BoundsAre DEF Thread, Due
    <2>3. Cardinality(buffer') < PacketSize
      BY <2>1, BoundsAre, FS_EmptySet
    <2>4. buffer' \subseteq Sounds /\ skipped' \subseteq Sounds
      BY <2>1
    <2>5. SourceTypes'
      BY <2>1, <2>3, <2>4
    <2>6. Thread'
      BY <2>1, <2>2 DEF Thread
    <2> QED
      BY <1>0, <2>1, <2>5, <2>6
  <1>4. CASE OpenDevice
    <2>1. /\ thread = "open" /\ thread' = "publish" /\ device' = default
          /\ UNCHANGED <<default, notices, token, header, stream, captured, data, buffer, skipped>>
          /\ UNCHANGED <<pc, queue, lagged, packet, shown, heard, ahead>>
      BY <1>4 DEF OpenDevice
    <2>2. Due' <= 1 + Roles * (default - 1)
      BY <1>0, <2>1, BoundsAre DEF Thread, Due
    <2> QED
      BY <2>1, <2>2, BoundsAre DEF Thread
  <1>5. CASE PublishHeader
    <2>1. /\ thread = "publish" /\ thread' = "build" /\ header' = header + 1
          /\ UNCHANGED <<default, notices, token, device, stream, captured, data, buffer, skipped>>
          /\ UNCHANGED <<pc, queue, lagged, packet, shown, heard, ahead>>
      BY <1>5 DEF PublishHeader
    <2>2. Due' <= 1 + Roles * (default - 1)
      BY <1>0, <2>1, BoundsAre DEF Thread, Due
    <2>3. stream = 0
      BY <2>1 DEF Thread
    <2> QED
      BY <1>0, <2>1, <2>2, <2>3, BoundsAre DEF Thread
  <1>6. CASE BuildStream
    <2>1. /\ thread = "build" /\ thread' = "recv" /\ stream' = header
          /\ UNCHANGED <<default, notices, token, device, header, captured, data, buffer, skipped>>
          /\ UNCHANGED <<pc, queue, lagged, packet, shown, heard, ahead>>
      BY <1>6 DEF BuildStream
    <2>2. Due' <= 1 + Roles * (default - 1)
      BY <1>0, <2>1, BoundsAre DEF Thread, Due
    <2> QED
      BY <2>1, <2>2, BoundsAre DEF Thread
  <1>7. CASE AudioThreadFails
    <2>1. /\ thread' = "dead" /\ token' = FALSE /\ stream' = 0
          /\ skipped' = skipped \cup buffer /\ buffer' = {}
          /\ UNCHANGED <<default, notices, device, header, captured, data>>
          /\ UNCHANGED <<pc, queue, lagged, packet, shown, heard, ahead>>
      BY <1>7 DEF AudioThreadFails
    <2>2. Due' <= 1 + Roles * (default - 1)
      BY <1>0, <2>1, BoundsAre DEF Thread, Due
    <2>3. Cardinality(buffer') < PacketSize
      BY <2>1, BoundsAre, FS_EmptySet
    <2>4. buffer' \subseteq Sounds /\ skipped' \subseteq Sounds
      BY <2>1
    <2>5. SourceTypes'
      BY <2>1, <2>3, <2>4
    <2>6. Thread'
      BY <2>1, <2>2 DEF Thread
    <2> QED
      BY <1>0, <2>1, <2>5, <2>6
  <1> QED
    BY <1>1, <1>2, <1>3, <1>4, <1>5, <1>6, <1>7 DEF AudioThread

\* The sounds of a block come after all others, and are skipped when nobody is connected.
LEMMA CaptureActs ==
    ASSUME TypeOK, Thread, NEW n \in 1..MaxBlock, Capture(n)
    PROVE  /\ SourceTypes' /\ Thread'
           /\ UNCHANGED <<header, buffer, pc, newHeader, queue, lagged, packet, shown, heard, ahead>>
           /\ \/ captured' - data' = captured - data /\ skipped' = skipped
              \/ /\ captured' - data' >= captured - data
                 /\ skipped \subseteq skipped'
                 /\ \A c \in Clients : pc[c] = "off"
  <1>0. SourceTypes
    BY TypeParts
  <1>1. /\ stream # 0 /\ data = 0 /\ captured' = captured + n /\ captured' <= MaxSound
        /\ UNCHANGED <<default, notices, token, thread, device, header, stream, buffer>>
        /\ UNCHANGED <<pc, newHeader, queue, lagged, packet, shown, heard, ahead>>
    BY DEF Capture, deviceVars, clientVars
  <1>2. captured \in Nat /\ n \in Nat /\ n <= MaxBlock
    BY <1>0, BoundsAre DEF SourceTypes
  <1>3. Due' = Due
    BY <1>1 DEF Due
  <1>4. CASE data' = n /\ skipped' = skipped
    <2>1. captured' - data' = captured - data /\ data' <= captured'
      BY <1>1, <1>2, <1>4
    <2> QED
      BY <1>0, <1>1, <1>2, <1>3, <1>4, <2>1, BoundsAre DEF SourceTypes, Thread
  <1>5. CASE /\ skipped' = skipped \cup (captured + 1 .. captured') /\ data' = data
             /\ \A c \in Clients : pc[c] = "off"
    <2>1. captured + 1 .. captured' \subseteq Sounds
      BY <1>1, <1>2, BoundsAre DEF Sounds
    <2>2. skipped' \subseteq Sounds /\ skipped \subseteq skipped'
      BY <1>0, <1>5, <2>1 DEF SourceTypes
    <2>3. captured' - data' >= captured - data /\ captured' \in 0..MaxSound /\ data' <= captured'
      BY <1>1, <1>2, <1>5, BoundsAre
    <2> QED
      BY <1>0, <1>1, <1>3, <1>5, <2>2, <2>3, BoundsAre DEF SourceTypes, Thread
  <1> QED
    BY <1>4, <1>5 DEF Capture, Connected

\* The packets of one turn of the loop: the buffer grows, or what it held goes to the
\* clients, or is passed over.
LEMMA PacketizeActs ==
    ASSUME TypeOK, Thread, \A s \in buffer : s <= captured - data, Packetize
    PROVE  /\ SourceTypes' /\ Thread'
           /\ UNCHANGED <<header, captured, pc, newHeader, packet, shown, heard, ahead>>
           /\ Filled \subseteq Sounds /\ buffer \subseteq Filled
           /\ \E n \in 1..data :
                /\ data' = data - n /\ HasLast(Filled) /\ Last(Filled) = captured - data + n
                /\ Filled = buffer \cup (captured - data + 1 .. captured - data + n)
           /\ \/ buffer' = Filled /\ UNCHANGED <<skipped, queue, lagged>>
              \/ /\ buffer' = {} /\ skipped' = skipped \cup Filled
                 /\ \A c \in Clients : queue'[c] = queue[c] /\ lagged'[c] = lagged[c]
              \/ /\ buffer' = {} /\ skipped' = skipped
                 /\ \A c \in Clients :
                      IF pc[c] = "off" THEN queue'[c] = queue[c] /\ lagged'[c] = lagged[c]
                      ELSE /\ queue'[c] = (IF Len(queue[c]) = Capacity THEN Tail(queue[c]) ELSE queue[c])
                                             \o <<[stream |-> stream, sounds |-> Filled]>>
                           /\ lagged'[c] = (lagged[c] \/ Len(queue[c]) = Capacity)
           /\ DOMAIN queue' = Clients /\ DOMAIN lagged' = Clients
  <1>0. SourceTypes /\ ClientTypes
    BY TypeParts
  <1>1. /\ data > 0 /\ data' = data - Cardinality(Filled \ buffer)
        /\ UNCHANGED <<default, notices, token, thread, device, header, stream, captured>>
        /\ UNCHANGED <<pc, newHeader, packet, shown, heard, ahead>>
    BY DEF Packetize, deviceVars
  <1>2. PICK n \in 1..data :
           /\ Filled = buffer \cup (captured - data + 1 .. captured - data + n)
           /\ Filled \subseteq Sounds
           /\ Cardinality(Filled) <= PacketSize
           /\ Cardinality(Filled \ buffer) = n
           /\ HasLast(Filled) /\ Last(Filled) = captured - data + n
    BY <1>1, FilledIs DEF Thread
  <1>3. data' = data - n /\ data \in Nat /\ data' \in 0..MaxBlock /\ data' <= captured
    BY <1>0, <1>1, <1>2, BoundsAre DEF SourceTypes, Thread
  <1>4. \/ buffer' = Filled /\ Cardinality(Filled) < PacketSize /\ UNCHANGED <<skipped, queue, lagged>>
        \/ \E ok \in BOOLEAN :
              /\ buffer' = {}
              /\ skipped' = IF ok THEN skipped ELSE skipped \cup Filled
              /\ queue' = [c \in Clients |->
                    IF ~ok \/ ~Connected(c) THEN queue[c]
                    ELSE (IF Len(queue[c]) = Capacity THEN Tail(queue[c]) ELSE queue[c])
                            \o <<[stream |-> stream, sounds |-> Filled]>>]
              /\ lagged' = [c \in Clients |->
                    lagged[c] \/ (ok /\ Connected(c) /\ Len(queue[c]) = Capacity)]
    BY DEF Packetize, AfterEncoding
  <1> HIDE DEF Filled
  <1>5. SourceTypes' /\ Thread'
    <2>1. buffer' \subseteq Sounds /\ skipped' \subseteq Sounds
      BY <1>0, <1>2, <1>4 DEF SourceTypes
    <2>2. Cardinality(buffer') < PacketSize
      BY <1>4, BoundsAre, FS_EmptySet
    <2>3. Due' = Due
      BY <1>1 DEF Due
    <2> QED
      BY <1>0, <1>1, <1>3, <2>1, <2>2, <2>3 DEF SourceTypes, Thread
  <1>6. \A c \in Clients : lagged[c] \in BOOLEAN
    BY <1>0 DEF ClientTypes
  <1>7. \/ buffer' = Filled /\ UNCHANGED <<skipped, queue, lagged>>
        \/ /\ buffer' = {} /\ skipped' = skipped \cup Filled
           /\ \A c \in Clients : queue'[c] = queue[c] /\ lagged'[c] = lagged[c]
        \/ /\ buffer' = {} /\ skipped' = skipped
           /\ \A c \in Clients :
                IF pc[c] = "off" THEN queue'[c] = queue[c] /\ lagged'[c] = lagged[c]
                ELSE /\ queue'[c] = (IF Len(queue[c]) = Capacity THEN Tail(queue[c]) ELSE queue[c])
                                       \o <<[stream |-> stream, sounds |-> Filled]>>
                     /\ lagged'[c] = (lagged[c] \/ Len(queue[c]) = Capacity)
    BY <1>4, <1>6 DEF Connected
  <1>8. DOMAIN queue' = Clients /\ DOMAIN lagged' = Clients
    BY <1>0, <1>4 DEF ClientTypes
  <1>9. buffer \subseteq Filled
    BY <1>2
  <1> QED
    BY <1>1, <1>2, <1>3, <1>5, <1>7, <1>8, <1>9

-----------------------------------------------------------------------------
(***************************************************************************)
(* The steps of a client, client by client.                                *)
(***************************************************************************)
Received(c) == queue'[c] = queue[c] /\ lagged'[c] = lagged[c]
Sent(c) == packet'[c] = packet[c] /\ heard'[c] = heard[c]
Waits(c) == pc'[c] = pc[c] /\ shown'[c] = shown[c] /\ ahead'[c] = ahead[c]
Same(c) == Received(c) /\ Sent(c) /\ Waits(c) /\ newHeader'[c] = newHeader[c]

Connects(c) ==
    /\ pc[c] = "off" /\ pc'[c] = (IF c \in Custom THEN "first" ELSE "recv")
    /\ newHeader'[c] \in BOOLEAN
    /\ Received(c) /\ Sent(c) /\ shown'[c] = shown[c] /\ ahead'[c] = ahead[c]
Leaves(c) ==
    /\ pc'[c] = "off" /\ newHeader'[c] = FALSE /\ queue'[c] = <<>> /\ lagged'[c] = FALSE
    /\ packet'[c] = NoPacket /\ shown'[c] = 0 /\ heard'[c] = 0 /\ ahead'[c] = 0
Updates(c) ==
    /\ pc[c] \in {"first", "select"} /\ pc'[c] = "header"
    /\ newHeader'[c] = FALSE /\ shown'[c] = header /\ ahead'[c] = 0
    /\ Received(c) /\ Sent(c)
Looks(c) ==
    /\ pc[c] \in {"select", "recv", "sleep"} /\ pc'[c] \in {"select", "recv", "sleep"}
    /\ pc[c] = "select" => ~newHeader[c]
    /\ Received(c) /\ Sent(c)
    /\ shown'[c] = shown[c] /\ ahead'[c] = ahead[c] /\ newHeader'[c] = newHeader[c]
Takes(c) ==
    /\ pc[c] = "recv" /\ pc'[c] = "packet" /\ ~lagged[c] /\ queue[c] # <<>>
    /\ packet'[c] = Head(queue[c]) /\ queue'[c] = Tail(queue[c])
    /\ ahead'[c] = (IF c \in Custom /\ Head(queue[c]).stream > shown[c] THEN ahead[c] + 1 ELSE 0)
    /\ lagged'[c] = lagged[c] /\ shown'[c] = shown[c] /\ heard'[c] = heard[c]
    /\ newHeader'[c] = newHeader[c]
Overlooks(c) ==
    /\ c \notin Custom /\ pc[c] = "recv" /\ lagged'[c] = FALSE
    /\ queue'[c] = queue[c] /\ Sent(c) /\ Waits(c) /\ newHeader'[c] = newHeader[c]
Writes(c) ==
    /\ pc[c] \in {"header", "packet"} /\ pc'[c] = Again(c) /\ packet'[c] = NoPacket
    /\ heard'[c] = (IF pc[c] = "packet" /\ c \in Custom THEN Last(packet[c].sounds) ELSE heard[c])
    /\ Received(c) /\ shown'[c] = shown[c] /\ ahead'[c] = ahead[c]
    /\ newHeader'[c] = newHeader[c]

Steps(c) ==
    \/ Connects(c) \/ Leaves(c) \/ Updates(c) \/ Looks(c) \/ Takes(c) \/ Overlooks(c) \/ Writes(c)

\* What the types of a packet and a sound mean for the steps below.
LEMMA PacketsAre ==
    /\ \A p \in Packets : p.stream \in Nat /\ p.stream \in Headers /\ p.sounds \subseteq Sounds
    /\ NoPacket \in Packets /\ 0 \in Headers
    /\ \A s \in Sounds : s \in Nat /\ s > 0 /\ s <= MaxSound
  BY BoundsAre DEF Packets, Headers, NoPacket, Sounds

\* A client that leaves touches no other client.
LEMMA LeaveActs ==
    ASSUME TypeOK, NEW c \in Clients, Leave(c)
    PROVE  /\ ClientTypes' /\ Leaves(c)
           /\ \A d \in Clients \ {c} : Same(d)
  <1> USE DEF ClientTypes, Leave
  <1>1. ClientTypes
    BY DEF TypeOK
  <1>2. Leaves(c) /\ \A d \in Clients \ {c} : Same(d)
    BY <1>1 DEF Leaves, Same, Received, Sent, Waits
  <1>3. ASSUME NEW d \in Clients
        PROVE  Len(queue'[d]) <= Capacity
    BY <1>1, BoundsAre
  <1>4. <<>> \in Seq(Packets)
    OBVIOUS
  <1>5. ClientTypes'
    BY <1>1, <1>3, <1>4, PacketsAre, BoundsAre
  <1> QED
    BY <1>2, <1>5

\* A step of one client touches neither the pipeline nor another client.
LEMMA ClientActs ==
    ASSUME TypeOK, NEW c \in Clients, OrderOf(c), Connect(c) \/ Task(c)
    PROVE  /\ UNCHANGED system
           /\ ClientTypes' /\ Steps(c)
           /\ \A d \in Clients \ {c} : Same(d)
  <1> USE DEF Same, Received, Sent, Waits
  <1>0. ClientTypes
    BY DEF TypeOK, ClientTypes
  <1> USE DEF ClientTypes
  <1>1. CASE Leave(c)
    BY <1>1, LeaveActs DEF Steps, Leave
  <1>2. CASE Connect(c)
    <2>1. Connects(c) /\ (\A d \in Clients \ {c} : Same(d))
      BY <1>0, <1>2 DEF Connect, Connected, Connects
    <2>2. ClientTypes'
      BY <1>0, <1>2 DEF Connect
    <2> QED
      BY <1>2, <2>1, <2>2 DEF Steps, Connect
  <1>3. CASE HeaderChanged(c)
    <2>1. Updates(c) /\ (\A d \in Clients \ {c} : Same(d))
      BY <1>0, <1>3 DEF HeaderChanged, Updates
    <2>2. ClientTypes'
      BY <1>0, <1>3 DEF HeaderChanged, TypeOK
    <2> QED
      BY <1>3, <2>1, <2>2 DEF Steps, HeaderChanged
  <1>4. CASE PassHeader(c) \/ Sleep(c) \/ Wake(c)
    <2>1. Looks(c) /\ (\A d \in Clients \ {c} : Same(d))
      BY <1>0, <1>4 DEF PassHeader, Sleep, Wake, HeaderPending, Looks
    <2>2. ClientTypes'
      BY <1>0, <1>4 DEF PassHeader, Sleep, Wake
    <2> QED
      BY <1>4, <2>1, <2>2 DEF Steps, PassHeader, Sleep, Wake
  <1>5. CASE TakePacket(c)
    <2>1. Takes(c) /\ (\A d \in Clients \ {c} : Same(d))
      BY <1>0, <1>5 DEF TakePacket, Takes
    <2>2. /\ Tail(queue[c]) \in Seq(Packets) /\ Len(Tail(queue[c])) <= Capacity
          /\ Head(queue[c]) \in Packets
      BY <1>0, <2>1, TailIs, BoundsAre DEF Takes
    <2>3. queue' \in [Clients -> Seq(Packets)] /\ \A d \in Clients : Len(queue'[d]) <= Capacity
      BY <1>0, <1>5, <2>2 DEF TakePacket
    <2>4. ahead' \in [Clients -> Nat]
      BY <1>0, <1>5 DEF TakePacket
    <2>5. ClientTypes'
      BY <1>0, <1>5, <2>2, <2>3, <2>4 DEF TakePacket
    <2> QED
      BY <1>5, <2>1, <2>5 DEF Steps, TakePacket
  <1>6. CASE Lagged(c) /\ ~Leave(c)
    <2>1. Overlooks(c) /\ (\A d \in Clients \ {c} : Same(d))
      BY <1>0, <1>6 DEF Lagged, LagEnds, Overlooks
    <2>2. ClientTypes'
      BY <1>0, <1>6 DEF Lagged, LagEnds
    <2> QED
      BY <1>6, <2>1, <2>2 DEF Steps, Lagged
  <1>7. CASE WriteDone(c)
    <2>1. Writes(c) /\ (\A d \in Clients \ {c} : Same(d))
      BY <1>0, <1>7 DEF WriteDone, Writes
    <2>2. pc[c] = "packet" => Last(packet[c].sounds) \in 0..MaxSound
      BY <1>0, PacketsAre, LastIsGreatest DEF OrderOf
    <2>3. ClientTypes'
      BY <1>0, <1>7, <2>2, PacketsAre DEF WriteDone, Again
    <2> QED
      BY <1>7, <2>1, <2>3 DEF Steps, WriteDone
  <1>8. Leave(c) \/ Connect(c) \/ HeaderChanged(c) \/ PassHeader(c) \/ Sleep(c) \/ Wake(c)
          \/ TakePacket(c) \/ (Lagged(c) /\ ~Leave(c)) \/ WriteDone(c)
    BY DEF Task, FirstHeaderFails, WriteFails
  <1> QED
    BY <1>1, <1>2, <1>3, <1>4, <1>5, <1>6, <1>7, <1>8

-----------------------------------------------------------------------------
(***************************************************************************)
(* Types.                                                                  *)
(***************************************************************************)
LEMMA TypeStep ==
    ASSUME TypeOK, Thread, Ordered, Next
    PROVE  SourceTypes' /\ Thread' /\ ClientTypes'
  <1>0. SourceTypes /\ ClientTypes
    BY TypeParts
  <1> USE DEF ClientTypes
  <1>1. CASE DefaultChanges \/ OnDefaultDeviceChanged \/ AudioThread
    <2>1. /\ SourceTypes' /\ Thread'
          /\ UNCHANGED <<pc, queue, lagged, packet, shown, heard, ahead>>
      BY <1>0, <1>1, ThreadActs
    <2>2. newHeader' \in [Clients -> BOOLEAN]
      BY <1>0, <1>1
      DEF DefaultChanges, OnDefaultDeviceChanged, AudioThread, DropStream, OpenDevice,
          PublishHeader, BuildStream, AudioThreadFails, clientVars, Connected
    <2> QED
      BY <1>0, <2>1, <2>2
  <1>2. ASSUME NEW n \in 1..MaxBlock, Capture(n)
        PROVE  SourceTypes' /\ Thread' /\ ClientTypes'
    BY <1>0, <1>2, CaptureActs
  <1>3. CASE Packetize
    <2>1. SourceTypes' /\ Thread' /\ UNCHANGED <<pc, newHeader, packet, shown, heard, ahead>>
      BY <1>3, PacketizeActs DEF Ordered
    <2>2. \E ok \in BOOLEAN : /\ queue' = queue
                              /\ lagged' = lagged
          \/ /\ queue' = [c \in Clients |->
                    IF ~ok \/ ~Connected(c) THEN queue[c]
                    ELSE (IF Len(queue[c]) = Capacity THEN Tail(queue[c]) ELSE queue[c])
                            \o <<[stream |-> stream, sounds |-> Filled]>>]
             /\ lagged' = [c \in Clients |->
                    lagged[c] \/ (ok /\ Connected(c) /\ Len(queue[c]) = Capacity)]
      BY <1>3 DEF Packetize
    <2>3. [stream |-> stream, sounds |-> Filled] \in Packets
      <3>1. Filled \subseteq Sounds
        BY <1>3, PacketizeActs DEF Ordered
      <3>2. stream \in Headers
        BY PacketsAre DEF TypeOK
      <3> QED
        BY <3>1, <3>2 DEF Packets
    <2> DEFINE p == [stream |-> stream, sounds |-> Filled]
               Pushed(c) == (IF Len(queue[c]) = Capacity THEN Tail(queue[c]) ELSE queue[c]) \o <<p>>
    <2> HIDE DEF p
    <2>4. ASSUME NEW c \in Clients
          PROVE  Pushed(c) \in Seq(Packets) /\ Len(Pushed(c)) <= Capacity
      <3>1. queue[c] \in Seq(Packets) /\ Len(queue[c]) <= Capacity /\ p \in Packets
        BY <1>0, <2>3 DEF p
      <3> DEFINE r == Pushed(c)
      <3>2. r = (IF Len(queue[c]) = Capacity THEN Tail(queue[c]) ELSE queue[c]) \o <<p>>
        OBVIOUS
      <3> HIDE DEF r
      <3>3. r \in Seq(Packets) /\ Len(r) \in 1..Capacity
        BY <3>1, <3>2, PushedIs
      <3>4. Len(r) <= Capacity
        BY <3>3, BoundsAre
      <3> QED
        BY <3>3, <3>4 DEF r
    <2>5. \A c \in Clients : queue'[c] \in {queue[c], Pushed(c)}
      BY <1>0, <2>2 DEF p
    <2> HIDE DEF Pushed
    <2>6. queue' \in [Clients -> Seq(Packets)] /\ \A c \in Clients : Len(queue'[c]) <= Capacity
      <3>1. queue' = [c \in Clients |-> queue'[c]]
        BY <1>0, <2>2
      <3>2. \A c \in Clients : queue'[c] \in Seq(Packets) /\ Len(queue'[c]) <= Capacity
        BY <1>0, <2>4, <2>5
      <3> QED
        BY <3>1, <3>2
    <2>7. lagged' \in [Clients -> BOOLEAN]
      BY <1>0, <2>2
    <2> QED
      BY <1>0, <2>1, <2>6, <2>7
  <1>4. ASSUME NEW c \in Clients, Connect(c) \/ Task(c)
        PROVE  SourceTypes' /\ Thread' /\ ClientTypes'
    <2>1. UNCHANGED system /\ ClientTypes'
      BY <1>4, ClientActs DEF Ordered
    <2>2. SourceTypes' /\ Thread'
      BY <1>0, <2>1 DEF system, deviceVars, captureVars, SourceTypes, Thread, Due
    <2> QED
      BY <2>1, <2>2
  <1> QED
    BY <1>1, <1>2, <1>3, <1>4 DEF Next
-----------------------------------------------------------------------------
(***************************************************************************)
(* Headers come before their packets, one packet excepted.                 *)
(***************************************************************************)
Knows(c) ==
    /\ \A i \in DOMAIN queue[c] : queue[c][i].stream <= header
    /\ c \in Custom =>
         /\ (pc[c] \notin {"off", "first"} /\ ~newHeader[c]) => shown[c] = header
         /\ \/ ahead[c] = 0
            \/ ahead[c] = 1 /\ newHeader[c] /\ pc[c] \in {"packet", "select"}

\* A header reaches every client as a notice, and a packet of a stream comes after its
\* header was published.
LEMMA AnnouncedStep ==
    ASSUME TypeOK, Thread, Ordered, Announced, Next
    PROVE  Announced'
  <1>0. /\ \A c \in Clients : Knows(c) /\ queue[c] \in Seq(Packets)
        /\ header \in Nat /\ stream \in Nat /\ stream <= header
        /\ \A c \in Clients : \A i \in DOMAIN queue[c] : queue[c][i] \in Packets
    <2>1. header \in Nat /\ stream \in Nat /\ stream <= header
      BY PacketsAre, BoundsAre DEF TypeOK, Headers
    <2>2. \A c \in Clients : queue[c] \in Seq(Packets)
      BY DEF TypeOK
    <2>3. \A c \in Clients : \A i \in DOMAIN queue[c] : queue[c][i] \in Packets
      BY <2>2
    <2>4. \A c \in Clients : Knows(c)
      BY DEF Announced, Knows
    <2> QED
      BY <2>1, <2>2, <2>3, <2>4
  <1> SUFFICES ASSUME NEW c \in Clients
               PROVE  Knows(c)'
    BY DEF Announced, Knows
  <1>k. Knows(c)
    BY <1>0
  <1>1. CASE DefaultChanges \/ OnDefaultDeviceChanged \/ (AudioThread /\ ~PublishHeader)
    <2>1. UNCHANGED <<header, clientVars>>
      BY <1>1
      DEF DefaultChanges, OnDefaultDeviceChanged, AudioThread, DropStream, OpenDevice,
          BuildStream, AudioThreadFails
    <2> QED
      BY <1>k, <2>1 DEF Knows, clientVars
  <1>2. CASE PublishHeader
    <2>1. /\ header' = header + 1 /\ (pc[c] # "off" /\ c \in Custom => newHeader'[c])
          /\ UNCHANGED <<pc, queue, shown, ahead>>
      BY <1>2 DEF PublishHeader, Connected
    <2>2. \A i \in DOMAIN queue[c] : queue[c][i].stream \in Nat
      BY <1>0, PacketsAre
    <2> QED
      BY <1>0, <1>k, <2>1, <2>2 DEF Knows
  <1>3. ASSUME NEW n \in 1..MaxBlock, Capture(n)
        PROVE  Knows(c)'
    BY <1>k, <1>3 DEF Capture, clientVars, Knows
  <1>4. CASE Packetize
    <2>1. /\ UNCHANGED <<header, pc, newHeader, shown, ahead>>
          /\ \/ queue'[c] = queue[c]
             \/ queue'[c] = (IF Len(queue[c]) = Capacity THEN Tail(queue[c]) ELSE queue[c])
                               \o <<[stream |-> stream, sounds |-> Filled]>>
          /\ Filled \subseteq Sounds
      BY <1>4, PacketizeActs DEF Ordered
    <2> DEFINE p == [stream |-> stream, sounds |-> Filled]
               q == queue[c]
               r == queue'[c]
    <2>2. p \in Packets /\ p.stream = stream
      BY <2>1, PacketsAre DEF Packets, TypeOK
    <2>3. q \in Seq(Packets) /\ Len(q) <= Capacity
      BY DEF TypeOK
    <2>4. (\A i \in DOMAIN q : q[i].stream <= header) => \A i \in DOMAIN r : r[i].stream <= header
      <3>1. CASE r = q
        BY <3>1
      <3>2. CASE r = (IF Len(q) = Capacity THEN Tail(q) ELSE q) \o <<p>>
        <4> HIDE DEF p, q, r
        <4>1. PICK dropped \in {0, 1} :
                 /\ r \in Seq(Packets) /\ Len(r) \in 1..Capacity
                 /\ r[Len(r)] = p
                 /\ \A i \in 1..(Len(r) - 1) : i + dropped \in 1..Len(q) /\ r[i] = q[i + dropped]
          BY <2>2, <2>3, <3>2, PushedIs
        <4>2. \A i \in DOMAIN r : i \in 1..(Len(r) - 1) \/ i = Len(r)
          BY <4>1, BoundsAre
        <4> QED
          BY <1>0, <2>2, <2>3, <4>1, <4>2
      <3> QED
        BY <2>1, <3>1, <3>2
    <2> QED
      BY <1>k, <2>1, <2>4 DEF Knows
  <1>5. ASSUME NEW d \in Clients, Connect(d) \/ Task(d)
        PROVE  Knows(c)'
    <2>1. UNCHANGED header /\ Steps(d) /\ (c # d => Same(c))
      BY <1>5, ClientActs DEF Ordered, system
    <2>2. CASE Same(c)
      BY <1>k, <2>1, <2>2 DEF Knows, Same, Received, Sent, Waits
    <2>3. CASE c = d /\ Takes(c)
      <3>1. \A i \in DOMAIN queue'[c] : i + 1 \in DOMAIN queue[c] /\ queue'[c][i] = queue[c][i + 1]
        BY <1>0, <2>3, TailIs DEF Takes
      <3>2. Head(queue[c]).stream \in Nat /\ Head(queue[c]).stream <= header
        BY <1>0, <1>k, <2>3, TailIs, PacketsAre DEF Takes, Knows
      <3>3. ahead[c] \in Nat /\ shown[c] \in Nat /\ (c \in Custom => ahead[c] = 0)
        BY <1>k, <2>3, PacketsAre, BoundsAre DEF Takes, Knows, TypeOK, Headers
      <3>4. \A i \in DOMAIN queue'[c] : queue'[c][i].stream <= header'
        BY <1>k, <2>1, <3>1 DEF Knows
      <3> QED
        BY <1>k, <2>1, <2>3, <3>2, <3>3, <3>4 DEF Takes, Knows
    <2>4. CASE c = d /\ (Connects(c) \/ Leaves(c) \/ Updates(c) \/ Looks(c) \/ Overlooks(c)
                           \/ Writes(c))
      <3> USE DEF Received, Sent, Waits
      <3>1. CASE Connects(c)
        <4>1. c \in Custom => ahead[c] = 0
          BY <1>k, <3>1 DEF Connects, Knows
        <4> QED
          BY <1>k, <2>1, <3>1, <4>1 DEF Connects, Knows
      <3>2. CASE Leaves(c)
        BY <1>k, <2>1, <3>2 DEF Leaves, Knows
      <3>3. CASE Updates(c)
        BY <1>k, <2>1, <3>3 DEF Updates, Knows
      <3>4. CASE Looks(c)
        BY <1>k, <2>1, <3>4 DEF Looks, Knows
      <3>5. CASE Overlooks(c)
        BY <1>k, <2>1, <3>5 DEF Overlooks, Knows
      <3>6. CASE Writes(c)
        BY <1>k, <2>1, <3>6 DEF Writes, Again, Knows
      <3> QED
        BY <2>4, <3>1, <3>2, <3>3, <3>4, <3>5, <3>6
    <2> QED
      BY <2>1, <2>2, <2>3, <2>4 DEF Steps
  <1> QED
    BY <1>1, <1>2, <1>3, <1>4, <1>5 DEF Next, AudioThread

-----------------------------------------------------------------------------
(***************************************************************************)
(* Sounds are passed on in order.                                          *)
(***************************************************************************)
LEMMA SoundsAre ==
    ASSUME TypeOK, Thread
    PROVE  /\ captured - data \in Nat /\ captured \in Nat /\ data \in Nat
           /\ \A s \in buffer : s \in Nat /\ s > 0
           /\ \A c \in Clients :
                /\ queue[c] \in Seq(Packets) /\ Len(queue[c]) <= Capacity
                /\ \A i \in DOMAIN queue[c] :
                      queue[c][i].sounds \subseteq Sounds /\ queue[c][i].sounds \subseteq Queued(c)
                /\ packet[c] \in Packets /\ packet[c].sounds \subseteq Sounds
                /\ Queued(c) \subseteq Sounds /\ Past(c) \subseteq 0..MaxSound
                /\ heard[c] \in 0..MaxSound
  <1>1. captured - data \in Nat /\ captured \in Nat /\ data \in Nat
    BY BoundsAre DEF TypeOK, Thread
  <1>2. \A s \in buffer : s \in Nat /\ s > 0
    BY PacketsAre DEF TypeOK
  <1>3. ASSUME NEW c \in Clients
        PROVE  /\ queue[c] \in Seq(Packets) /\ Len(queue[c]) <= Capacity
               /\ \A i \in DOMAIN queue[c] :
                     queue[c][i].sounds \subseteq Sounds /\ queue[c][i].sounds \subseteq Queued(c)
               /\ packet[c] \in Packets /\ packet[c].sounds \subseteq Sounds
               /\ Queued(c) \subseteq Sounds /\ Past(c) \subseteq 0..MaxSound
               /\ heard[c] \in 0..MaxSound
    <2>1. /\ queue[c] \in Seq(Packets) /\ Len(queue[c]) <= Capacity
          /\ packet[c] \in Packets /\ heard[c] \in 0..MaxSound
      BY DEF TypeOK
    <2>2. \A i \in DOMAIN queue[c] : queue[c][i] \in Packets
      BY <2>1
    <2>3. \A i \in DOMAIN queue[c] : queue[c][i].sounds \subseteq Sounds
      BY <2>2, PacketsAre
    <2>4. packet[c].sounds \subseteq Sounds
      BY <2>1, PacketsAre
    <2>5. Sounds \subseteq 0..MaxSound
      BY BoundsAre DEF Sounds
    <2>6. \A i \in DOMAIN queue[c] : queue[c][i].sounds \subseteq Queued(c)
      BY DEF Queued
    <2>7. Queued(c) \subseteq Sounds
      BY <2>3 DEF Queued
    <2>8. Past(c) \subseteq 0..MaxSound
      BY <2>1, <2>4, <2>5 DEF Past
    <2> QED
      BY <2>1, <2>3, <2>4, <2>6, <2>7, <2>8
  <1> QED
    BY <1>1, <1>2, <1>3

\* When nothing is added to what a client has before it, the order of that and of the
\* buffer stays.
LEMMA OrderStays ==
    ASSUME TypeOK, Thread, NEW c \in Clients, OrderOf(c),
           Past(c)' \cup Queued(c)' \subseteq Past(c) \cup Queued(c),
           buffer' \subseteq buffer, captured' - data' \in Nat, captured' - data' >= captured - data
    PROVE  /\ Before(Past(c)' \cup Queued(c)', buffer')
           /\ \A s \in Past(c)' \cup Queued(c)' : s <= captured' - data'
  <1>1. \A s \in Past(c) \cup Queued(c) : s \in Nat /\ s <= captured - data
    BY SoundsAre, PacketsAre, BoundsAre DEF OrderOf
  <1>2. Before(Past(c)' \cup Queued(c)', buffer')
    BY DEF OrderOf, Before
  <1>3. captured - data \in Nat
    BY SoundsAre
  <1>4. ASSUME NEW s \in Past(c)' \cup Queued(c)'
        PROVE  s <= captured' - data'
    <2>1. s \in Nat /\ s <= captured - data
      BY <1>1
    <2> QED
      BY <1>3, <2>1
  <1> QED
    BY <1>2, <1>4

\* A client moves its sounds from the queue to its packet and on, in their order.
LEMMA OrderUnderClients ==
    ASSUME TypeOK, Thread, NEW c \in Clients, OrderOf(c), Steps(c),
           UNCHANGED <<captured, data, buffer>>
    PROVE  OrderOf(c)'
  <1> DEFINE Line == /\ Before(Past(c)', Queued(c)')
                     /\ Past(c)' \cup Queued(c)' \subseteq Past(c) \cup Queued(c)
             Shape == /\ pc'[c] = "off" => queue'[c] = <<>> /\ heard'[c] = 0 /\ ~lagged'[c]
                      /\ pc'[c] # "packet" => packet'[c] = NoPacket
                      /\ pc'[c] = "packet" => HasLast(packet'[c].sounds)
                      /\ \A i \in DOMAIN queue'[c] : HasLast(queue'[c][i].sounds)
                      /\ \A i, j \in DOMAIN queue'[c] :
                            i < j => Before(queue'[c][i].sounds, queue'[c][j].sounds)
  <1>0. captured - data \in Nat
    BY SoundsAre
  <1>1. Line /\ Shape => OrderOf(c)'
    <2> SUFFICES ASSUME Line, Shape PROVE OrderOf(c)'
      OBVIOUS
    <2>1. /\ Before(Past(c)' \cup Queued(c)', buffer')
          /\ \A s \in Past(c)' \cup Queued(c)' : s <= captured' - data'
      BY <1>0, OrderStays
    <2> QED
      BY <2>1 DEF OrderOf
  <1>2. CASE Leaves(c)
    <2>1. queue'[c] = <<>> /\ heard'[c] = 0 /\ ~lagged'[c] /\ packet'[c] = NoPacket /\ pc'[c] = "off"
      BY <1>2 DEF Leaves
    <2>2. Past(c)' = {0} /\ Queued(c)' = {}
      BY <2>1 DEF Past, Queued, NoPacket
    <2>3. Before({0}, buffer') /\ \A s \in {0} : s <= captured' - data'
      BY <1>0, SoundsAre DEF Before
    <2>4. Before({0}, {})
      BY DEF Before
    <2>5. Shape
      BY <2>1
    <2>6. {0} \cup {} = {0}
      OBVIOUS
    <2> QED
      BY <2>2, <2>3, <2>4, <2>5, <2>6 DEF OrderOf
  <1>3. CASE Connects(c) \/ Updates(c) \/ Looks(c) \/ Overlooks(c)
    <2>1. /\ queue'[c] = queue[c] /\ heard'[c] = heard[c] /\ packet'[c] = packet[c]
          /\ pc[c] # "packet" /\ pc'[c] \notin {"packet", "off"}
      BY <1>3 DEF Connects, Updates, Looks, Overlooks, Received, Sent, Waits
    <2>2. Past(c)' = Past(c) /\ Queued(c)' = Queued(c)
      BY <2>1 DEF Past, Queued
    <2>3. Line
      BY <2>2 DEF OrderOf
    <2>4. Shape
      BY <2>1 DEF OrderOf
    <2> QED
      BY <1>1, <2>3, <2>4
  <1>4. CASE Writes(c)
    <2>1. /\ queue'[c] = queue[c] /\ packet'[c] = NoPacket
          /\ heard'[c] \in Past(c) /\ pc'[c] \notin {"packet", "off"}
      <3>1. pc[c] = "packet" => Last(packet[c].sounds) \in packet[c].sounds
        BY SoundsAre, LastIsGreatest DEF OrderOf
      <3> QED
        BY <1>4, <3>1 DEF Writes, Received, Again, Past
    <2>2. Past(c)' = {heard'[c]} /\ Queued(c)' = Queued(c)
      BY <2>1 DEF Past, Queued, NoPacket
    <2>3. Line
      BY <2>1, <2>2 DEF OrderOf, Before
    <2>4. Shape
      BY <2>1 DEF OrderOf
    <2> QED
      BY <1>1, <2>3, <2>4
  <1>5. CASE Takes(c)
    <2>1. /\ pc[c] = "recv" /\ pc'[c] = "packet" /\ queue[c] # <<>>
          /\ packet'[c] = Head(queue[c]) /\ queue'[c] = Tail(queue[c]) /\ heard'[c] = heard[c]
      BY <1>5 DEF Takes
    <2>2. /\ packet'[c] = queue[c][1] /\ 1 \in DOMAIN queue[c]
          /\ \A i \in DOMAIN queue'[c] :
                i \in Nat /\ i + 1 \in DOMAIN queue[c] /\ 1 < i + 1 /\ queue'[c][i] = queue[c][i + 1]
      BY <2>1, SoundsAre, TailIs
    <2>3. packet'[c].sounds \subseteq Queued(c) /\ Queued(c)' \subseteq Queued(c)
      BY <2>2 DEF Queued
    <2>4. Past(c)' \subseteq {heard[c]} \cup packet'[c].sounds
      BY <2>1 DEF Past
    <2>5. Before(packet'[c].sounds, Queued(c)')
      <3> SUFFICES ASSUME NEW s \in packet'[c].sounds, NEW i \in DOMAIN queue'[c],
                          NEW t \in queue'[c][i].sounds
                   PROVE  s < t
        BY DEF Before, Queued
      <3>1. Before(queue[c][1].sounds, queue[c][i + 1].sounds)
        BY <2>2 DEF OrderOf
      <3> QED
        BY <2>2, <3>1 DEF Before
    <2>6. Line
      <3>1. heard[c] \in Past(c) /\ Before(Past(c), Queued(c))
        BY DEF Past, OrderOf
      <3>2. Before({heard[c]} \cup packet'[c].sounds, Queued(c)')
        BY <2>3, <2>5, <3>1 DEF Before
      <3> QED
        BY <2>3, <2>4, <3>1, <3>2 DEF Before
    <2>7. Shape
      <3>1. \A i, j \in DOMAIN queue'[c] :
               i < j => Before(queue'[c][i].sounds, queue'[c][j].sounds)
        <4> SUFFICES ASSUME NEW i \in DOMAIN queue'[c], NEW j \in DOMAIN queue'[c], i < j
                     PROVE  Before(queue'[c][i].sounds, queue'[c][j].sounds)
          OBVIOUS
        <4>1. i \in Nat /\ j \in Nat
          BY <2>2
        <4>2. i + 1 < j + 1
          BY <4>1
        <4> QED
          BY <2>2, <4>2 DEF OrderOf
      <3>2. \A i \in DOMAIN queue'[c] : HasLast(queue'[c][i].sounds)
        BY <2>2 DEF OrderOf
      <3>3. HasLast(packet'[c].sounds)
        BY <2>2 DEF OrderOf
      <3> QED
        BY <2>1, <3>1, <3>2, <3>3
    <2> QED
      BY <1>1, <2>6, <2>7
  <1> QED
    BY <1>2, <1>3, <1>4, <1>5 DEF Steps

\* What one turn of the loop does to the queue of a client.
LEMMA PushActs ==
    ASSUME TypeOK, Thread, Ordered, NEW c \in Clients, Packetize
    PROVE  \/ queue'[c] = queue[c] /\ lagged'[c] = lagged[c]
           \/ /\ pc[c] # "off" /\ buffer' = {} /\ skipped' = skipped
              /\ lagged'[c] = (lagged[c] \/ Len(queue[c]) = Capacity)
              /\ \E dropped \in {0, 1} :
                    /\ dropped = 1 <=> Len(queue[c]) = Capacity
                    /\ Len(queue'[c]) = Len(queue[c]) + 1 - dropped /\ Len(queue'[c]) \in Nat \ {0}
                    /\ DOMAIN queue'[c] = 1..Len(queue'[c]) /\ DOMAIN queue[c] = 1..Len(queue[c])
                    /\ queue'[c][Len(queue'[c])].sounds = Filled
                    /\ \A i \in DOMAIN queue'[c] :
                          i # Len(queue'[c]) =>
                             i + dropped \in DOMAIN queue[c] /\ queue'[c][i] = queue[c][i + dropped]
  <1>1. CASE queue'[c] = queue[c] /\ lagged'[c] = lagged[c]
    BY <1>1
  <1>2. CASE ~(queue'[c] = queue[c] /\ lagged'[c] = lagged[c])
    <2> DEFINE p == [stream |-> stream, sounds |-> Filled]
               q == queue[c]
               r == queue'[c]
    <2>1. /\ pc[c] # "off" /\ buffer' = {} /\ skipped' = skipped
          /\ r = (IF Len(q) = Capacity THEN Tail(q) ELSE q) \o <<p>>
          /\ lagged'[c] = (lagged[c] \/ Len(q) = Capacity)
          /\ Filled \subseteq Sounds
      BY <1>2, PacketizeActs DEF Ordered
    <2>2. p \in Packets /\ p.sounds = Filled
      BY <2>1, PacketsAre DEF Packets, TypeOK
    <2>3. q \in Seq(Packets) /\ Len(q) <= Capacity
      BY DEF TypeOK
    <2> HIDE DEF p, q, r
    <2>4. PICK dropped \in {0, 1} :
             /\ dropped = 1 <=> Len(q) = Capacity
             /\ r \in Seq(Packets) /\ Len(r) = Len(q) + 1 - dropped /\ Len(r) \in 1..Capacity
             /\ r[Len(r)] = p
             /\ \A i \in 1..(Len(r) - 1) : i + dropped \in 1..Len(q) /\ r[i] = q[i + dropped]
      BY <2>1, <2>2, <2>3, PushedIs
    <2>5. Len(r) \in Nat \ {0} /\ DOMAIN r = 1..Len(r) /\ DOMAIN q = 1..Len(q)
      BY <2>3, <2>4, BoundsAre
    <2>6. \A i \in DOMAIN r : i # Len(r) => i + dropped \in DOMAIN q /\ r[i] = q[i + dropped]
      BY <2>4, <2>5
    <2>7. r[Len(r)].sounds = Filled
      BY <2>2, <2>4
    <2> QED
      BY <2>1, <2>4, <2>5, <2>6, <2>7 DEF q, r
  <1> QED
    BY <1>1, <1>2

\* What is cut comes after whatever has been cut.
LEMMA FilledIsNew ==
    ASSUME TypeOK, Thread, Ordered, Packetize
    PROVE  /\ captured' - data' \in Nat /\ captured' - data' > captured - data
           /\ captured' = captured
           /\ buffer \subseteq Filled /\ HasLast(Filled) /\ Last(Filled) = captured' - data'
           /\ \A s \in Filled : s \in buffer \/ s > captured - data
           /\ \A s \in Filled : s \in Nat /\ s <= captured' - data'
           /\ \A s \in Sounds : s > captured - data /\ s <= captured' - data' => s \in Filled
           /\ \A c \in Clients : Before(Past(c) \cup Queued(c), Filled)
  <1>1. PICK n \in 1..data :
           /\ data' = data - n /\ HasLast(Filled) /\ Last(Filled) = captured - data + n
           /\ Filled = buffer \cup (captured - data + 1 .. captured - data + n)
    BY PacketizeActs DEF Ordered
  <1>2. captured' = captured /\ buffer \subseteq Filled /\ Filled \subseteq Sounds
    BY PacketizeActs DEF Ordered
  <1>3. captured - data \in Nat /\ data \in Nat /\ captured \in Nat /\ n \in Nat /\ n > 0 /\ n <= data
    BY SoundsAre
  <1>4. captured' - data' = captured - data + n
    BY <1>1, <1>2, <1>3
  <1> DEFINE old == captured - data
             now == captured' - data'
  <1>5. old \in Nat /\ now \in Nat /\ now = old + n /\ Filled = buffer \cup (old + 1 .. old + n)
        /\ (\A s \in buffer : s \in Nat /\ s <= old)
    BY <1>1, <1>3, <1>4, SoundsAre DEF Ordered
  <1> HIDE DEF old, now, Filled
  <1>6. /\ \A s \in Filled : s \in buffer \/ s > old
        /\ \A s \in Filled : s \in Nat /\ s <= now
        /\ \A s \in Sounds : s > old /\ s <= now => s \in Filled
        /\ now > old
    BY <1>3, <1>5, PacketsAre
  <1>7. ASSUME NEW c \in Clients
        PROVE  Before(Past(c) \cup Queued(c), Filled)
    <2>1. \A s \in Past(c) \cup Queued(c) : s \in Nat /\ s <= old
      <3>1. OrderOf(c)
        BY DEF Ordered
      <3>2. Queued(c) \subseteq Sounds /\ Past(c) \subseteq 0..MaxSound
        BY SoundsAre
      <3>3. \A s \in Past(c) \cup Queued(c) : s \in Nat
        BY <3>2, PacketsAre, BoundsAre
      <3> QED
        BY <3>1, <3>3 DEF OrderOf, old
    <2>2. Before(Past(c) \cup Queued(c), buffer)
      BY DEF Ordered, OrderOf
    <2> QED
      BY <1>5, <1>6, <2>1, <2>2 DEF Before
  <1> QED
    BY <1>1, <1>2, <1>4, <1>5, <1>6, <1>7 DEF old, now

\* A packet that is cut has newer sounds than all that were sent before.
LEMMA OrderUnderPacketize ==
    ASSUME TypeOK, Thread, Ordered, NEW c \in Clients, Packetize
    PROVE  OrderOf(c)'
  <1>0. /\ OrderOf(c)
        /\ UNCHANGED <<pc, packet, heard>>
        /\ \/ buffer' = Filled
           \/ buffer' = {}
    BY PacketizeActs DEF Ordered
  <1>1. Past(c)' = Past(c)
    BY <1>0 DEF Past
  <1>2. /\ captured - data \in Nat /\ captured' - data' \in Nat /\ captured' - data' > captured - data
        /\ \A s \in Past(c) \cup Queued(c) : s \in Nat /\ s <= captured - data
    BY <1>0, FilledIsNew, SoundsAre, PacketsAre, BoundsAre DEF OrderOf
  <1>3. CASE queue'[c] = queue[c] /\ lagged'[c] = lagged[c]
    <2>1. Queued(c)' = Queued(c)
      BY <1>3 DEF Queued
    <2>2. Before(Past(c) \cup Queued(c), buffer')
      BY <1>0, FilledIsNew DEF Before
    <2>3. \A s \in Past(c) \cup Queued(c) : s <= captured' - data'
      BY <1>2
    <2> QED
      BY <1>0, <1>1, <1>3, <2>1, <2>2, <2>3 DEF OrderOf
  <1>4. CASE ~(queue'[c] = queue[c] /\ lagged'[c] = lagged[c])
    <2> DEFINE q == queue[c]
               r == queue'[c]
    <2>1. PICK dropped \in {0, 1} :
             /\ Len(r) \in Nat \ {0}
             /\ DOMAIN r = 1..Len(r) /\ DOMAIN q = 1..Len(q)
             /\ r[Len(r)].sounds = Filled
             /\ \A i \in DOMAIN r : i # Len(r) => i + dropped \in DOMAIN q /\ r[i] = q[i + dropped]
      BY <1>4, PushActs
    <2>2. pc[c] # "off" /\ buffer' = {}
      BY <1>4, PushActs
    <2> HIDE DEF q, r, Filled
    <2>3. \A i \in DOMAIN q : HasLast(q[i].sounds) /\ q[i].sounds \subseteq Queued(c)
      BY <1>0, SoundsAre DEF OrderOf, q
    <2>4. HasLast(Filled) /\ Before(Past(c) \cup Queued(c), Filled)
          /\ \A s \in Filled : s <= captured' - data'
      BY FilledIsNew
    <2>5. \A i \in DOMAIN r : HasLast(r[i].sounds)
                              /\ r[i].sounds \subseteq Queued(c) \cup Filled
                              /\ (i # Len(r) => r[i].sounds \subseteq Queued(c))
      BY <2>1, <2>3, <2>4
    <2>6. ASSUME NEW i \in DOMAIN r, NEW j \in DOMAIN r, i < j
          PROVE  Before(r[i].sounds, r[j].sounds)
      <3>1. i # Len(r) /\ i \in Nat /\ j \in Nat
        BY <2>1, <2>6
      <3>2. CASE j = Len(r)
        BY <2>1, <2>4, <2>5, <3>1, <3>2 DEF Before
      <3>3. CASE j # Len(r)
        <4>1. /\ i + dropped \in DOMAIN q /\ r[i] = q[i + dropped]
              /\ j + dropped \in DOMAIN q /\ r[j] = q[j + dropped]
              /\ i + dropped < j + dropped
          BY <2>1, <2>6, <3>1, <3>3
        <4>2. Before(q[i + dropped].sounds, q[j + dropped].sounds)
          BY <1>0, <4>1 DEF OrderOf, q
        <4> QED
          BY <4>1, <4>2
      <3> QED
        BY <3>2, <3>3
    <2>7. Queued(c)' \subseteq Queued(c) \cup Filled
      BY <2>5 DEF Queued, r
    <2>8. Before(Past(c), Queued(c)')
      <3>1. Before(Past(c), Queued(c))
        BY <1>0 DEF OrderOf
      <3> QED
        BY <2>4, <2>7, <3>1 DEF Before
    <2>9. \A s \in Past(c) \cup Queued(c)' : s <= captured' - data'
      BY <1>2, <2>4, <2>7
    <2>10. Before(Past(c) \cup Queued(c)', buffer')
      BY <2>2 DEF Before
    <2>11. /\ pc'[c] = pc[c] /\ packet'[c] = packet[c] /\ heard'[c] = heard[c]
           /\ pc[c] # "packet" => packet[c] = NoPacket
           /\ pc[c] = "packet" => HasLast(packet[c].sounds)
      BY <1>0 DEF OrderOf
    <2> QED
      BY <1>1, <2>2, <2>5, <2>6, <2>8, <2>9, <2>10, <2>11 DEF OrderOf, r
  <1> QED
    BY <1>3, <1>4

\* All steps keep the order of sounds.
LEMMA OrderedStep ==
    ASSUME TypeOK, Thread, Ordered, Next
    PROVE  Ordered'
  <1>0. /\ captured - data \in Nat /\ \A s \in buffer : s \in Nat /\ s <= captured - data
        /\ SourceTypes
    BY SoundsAre, TypeParts DEF Ordered
  <1>1. CASE DefaultChanges \/ OnDefaultDeviceChanged \/ AudioThread
    <2>1. /\ captured' = captured /\ data' = data /\ buffer' \subseteq buffer
          /\ UNCHANGED <<pc, queue, lagged, packet, heard>>
      BY <1>0, <1>1, ThreadActs
    <2>2. ASSUME NEW c \in Clients
          PROVE  OrderOf(c)'
      <3>1. OrderOf(c) /\ Past(c)' = Past(c) /\ Queued(c)' = Queued(c)
        BY <2>1 DEF Ordered, Past, Queued
      <3>2. /\ Before(Past(c)' \cup Queued(c)', buffer')
            /\ \A s \in Past(c)' \cup Queued(c)' : s <= captured' - data'
        BY <1>0, <2>1, <3>1, OrderStays
      <3> QED
        BY <2>1, <3>1, <3>2 DEF OrderOf
    <2> QED
      BY <2>1, <2>2 DEF Ordered
  <1>2. ASSUME NEW n \in 1..MaxBlock, Capture(n)
        PROVE  Ordered'
    <2>1. /\ captured' - data' \in Nat /\ captured' - data' >= captured - data /\ buffer' = buffer
          /\ UNCHANGED <<pc, queue, lagged, packet, heard>>
      <3>1. /\ captured' - data' = captured - data \/ captured' - data' >= captured - data
            /\ SourceTypes' /\ Thread'
            /\ UNCHANGED <<buffer, pc, queue, lagged, packet, heard>>
        BY <1>2, CaptureActs
      <3>2. \A x \in 0..MaxSound, y \in 0..MaxBlock : y <= x => x - y \in Nat
        BY BoundsAre
      <3>3. captured' - data' \in Nat
        BY <3>1, <3>2 DEF SourceTypes, Thread
      <3>4. captured' - data' >= captured - data
        BY <1>0, <3>1, <3>3
      <3> QED
        BY <3>1, <3>3, <3>4
    <2>2. ASSUME NEW c \in Clients
          PROVE  OrderOf(c)'
      <3>1. OrderOf(c) /\ Past(c)' = Past(c) /\ Queued(c)' = Queued(c)
        BY <2>1 DEF Ordered, Past, Queued
      <3>2. /\ Before(Past(c)' \cup Queued(c)', buffer')
            /\ \A s \in Past(c)' \cup Queued(c)' : s <= captured' - data'
        BY <2>1, <3>1, OrderStays
      <3> QED
        BY <2>1, <3>1, <3>2 DEF OrderOf
    <2>3. \A s \in buffer' : s <= captured' - data'
      BY <1>0, <2>1
    <2> QED
      BY <2>2, <2>3 DEF Ordered
  <1>3. CASE Packetize
    <2>1. buffer' = Filled \/ buffer' = {}
      BY <1>3, PacketizeActs DEF Ordered
    <2>2. \A s \in buffer' : s <= captured' - data'
      BY <1>3, <2>1, FilledIsNew
    <2> QED
      BY <1>3, <2>2, OrderUnderPacketize DEF Ordered
  <1>4. ASSUME NEW d \in Clients, Connect(d) \/ Task(d)
        PROVE  Ordered'
    <2>1. UNCHANGED <<captured, data, buffer>> /\ Steps(d) /\ \A c \in Clients \ {d} : Same(c)
      BY <1>4, ClientActs DEF Ordered, system, captureVars
    <2>2. ASSUME NEW c \in Clients
          PROVE  OrderOf(c)'
      <3>1. CASE c = d
        BY <2>1, <3>1, OrderUnderClients DEF Ordered
      <3>2. CASE c # d
        <4>1. OrderOf(c) /\ Same(c)
          BY <2>1, <3>2 DEF Ordered
        <4>2. Past(c)' = Past(c) /\ Queued(c)' = Queued(c)
          BY <4>1 DEF Same, Received, Sent, Past, Queued
        <4> QED
          BY <2>1, <4>1, <4>2 DEF OrderOf, Same, Received, Sent, Waits
      <3> QED
        BY <3>1, <3>2
    <2> QED
      BY <2>1, <2>2 DEF Ordered
  <1> QED
    BY <1>1, <1>2, <1>3, <1>4 DEF Next

-----------------------------------------------------------------------------
(***************************************************************************)
(* No sound is missed.                                                     *)
(***************************************************************************)

\* What is in the buffer stays there, is queued, or is skipped.
LEMMA Kept ==
    ASSUME TypeOK, Thread, NEW c \in Clients, Covered(c), Missed(c),
           skipped \cup buffer \cup Queued(c) \subseteq skipped' \cup buffer' \cup Queued(c)',
           skipped \subseteq skipped',
           captured' - data' = captured - data,
           UNCHANGED <<pc, packet, heard>>, queue'[c] = queue[c], lagged'[c] = lagged[c]
    PROVE  Covered(c)' /\ Missed(c)'
  <1>1. From(c)' = From(c)
    BY DEF From
  <1>2. Covered(c)'
    BY <1>1 DEF Covered
  <1>3. Missed(c)'
    BY DEF Missed
  <1> QED
    BY <1>2, <1>3

\* A client has been sent nothing that has not been cut.
LEMMA FromIs ==
    ASSUME TypeOK, Thread, NEW c \in Clients, OrderOf(c)
    PROVE  From(c) \in Nat /\ From(c) <= captured - data
  <1>0. captured - data \in Nat /\ \A s \in Past(c) \cup Queued(c) : s <= captured - data
    BY SoundsAre DEF OrderOf
  <1>1. CASE pc[c] = "packet"
    <2>1. Last(packet[c].sounds) \in packet[c].sounds /\ Last(packet[c].sounds) \in Sounds
      BY <1>1, SoundsAre, LastIsGreatest DEF OrderOf
    <2> QED
      BY <1>0, <1>1, <2>1, PacketsAre DEF From, Past
  <1>2. CASE pc[c] # "packet" /\ heard[c] # 0
    <2>1. heard[c] \in Nat /\ heard[c] \in Past(c)
      BY SoundsAre, BoundsAre DEF Past
    <2> QED
      BY <1>0, <1>2, <2>1 DEF From
  <1>3. CASE pc[c] # "packet" /\ heard[c] = 0 /\ queue[c] # <<>>
    <2>1. 1 \in DOMAIN queue[c]
      BY <1>3, SoundsAre
    <2>2. Last(queue[c][1].sounds) \in queue[c][1].sounds /\ Last(queue[c][1].sounds) \in Sounds
      BY <2>1, SoundsAre, LastIsGreatest DEF OrderOf
    <2>3. Last(queue[c][1].sounds) \in Queued(c)
      BY <2>1, <2>2 DEF Queued
    <2> QED
      BY <1>0, <1>3, <2>2, <2>3, PacketsAre DEF From
  <1>4. CASE pc[c] # "packet" /\ heard[c] = 0 /\ queue[c] = <<>>
    BY <1>0, <1>4 DEF From
  <1> QED
    BY <1>1, <1>2, <1>3, <1>4

\* What is cut goes into the buffer, every queue or skipped; a queue that overruns sets
\* lagged.
LEMMA CoveredUnderPacketize ==
    ASSUME TypeOK, Thread, Ordered, NEW c \in Clients, Covered(c), Missed(c), Packetize
    PROVE  Covered(c)' /\ Missed(c)'
  <1>0. /\ UNCHANGED <<pc, packet, heard>>
        /\ \/ buffer' = Filled /\ skipped' = skipped /\ queue'[c] = queue[c] /\ lagged'[c] = lagged[c]
           \/ buffer' = {} /\ skipped' = skipped \cup Filled /\ queue'[c] = queue[c]
              /\ lagged'[c] = lagged[c]
           \/ buffer' = {} /\ skipped' = skipped
    BY PacketizeActs DEF Ordered
  <1>1. Missed(c)'
    BY <1>0 DEF Missed
  <1>2. OrderOf(c) /\ From(c) \in Nat /\ From(c) <= captured - data
    BY FromIs DEF Ordered
  <1> SUFFICES ASSUME pc[c] # "off", ~lagged'[c],
                      NEW s \in Sounds, From(c)' < s, s <= captured' - data'
               PROVE  s \in skipped' \cup buffer' \cup Queued(c)'
    BY <1>0, <1>1 DEF Covered
  <1>3. ~lagged[c] /\ (queue'[c] = queue[c] \/ Len(queue[c]) # Capacity)
    BY <1>0, PushActs DEF TypeOK
  <1>4. Filled \subseteq skipped' \cup buffer' \cup Queued(c)'
        /\ Queued(c) \subseteq Queued(c)'
    <2>1. CASE queue'[c] = queue[c]
      <3>1. Queued(c)' = Queued(c)
        BY <2>1 DEF Queued
      <3>2. Filled \subseteq skipped' \cup buffer' \cup Queued(c)'
        <4>1. CASE buffer' = Filled \/ skipped' = skipped \cup Filled
          BY <4>1
        <4>2. CASE ~(buffer' = Filled \/ skipped' = skipped \cup Filled)
          <5>1. queue'[c] # queue[c]
            <6>1. queue'[c] = (IF Len(queue[c]) = Capacity THEN Tail(queue[c]) ELSE queue[c])
                                 \o <<[stream |-> stream, sounds |-> Filled]>>
              BY <4>2, PacketizeActs DEF Ordered
            <6>2. Len(queue[c]) # Capacity => queue'[c] # queue[c]
              <7> DEFINE p == [stream |-> stream, sounds |-> Filled]
              <7>1. queue[c] \in Seq(Packets) /\ p \in Packets
                <8>1. Filled \subseteq Sounds /\ stream \in Headers
                  BY PacketizeActs, PacketsAre DEF Ordered, TypeOK
                <8> QED
                  BY <8>1, SoundsAre DEF Packets
              <7> HIDE DEF p
              <7>2. Len(queue[c] \o <<p>>) # Len(queue[c])
                BY <7>1
              <7> QED
                BY <6>1, <7>2 DEF p
            <6>3. lagged'[c] = (lagged[c] \/ Len(queue[c]) = Capacity)
              BY <4>2, PacketizeActs DEF Ordered
            <6> QED
              BY <6>2, <6>3
          <5> QED
            BY <2>1, <5>1
        <4> QED
          BY <4>1, <4>2
      <3> QED
        BY <3>1, <3>2
    <2>2. CASE queue'[c] # queue[c]
      <3> DEFINE q == queue[c]
                 r == queue'[c]
      <3>1. /\ Len(r) = Len(q) + 1 /\ Len(q) \in Nat
            /\ DOMAIN r = 1..Len(r) /\ DOMAIN q = 1..Len(q)
            /\ r[Len(r)].sounds = Filled
            /\ \A i \in DOMAIN r : i # Len(r) => r[i] = q[i]
        <4>1. PICK dropped \in {0, 1} :
                 /\ dropped = 1 <=> Len(q) = Capacity
                 /\ Len(r) = Len(q) + 1 - dropped
                 /\ DOMAIN r = 1..Len(r) /\ DOMAIN q = 1..Len(q)
                 /\ r[Len(r)].sounds = Filled
                 /\ \A i \in DOMAIN r :
                       i # Len(r) => i + dropped \in DOMAIN q /\ r[i] = q[i + dropped]
          BY <2>2, PushActs
        <4>2. dropped = 0 /\ Len(q) \in Nat
          BY <1>3, <2>2, <4>1, SoundsAre
        <4> QED
          BY <4>1, <4>2
      <3> HIDE DEF q, r, Filled
      <3>2. Len(r) \in DOMAIN r /\ \A i \in DOMAIN q : i \in DOMAIN r /\ r[i] = q[i]
        BY <3>1
      <3>3. \A i \in DOMAIN r : r[i].sounds \subseteq Queued(c)'
        BY DEF Queued, r
      <3>4. \A i \in DOMAIN q : q[i].sounds \subseteq Queued(c)'
        BY <3>2, <3>3
      <3>5. Filled \subseteq Queued(c)'
        BY <3>1, <3>2, <3>3
      <3> QED
        BY <3>4, <3>5 DEF Queued, q
    <2> QED
      BY <2>1, <2>2
  <1>5. CASE From(c)' = From(c)
    <2>1. CASE s <= captured - data
      <3>1. s \in skipped \cup buffer \cup Queued(c)
        BY <1>3, <1>5, <2>1 DEF Covered
      <3>2. buffer \subseteq Filled
        BY FilledIsNew
      <3> QED
        BY <1>0, <1>4, <3>1, <3>2
    <2>2. CASE ~(s <= captured - data)
      <3>1. s > captured - data
        BY <2>2, SoundsAre, PacketsAre
      <3>2. s \in Filled
        BY <3>1, FilledIsNew
      <3> QED
        BY <1>4, <3>2
    <2> QED
      BY <2>1, <2>2
  <1>6. CASE From(c)' # From(c)
    <2>1. pc[c] # "packet" /\ heard[c] = 0
      BY <1>0, <1>6 DEF From
    <2>2. From(c)' = captured' - data'
      <3>1. CASE queue'[c] = queue[c]
        BY <1>0, <1>6, <2>1, <3>1 DEF From
      <3>2. CASE queue'[c] # queue[c]
        <4>1. PICK dropped \in {0, 1} :
                 /\ dropped = 1 <=> Len(queue[c]) = Capacity
                 /\ Len(queue'[c]) = Len(queue[c]) + 1 - dropped
                 /\ DOMAIN queue'[c] = 1..Len(queue'[c])
                 /\ queue'[c][Len(queue'[c])].sounds = Filled
                 /\ \A i \in DOMAIN queue'[c] :
                       i # Len(queue'[c]) => queue'[c][i] = queue[c][i + dropped]
          BY <3>2, PushActs
        <4>2. dropped = 0 /\ Len(queue[c]) \in Nat
          BY <1>3, <3>2, <4>1, SoundsAre
        <4>3. CASE queue[c] # <<>>
          <5>1. 1 \in DOMAIN queue'[c] /\ 1 # Len(queue'[c]) /\ queue'[c][1] = queue[c][1]
            <6>1. Len(queue[c]) # 0
              BY <4>3, SoundsAre
            <6> QED
              BY <4>1, <4>2, <6>1
          <5>2. queue'[c] # <<>>
            BY <5>1
          <5>3. From(c)' = From(c)
            BY <1>0, <2>1, <4>3, <5>1, <5>2 DEF From
          <5> QED
            BY <1>6, <5>3
        <4>4. CASE queue[c] = <<>>
          <5>1. Len(queue'[c]) = 1 /\ 1 \in DOMAIN queue'[c] /\ queue'[c][1].sounds = Filled
            BY <4>1, <4>2, <4>4
          <5>2. queue'[c] # <<>>
            BY <5>1
          <5>3. From(c)' = Last(Filled)
            BY <1>0, <2>1, <5>1, <5>2 DEF From
          <5> QED
            BY <5>3, FilledIsNew
        <4> QED
          BY <4>3, <4>4
      <3> QED
        BY <3>1, <3>2
    <2> QED
      BY <2>2, FilledIsNew, PacketsAre
  <1> QED
    BY <1>5, <1>6

\* A client takes the oldest packet of its queue, so that no sound is left out between
\* two writes.
LEMMA CoveredUnderClients ==
    ASSUME TypeOK, Thread, NEW c \in Custom, OrderOf(c), Covered(c), Missed(c), Steps(c),
           UNCHANGED <<captured, data, buffer, skipped>>
    PROVE  Covered(c)' /\ Missed(c)'
  <1>0. c \in Clients
    BY DEF Clients
  <1>1. CASE Leaves(c)
    BY <1>1 DEF Leaves, Covered, Missed
  <1>2. CASE Connects(c)
    <2>1. heard'[c] = 0 /\ queue'[c] = <<>> /\ pc'[c] # "packet"
      BY <1>2 DEF Connects, Received, Sent, OrderOf
    <2>2. From(c)' = captured - data
      BY <2>1 DEF From
    <2>3. \A s \in Sounds : ~((captured - data) < s /\ s <= captured - data)
      BY SoundsAre, PacketsAre
    <2> QED
      BY <2>1, <2>2, <2>3 DEF Covered, Missed
  <1>3. CASE Updates(c) \/ Looks(c)
    <2>1. /\ queue'[c] = queue[c] /\ heard'[c] = heard[c] /\ lagged'[c] = lagged[c]
          /\ pc[c] \notin {"packet", "off"} /\ pc'[c] \notin {"packet", "off"}
      BY <1>3 DEF Updates, Looks, Received, Sent
    <2>2. From(c)' = From(c) /\ Queued(c)' = Queued(c)
      BY <2>1 DEF From, Queued
    <2> QED
      BY <2>1, <2>2 DEF Covered, Missed
  <1>4. CASE Writes(c)
    <2>1. /\ queue'[c] = queue[c] /\ lagged'[c] = lagged[c]
          /\ pc[c] \in {"header", "packet"} /\ pc'[c] \notin {"packet", "off"}
          /\ heard'[c] = (IF pc[c] = "packet" THEN Last(packet[c].sounds) ELSE heard[c])
      BY <1>4 DEF Writes, Received, Again
    <2>2. Queued(c)' = Queued(c)
      BY <2>1 DEF Queued
    <2>3. From(c)' = From(c)
      <3>1. CASE pc[c] = "packet"
        <4>1. Last(packet[c].sounds) \in Sounds
          BY <1>0, <3>1, SoundsAre, LastIsGreatest DEF OrderOf
        <4>2. heard'[c] # 0 /\ heard'[c] = Last(packet[c].sounds)
          BY <2>1, <3>1, <4>1, PacketsAre
        <4> QED
          BY <2>1, <3>1, <4>2 DEF From
      <3>2. CASE pc[c] = "header"
        BY <2>1, <3>2 DEF From
      <3> QED
        BY <2>1, <3>1, <3>2
    <2> QED
      BY <2>1, <2>2, <2>3 DEF Covered, Missed
  <1>5. CASE Takes(c)
    <2>1. /\ pc[c] = "recv" /\ pc'[c] = "packet" /\ ~lagged[c] /\ queue[c] # <<>>
          /\ packet'[c] = Head(queue[c]) /\ queue'[c] = Tail(queue[c]) /\ heard'[c] = heard[c]
          /\ skipped' = skipped /\ buffer' = buffer
      BY <1>5 DEF Takes
    <2>2. /\ packet'[c] = queue[c][1] /\ 1 \in DOMAIN queue[c]
          /\ \A i \in DOMAIN queue[c] :
                i = 1 \/ (1 < i /\ i - 1 \in DOMAIN queue'[c] /\ queue'[c][i - 1] = queue[c][i])
      <3>1. /\ queue[c] \in Seq(Packets) /\ Len(queue[c]) \in Nat \ {0}
            /\ packet'[c] = queue[c][1] /\ Len(queue'[c]) = Len(queue[c]) - 1
            /\ queue'[c] \in Seq(Packets)
            /\ \A i \in 1..(Len(queue[c]) - 1) : queue'[c][i] = queue[c][i + 1]
        BY <1>0, <2>1, SoundsAre, TailIs
      <3>2. ASSUME NEW i \in DOMAIN queue[c], i # 1
            PROVE  1 < i /\ i - 1 \in DOMAIN queue'[c] /\ queue'[c][i - 1] = queue[c][i]
        <4>1. i \in 2..Len(queue[c]) /\ i - 1 \in 1..(Len(queue[c]) - 1) /\ (i - 1) + 1 = i
          BY <3>1, <3>2
        <4>2. queue'[c][i - 1] = queue[c][(i - 1) + 1]
          BY <3>1, <4>1
        <4> QED
          BY <3>1, <4>1, <4>2
      <3> QED
        BY <3>1, <3>2
    <2> DEFINE first == queue[c][1].sounds
               last == Last(first)
    <2>3. last \in first /\ last \in Sounds /\ last \in Nat /\ (\A k \in first : k <= last)
          /\ last \in Queued(c) /\ last # 0
      <3>1. first \subseteq Sounds /\ HasLast(first) /\ first \subseteq Queued(c)
        BY <1>0, <2>2, SoundsAre DEF OrderOf
      <3> QED
        BY <3>1, LastIsGreatest, PacketsAre
    <2>4. From(c)' = last
      BY <2>1, <2>2 DEF From
    <2>5. ASSUME NEW s \in Queued(c)
          PROVE  s \in first \/ (last < s /\ s \in Queued(c)')
      <3>1. PICK i \in DOMAIN queue[c] : s \in queue[c][i].sounds
        BY DEF Queued
      <3>2. CASE i # 1
        <4>1. Before(first, queue[c][i].sounds)
          BY <2>2, <3>2 DEF OrderOf
        <4>2. i - 1 \in DOMAIN queue'[c] /\ s \in queue'[c][i - 1].sounds
          BY <2>2, <3>1, <3>2
        <4>3. s \in Queued(c)'
          BY <4>2 DEF Queued
        <4> QED
          BY <2>3, <3>1, <4>1, <4>3 DEF Before
      <3> QED
        BY <3>1, <3>2
    <2>6. /\ heard[c] \in Nat /\ last <= captured - data
          /\ From(c) = (IF heard[c] # 0 THEN heard[c] ELSE last)
          /\ heard[c] < last
      <3>1. heard[c] \in Past(c) /\ Before(Past(c), Queued(c)) /\ heard[c] \in Nat
        BY <1>0, SoundsAre, BoundsAre DEF OrderOf, Past
      <3>2. last <= captured - data
        BY <2>3 DEF OrderOf
      <3>3. From(c) = (IF heard[c] # 0 THEN heard[c] ELSE last)
        BY <2>1 DEF From
      <3> QED
        BY <2>3, <3>1, <3>2, <3>3 DEF Before
    <2>7. \A s \in buffer : last < s
      BY <2>3 DEF OrderOf, Before
    <2> HIDE DEF last, first
    <2>8. \A s \in Sounds : (From(c) < s /\ s <= captured - data) =>
             s \in skipped \cup buffer \cup Queued(c)
      BY <2>1 DEF Covered
    <2>9. Covered(c)'
      <3> SUFFICES ASSUME NEW s \in Sounds, last < s, s <= captured - data
                   PROVE  s \in skipped \cup buffer \cup Queued(c)'
        BY <2>1, <2>4 DEF Covered
      <3>1. From(c) < s
        <4>1. From(c) \in Nat /\ From(c) <= last /\ s \in Nat
          BY <2>3, <2>6, PacketsAre
        <4> QED
          BY <2>3, <4>1
      <3>2. s \notin first
        BY <2>3, PacketsAre
      <3> QED
        BY <2>5, <2>8, <3>1, <3>2
    <2>10. Missed(c)'
      <3> SUFFICES ASSUME heard[c] # 0, NEW s \in heard[c] + 1 .. last
                   PROVE  s \in first \cup skipped
        BY <2>1, <2>2 DEF Missed, first, last
      <3>1. s \in Nat /\ s \in Sounds /\ heard[c] < s /\ s <= last /\ s <= captured - data
        <4>1. s \in Nat /\ heard[c] < s /\ s <= last /\ s > 0
          BY <2>3, <2>6
        <4>2. last <= MaxSound /\ captured - data \in Nat
          BY <2>3, PacketsAre, SoundsAre
        <4> QED
          BY <2>3, <2>6, <4>1, <4>2, BoundsAre DEF Sounds
      <3>2. s \in skipped \cup buffer \cup Queued(c)
        BY <2>6, <2>8, <3>1
      <3>3. s \notin buffer /\ (s \in Queued(c) => s \in first)
        BY <2>3, <2>5, <2>7, <3>1
      <3> QED
        BY <3>2, <3>3
    <2> QED
      BY <2>9, <2>10
  <1>6. ~Overlooks(c)
    BY DEF Overlooks
  <1> QED
    BY <1>1, <1>2, <1>3, <1>4, <1>5, <1>6 DEF Steps

\* All steps keep a client's sounds covered.
LEMMA CoveredStep ==
    ASSUME TypeOK, Thread, Ordered, NEW c \in Custom, Covered(c), Missed(c), Next
    PROVE  Covered(c)' /\ Missed(c)'
  <1>0. c \in Clients /\ SourceTypes /\ OrderOf(c)
    BY TypeParts DEF Clients, Ordered
  <1>1. CASE DefaultChanges \/ OnDefaultDeviceChanged \/ AudioThread
    <2>1. /\ captured' - data' = captured - data
          /\ UNCHANGED <<pc, queue, lagged, packet, heard>>
          /\ skipped \cup buffer \subseteq skipped' \cup buffer' /\ skipped \subseteq skipped'
      BY <1>0, <1>1, ThreadActs
    <2>2. Queued(c)' = Queued(c)
      BY <2>1 DEF Queued
    <2> QED
      BY <1>0, <2>1, <2>2, Kept
  <1>2. ASSUME NEW n \in 1..MaxBlock, Capture(n)
        PROVE  Covered(c)' /\ Missed(c)'
    <2>1. /\ UNCHANGED <<buffer, pc, queue, lagged, packet, heard>>
          /\ \/ captured' - data' = captured - data /\ skipped' = skipped
             \/ skipped \subseteq skipped' /\ pc[c] = "off"
      BY <1>0, <1>2, CaptureActs
    <2>2. Queued(c)' = Queued(c)
      BY <2>1 DEF Queued
    <2>3. CASE captured' - data' = captured - data /\ skipped' = skipped
      BY <1>0, <2>1, <2>2, <2>3, Kept
    <2>4. CASE skipped \subseteq skipped' /\ pc[c] = "off"
      BY <2>1, <2>4 DEF Covered, Missed
    <2> QED
      BY <2>1, <2>3, <2>4
  <1>3. CASE Packetize
    BY <1>0, <1>3, CoveredUnderPacketize
  <1>4. ASSUME NEW d \in Clients, Connect(d) \/ Task(d)
        PROVE  Covered(c)' /\ Missed(c)'
    <2>1. /\ UNCHANGED <<captured, data, buffer, skipped>> /\ Steps(d)
          /\ \A e \in Clients \ {d} : Same(e)
      BY <1>4, ClientActs DEF Ordered, system, captureVars
    <2>2. CASE c = d
      BY <1>0, <2>1, <2>2, CoveredUnderClients
    <2>3. CASE c # d
      <3>1. Same(c)
        BY <1>0, <2>1, <2>3
      <3>2. Queued(c)' = Queued(c) /\ From(c)' = From(c)
        BY <2>1, <3>1 DEF Same, Received, Sent, Waits, Queued, From
      <3> QED
        BY <2>1, <3>1, <3>2 DEF Covered, Missed, Same, Received, Sent, Waits
    <2> QED
      BY <2>2, <2>3
  <1> QED
    BY <1>1, <1>2, <1>3, <1>4 DEF Next
-----------------------------------------------------------------------------
(***************************************************************************)
(* The theorems.                                                           *)
(***************************************************************************)
LEMMA InvInit == Init => Inv
  <1> SUFFICES ASSUME Init PROVE Inv
    OBVIOUS
  <1>1. SourceTypes /\ Thread
    BY ThreadInit
  <1>2. ClientTypes
    <2>1. <<>> \in Seq(Packets) /\ Len(<<>>) = 0
      OBVIOUS
    <2> QED
      BY <2>1, PacketsAre, BoundsAre DEF Init, ClientTypes
  <1>3. Announced
    <2>1. \A c \in Clients : queue[c] = <<>> /\ ahead[c] = 0 /\ pc[c] = "off"
      BY DEF Init
    <2> QED
      BY <2>1 DEF Announced
  <1>4. ASSUME NEW c \in Clients
        PROVE  OrderOf(c)
    <2>1. /\ queue[c] = <<>> /\ heard[c] = 0 /\ ~lagged[c] /\ pc[c] = "off" /\ packet[c] = NoPacket
          /\ buffer = {} /\ captured = 0 /\ data = 0
      BY <1>4 DEF Init
    <2>2. Past(c) = {0} /\ Queued(c) = {}
      BY <2>1 DEF Past, Queued, NoPacket
    <2> QED
      BY <2>1, <2>2 DEF OrderOf, Before
  <1>5. \A c \in Custom : Covered(c) /\ Missed(c)
    BY DEF Init, Covered, Missed, Clients
  <1>6. Ordered
    BY <1>4 DEF Ordered, Init
  <1> QED
    BY <1>1, <1>2, <1>3, <1>5, <1>6, TypeParts DEF Inv

\* All steps together.
LEMMA InvStep ==
    ASSUME Inv, [Next]_vars
    PROVE  Inv'
  <1> USE DEF Inv
  <1>1. CASE UNCHANGED vars
    <2> USE <1>1 DEF vars, deviceVars, captureVars, clientVars
    <2>1. TypeOK' /\ Thread'
      BY DEF TypeOK, Thread, Due
    <2>2. Announced'
      BY DEF Announced
    <2>3. Ordered'
      <3>1. \A c \in Clients : Past(c)' = Past(c) /\ Queued(c)' = Queued(c)
        BY DEF Past, Queued
      <3>2. \A c \in Clients : OrderOf(c)'
        BY <3>1 DEF Ordered, OrderOf
      <3> QED
        BY <3>2 DEF Ordered
    <2>4. \A c \in Custom : Covered(c)' /\ Missed(c)'
      BY DEF Covered, Missed, From, Queued
    <2> QED
      BY <2>1, <2>2, <2>3, <2>4
  <1>2. CASE Next
    <2>1. TypeOK' /\ Thread'
      BY <1>2, TypeStep, TypeParts
    <2>2. \A c \in Custom : Covered(c)' /\ Missed(c)'
      BY <1>2, CoveredStep
    <2> QED
      BY <1>2, <2>1, <2>2, AnnouncedStep, OrderedStep
  <1> QED
    BY <1>1, <1>2

\* What has been captured is in order, skipped or on its way, and every custom client
\* knows of the present header, whatever devices, callbacks and clients do.
THEOREM SoundIsOnItsWay == Spec => []Inv
  BY InvInit, InvStep, PTL DEF Spec

\* Every variable keeps its type: the packetizer never holds a whole packet, a queue
\* never more than the channel keeps.
THEOREM TypeCorrect == Spec => []TypeOK
  <1>1. Inv => TypeOK
    BY DEF Inv
  <1> QED
    BY <1>1, SoundIsOnItsWay, PTL

\* A client of the custom protocol misses no sound that was put into a packet, until it
\* is cut off: an overrun of the channel ends it rather than leave a gap.
THEOREM NothingMissed == Spec => []NothingIsMissed
  <1>1. Inv => NothingIsMissed
    BY DEF Inv, Missed, NothingIsMissed
  <1> QED
    BY <1>1, SoundIsOnItsWay, PTL

\* At most one packet overtakes the header of its stream, between the two branches of
\* the biased select.
THEOREM HeaderAtMostOneLate == Spec => []NeverTwoPacketsAhead
  <1>1. Inv => NeverTwoPacketsAhead
    BY DEF Inv, Announced, NeverTwoPacketsAhead, Clients
  <1> QED
    BY <1>1, SoundIsOnItsWay, PTL
=============================================================================
