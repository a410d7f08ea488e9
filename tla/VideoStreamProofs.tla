------------------------- MODULE VideoStreamProofs -------------------------
(***************************************************************************)
(* Theorems about VideoStream, for any clients, ring capacity and bounds:  *)
(* it implements VideoFeed, and a sample never runs two ahead of its       *)
(* Configure.  Each has an inductive invariant of its own; Ring says what  *)
(* the slots of the broadcast channel hold, Cursors where each receiver    *)
(* stands in it, Sessions how far codec data and samples may be apart.     *)
(***************************************************************************)
EXTENDS VideoStream, Integers, TLAPS

\* The ring holds the last Capacity samples and no other numbers.
Ring ==
    /\ tail >= 1
    /\ \A i \in 0 .. Capacity - 1 : ring[i].n < tail
    /\ \A n \in Nat : (n >= 1 /\ n < tail /\ tail <= n + Capacity) => Slot(n).n = n

\* A connected receiver wants a number its client does not have; a strict
\* one's client has everything before the number it wants, or is being
\* written the one sample in between.
Writing(c) == pc[c] = "write" /\ packet[c].kind = "video"
Cursor(c) ==
    /\ pc[c] # "off" => 1 <= next[c] /\ next[c] <= tail
    /\ Writing(c) =>
         /\ got[c] < packet[c].n /\ packet[c].n < next[c]
         /\ c \in Strict => next[c] = got[c] + 2
    /\ (pc[c] # "off" /\ ~Writing(c)) =>
         /\ got[c] < next[c]
         /\ c \in Strict => next[c] = got[c] + 1
Cursors == \A c \in Clients : Cursor(c)

Kept == TypeOK /\ Ring /\ Cursors

\* Nothing that was encoded is newer than the codec data published; a task of
\* the custom protocol that looks at the samples has configured its client with
\* the codec data it has seen, which are not older than the client's samples.
Configuring(c) == pc[c] = "write" /\ packet[c].kind = "configure"
CustomSessions(c) ==
    /\ gotSession[c] <= codecData /\ seen[c] <= codecData
    /\ Writing(c) => packet[c].session <= codecData
    /\ Configuring(c) => packet[c].session = seen[c] /\ seen[c] # 0
    /\ ~Configuring(c) => configured[c] = seen[c]
    /\ pc[c] \in {"select", "poll", "sleep"} => seen[c] # 0
    /\ pc[c] = "poll" \/ Writing(c) => seen[c] # 0 /\ gotSession[c] <= configured[c]
    /\ pc[c] # "recv"

Sessions ==
    /\ codecData <= session
    /\ encoder \in {"busy", "sample"} => session # 0
    /\ encoder = "sample" => codecData = session
    /\ \A i \in 0 .. Capacity - 1 : ring[i].session <= codecData
    /\ \A c \in Custom : CustomSessions(c)

Announced == Kept /\ Sessions
-----------------------------------------------------------------------------
(***************************************************************************)
(* The ring.                                                               *)
(***************************************************************************)
LEMMA CapacityType == Capacity \in Nat \ {0}
  BY ClientsAssumption

LEMMA DivMod ==
    ASSUME NEW k \in Nat \ {0}, NEW n \in Nat
    PROVE  n = k * (n \div k) + (n % k) /\ n % k \in 0 .. k - 1 /\ n \div k \in Int
  OBVIOUS

\* A multiple of k is not strictly between 0 and k.
LEMMA NoMultiple ==
    ASSUME NEW k \in Nat \ {0}, NEW q \in Int, 0 < k * q, k * q < k
    PROVE  FALSE
  <1>1. CASE q <= 0
    BY <1>1
  <1>2. CASE q >= 1
    <2>1. q \in Nat /\ q - 1 \in Nat
      BY <1>2
    <2>2. k * q = k * (q - 1) + k /\ k * (q - 1) >= 0
      BY <2>1
    <2> QED
      BY <2>1, <2>2
  <1> QED
    BY <1>1, <1>2

\* Two of k consecutive numbers have different slots.
LEMMA DifferentSlots ==
    ASSUME NEW k \in Nat \ {0}, NEW n \in Nat, NEW t \in Nat, n < t, t < n + k
    PROVE  n % k # t % k
  <1> SUFFICES ASSUME n % k = t % k PROVE FALSE
    OBVIOUS
  <1> DEFINE a == n \div k
             b == t \div k
  <1>1. n = k * a + (n % k) /\ t = k * b + (t % k) /\ n % k \in Int /\ a \in Int /\ b \in Int
    BY DivMod
  <1> HIDE DEF a, b
  <1>2. t - n = k * (b - a)
    BY <1>1
  <1> QED
    BY <1>1, <1>2, NoMultiple

LEMMA SlotIndex ==
    ASSUME NEW n \in Nat
    PROVE  n % Capacity \in 0 .. Capacity - 1
  BY CapacityType, DivMod

LEMMA SlotType ==
    ASSUME TypeOK, NEW n \in Nat
    PROVE  Slot(n) = ring[n % Capacity] /\ Slot(n) \in [n : Nat, session : Nat]
  BY SlotIndex DEF TypeOK, Slot

LEMMA RingInit == Init => Ring
  BY CapacityType DEF Init, Ring, NoSlot

LEMMA RingStep == TypeOK /\ Ring /\ [Next]_vars => Ring'
  <1> SUFFICES ASSUME TypeOK, Ring, [Next]_vars PROVE Ring'
    OBVIOUS
  <1>1. CASE UNCHANGED <<ring, tail>>
    BY <1>1 DEF Ring, Slot
  <1>2. CASE SendSample /\ Receivers # {}
    <2>1. /\ ring' = [ring EXCEPT ![tail % Capacity] = [n |-> tail, session |-> session]]
          /\ tail' = tail + 1
      BY <1>2 DEF SendSample
    <2>2. tail \in Nat /\ tail % Capacity \in 0 .. Capacity - 1
      BY SlotIndex DEF TypeOK
    <2>3. ASSUME NEW i \in 0 .. Capacity - 1 PROVE ring'[i].n < tail'
      BY <2>1, <2>2 DEF TypeOK, Ring
    <2>4. ASSUME NEW n \in Nat, n >= 1, n < tail', tail' <= n + Capacity
          PROVE  Slot(n)'.n = n
      <3>1. n % Capacity \in 0 .. Capacity - 1
        BY SlotIndex
      <3>2. CASE n = tail
        BY <3>2, <2>1, <2>2 DEF TypeOK, Slot
      <3>3. CASE n < tail
        <4>1. n % Capacity # tail % Capacity
          <5>1. tail < n + Capacity
            BY <2>1, <2>2, <2>4, CapacityType
          <5> QED
            BY <5>1, <3>3, <2>2, CapacityType, DifferentSlots
        <4>2. Slot(n)' = Slot(n)
          BY <4>1, <3>1, <2>1 DEF TypeOK, Slot
        <4> QED
          BY <4>2, <3>3, <2>1, <2>2, <2>4, CapacityType DEF Ring
      <3> QED
        BY <3>2, <3>3, <2>1, <2>2, <2>4
    <2> QED
      BY <2>1, <2>2, <2>3, <2>4 DEF Ring
  <1> QED
    BY <1>1, <1>2 DEF Next, vars, producerVars, Producer, OpenEncoder, StartFrame,
       ReceivePacket, SendSample, FrameDone, EncoderFails, Connect, Task, ConfigureClient,
       CodecDataClosed, ConfigureAgain, PassCodecData, TakeSample, LagCloses,
       LagSkips, Sleep, Wake, WriteTimestamp, WriteDone, WriteFails,
       WriteFailsWebRtc, Done, Close
-----------------------------------------------------------------------------
(***************************************************************************)
(* Types.  The bound on next needs the ring.                               *)
(***************************************************************************)
LEMMA TypeInit == Init => TypeOK
  BY CapacityType DEF Init, TypeOK, NoSlot, NoPacket, Packets

LEMMA CloseType ==
    ASSUME TypeOK, NEW c \in Clients, Close(c)
    PROVE  TypeOK'
  BY DEF Close, TypeOK, NoPacket, Packets, producerVars

LEMMA TypeStep == TypeOK /\ Ring /\ Cursors /\ [Next]_vars => TypeOK'
  <1> SUFFICES ASSUME TypeOK, Ring, Cursors, [Next]_vars PROVE TypeOK'
    OBVIOUS
  <1> USE DEF TypeOK, Packets
  <1>1. CASE OpenEncoder
    BY <1>1 DEF OpenEncoder, Source!OpenEncoder, clientVars
  <1>2. CASE StartFrame
    BY <1>2 DEF StartFrame, Source!StartFrame, clientVars
  <1>3. CASE ReceivePacket
    BY <1>3 DEF ReceivePacket, Source!ReceivePacket, clientVars
  <1>4. CASE SendSample
    <2>1. tail % Capacity \in 0 .. Capacity - 1
      BY SlotIndex
    <2>2. [n |-> tail, session |-> session] \in [n : Nat, session : Nat]
      OBVIOUS
    <2>3. ring' \in [0 .. Capacity - 1 -> [n : Nat, session : Nat]]
      BY <1>4, <2>1, <2>2 DEF SendSample
    <2> QED
      BY <1>4, <2>3 DEF SendSample, Source!SendSample, clientVars
  <1>5. CASE FrameDone \/ EncoderFails
    BY <1>5 DEF FrameDone, Source!FrameDone, EncoderFails, Source!EncoderFails, clientVars
  <1>6. ASSUME NEW c \in Clients, Connect(c) PROVE TypeOK'
    <2>1. tail - 1 \in Nat
      BY DEF Ring
    <2>2. TimestampPacket \in Packets
      BY DEF TimestampPacket
    <2>3. packet' \in [Clients -> Packets]
      BY <1>6, <2>2 DEF Connect, Write
    <2>4. /\ pc' \in [Clients -> {"off", "wait", "select", "poll", "sleep", "recv", "write"}]
          /\ next' = [next EXCEPT ![c] = tail]
          /\ got' = [got EXCEPT ![c] = tail - 1]
          /\ UNCHANGED <<producerVars, seen, gotSession, configured>>
      BY <1>6 DEF Connect, Write, GoTo, FirstWanted
    <2>5. next' \in [Clients -> Nat] /\ \A d \in Clients : next'[d] <= tail
      BY <2>4
    <2>6. got' \in [Clients -> Nat]
      BY <2>1, <2>4
    <2> QED
      BY <2>3, <2>4, <2>5, <2>6 DEF producerVars
  <1>7. ASSUME NEW c \in Clients, ConfigureClient(c) PROVE TypeOK'
    BY <1>7 DEF ConfigureClient, producerVars, Write, ConfigurePacket
  <1>8. ASSUME NEW c \in Clients, CodecDataClosed(c) PROVE TypeOK'
    BY <1>8, CloseType DEF CodecDataClosed
  <1>9. ASSUME NEW c \in Clients, ConfigureAgain(c) PROVE TypeOK'
    BY <1>9 DEF ConfigureAgain, producerVars, Write, ConfigurePacket
  <1>10. ASSUME NEW c \in Clients, PassCodecData(c) PROVE TypeOK'
    BY <1>10 DEF PassCodecData, producerVars, GoTo
  <1>11. ASSUME NEW c \in Clients, TakeSample(c) PROVE TypeOK'
    <2>1. next[c] \in Nat /\ Slot(next[c]) \in [n : Nat, session : Nat]
      BY SlotType
    <2>2. next[c] < tail
      BY <1>11, <2>1, SlotType, SlotIndex DEF TakeSample, HasSample, Ring
    <2>3. VideoPacket(Slot(next[c])) \in Packets
      BY <2>1 DEF VideoPacket
    <2>4. /\ next' = [next EXCEPT ![c] = next[c] + 1]
          /\ packet' = [packet EXCEPT ![c] = VideoPacket(Slot(next[c]))]
          /\ pc' = [pc EXCEPT ![c] = "write"]
          /\ UNCHANGED <<producerVars, seen, got, gotSession, configured>>
      BY <1>11 DEF TakeSample, Write
    <2>5. next' \in [Clients -> Nat] /\ \A d \in Clients : next'[d] <= tail
      BY <2>1, <2>2, <2>4
    <2>6. packet' \in [Clients -> Packets]
      BY <2>3, <2>4
    <2> QED
      BY <2>4, <2>5, <2>6 DEF producerVars
  <1>12. ASSUME NEW c \in Clients, LagCloses(c) PROVE TypeOK'
    BY <1>12, CloseType DEF LagCloses
  <1>13. ASSUME NEW c \in Clients, LagSkips(c) PROVE TypeOK'
    <2>1. Oldest \in Nat /\ Oldest <= tail
      BY CapacityType DEF Oldest, Ring
    <2>2. /\ next' = [next EXCEPT ![c] = Oldest]
          /\ UNCHANGED <<producerVars, pc, seen, packet, got, gotSession, configured>>
      BY <1>13 DEF LagSkips
    <2> QED
      BY <2>1, <2>2 DEF producerVars
  <1>14. ASSUME NEW c \in Clients, Sleep(c) PROVE TypeOK'
    BY <1>14 DEF Sleep, producerVars, GoTo
  <1>15. ASSUME NEW c \in Clients, Wake(c) PROVE TypeOK'
    BY <1>15 DEF Wake, producerVars, GoTo
  <1>16. ASSUME NEW c \in Clients, WriteTimestamp(c) PROVE TypeOK'
    BY <1>16 DEF WriteTimestamp, producerVars, Write, TimestampPacket
  <1>17. ASSUME NEW c \in Clients, WriteDone(c) PROVE TypeOK'
    BY <1>17 DEF WriteDone, producerVars, GoTo, NoPacket
  <1>18. ASSUME NEW c \in Clients, WriteFails(c) PROVE TypeOK'
    BY <1>18, CloseType DEF WriteFails
  <1>19. ASSUME NEW c \in Clients, WriteFailsWebRtc(c) PROVE TypeOK'
    BY <1>19 DEF WriteFailsWebRtc, producerVars, GoTo, NoPacket
  <1>20. ASSUME NEW c \in Clients, Done(c) PROVE TypeOK'
    BY <1>20, CloseType DEF Done
  <1>21. CASE UNCHANGED vars
    BY <1>21 DEF vars, producerVars, clientVars
  <1> QED
    BY <1>1, <1>2, <1>3, <1>4, <1>5, <1>6, <1>7, <1>8, <1>9, <1>10, <1>11, <1>12, <1>13, <1>14, <1>15, <1>16, <1>17, <1>18, <1>19, <1>20, <1>21 DEF Next, Producer, Task
-----------------------------------------------------------------------------
(***************************************************************************)
(* Cursors.                                                                *)
(***************************************************************************)
cursorVars == <<pc, next, packet, got>>

\* More samples do not disturb a cursor.
LEMMA CursorStays ==
    ASSUME TypeOK, Cursors, NEW d \in Clients, tail' \in Nat, tail <= tail',
           pc'[d] = pc[d], next'[d] = next[d], packet'[d] = packet[d], got'[d] = got[d]
    PROVE  Cursor(d)'
  BY DEF TypeOK, Cursors, Cursor, Writing

LEMMA ClosedCursor ==
    ASSUME TypeOK, Cursors, NEW c \in Clients, Close(c)
    PROVE  Cursors'
  <1> SUFFICES ASSUME NEW d \in Clients PROVE Cursor(d)'
    BY DEF Cursors
  <1>1. CASE d = c
    BY <1>1 DEF Close, TypeOK, Cursor, Writing
  <1>2. CASE d # c
    <2>1. /\ tail' \in Nat /\ tail <= tail' /\ pc'[d] = pc[d] /\ next'[d] = next[d]
          /\ packet'[d] = packet[d] /\ got'[d] = got[d]
      BY <1>2 DEF Close, TypeOK, producerVars
    <2> QED
      BY <2>1, CursorStays
  <1> QED
    BY <1>1, <1>2

\* A task that does not write a sample keeps its cursor while it moves on.
LEMMA MovedCursor ==
    ASSUME TypeOK, Cursors, NEW c \in Clients, pc[c] # "off", ~Writing(c),
           NEW place \in {"wait", "select", "poll", "sleep", "recv", "write"},
           NEW p \in Packets, p.kind # "video",
           pc' = [pc EXCEPT ![c] = place], packet' = [packet EXCEPT ![c] = p],
           UNCHANGED <<tail, next, got>>
    PROVE  Cursors'
  <1> SUFFICES ASSUME NEW d \in Clients PROVE Cursor(d)'
    BY DEF Cursors
  <1>1. CASE d = c
    BY <1>1 DEF TypeOK, Cursors, Cursor, Writing
  <1>2. CASE d # c
    <2>1. /\ tail' \in Nat /\ tail <= tail' /\ pc'[d] = pc[d] /\ next'[d] = next[d]
          /\ packet'[d] = packet[d] /\ got'[d] = got[d]
      BY <1>2 DEF TypeOK
    <2> QED
      BY <2>1, CursorStays
  <1> QED
    BY <1>1, <1>2

LEMMA CursorsInit == Init => Cursors
  BY DEF Init, Cursors, Cursor, Writing

LEMMA CursorsStep == TypeOK /\ Ring /\ Cursors /\ [Next]_vars => Cursors'
  <1> SUFFICES ASSUME TypeOK, Ring, Cursors, [Next]_vars PROVE Cursors'
    OBVIOUS
  <1>1. CASE Producer \/ UNCHANGED vars
    <2>1. tail' \in Nat /\ tail <= tail' /\ UNCHANGED cursorVars
      BY <1>1 DEF Producer, vars, producerVars, clientVars, cursorVars, TypeOK, OpenEncoder,
         StartFrame, ReceivePacket, SendSample, FrameDone, EncoderFails
    <2> QED
      BY <2>1, CursorStays DEF Cursors, cursorVars
  <1>2. ASSUME NEW c \in Clients, Connect(c) PROVE Cursors'
    <2> SUFFICES ASSUME NEW d \in Clients PROVE Cursor(d)'
      BY DEF Cursors
    <2>1. CASE d = c
      <3>1. tail \in Nat /\ tail >= 1
        BY DEF TypeOK, Ring
      <3>2. /\ next'[c] = tail /\ got'[c] = tail - 1 /\ tail' = tail
            /\ pc'[c] = "write" => packet'[c].kind # "video"
            /\ pc'[c] # "off"
        BY <1>2 DEF Connect, Write, GoTo, TimestampPacket, FirstWanted, TypeOK, producerVars
      <3> QED
        BY <2>1, <3>1, <3>2 DEF Cursor, Writing
    <2>2. CASE d # c
      <3>1. /\ tail' \in Nat /\ tail <= tail' /\ pc'[d] = pc[d] /\ next'[d] = next[d]
            /\ packet'[d] = packet[d] /\ got'[d] = got[d]
        BY <1>2, <2>2 DEF Connect, Write, GoTo, TypeOK, producerVars
      <3> QED
        BY <3>1, CursorStays
    <2> QED
      BY <2>1, <2>2
  <1>3. ASSUME NEW c \in Clients,
               CodecDataClosed(c) \/ LagCloses(c) \/ WriteFails(c) \/ Done(c)
        PROVE  Cursors'
    BY <1>3, ClosedCursor DEF CodecDataClosed, LagCloses, WriteFails, Done
  <1>4. ASSUME NEW c \in Clients, ConfigureClient(c) \/ ConfigureAgain(c) \/ WriteTimestamp(c)
        PROVE  Cursors'
    <2>1. PICK p \in Packets : p.kind # "video" /\ Write(c, p)
      BY <1>4 DEF ConfigureClient, ConfigureAgain, WriteTimestamp, ConfigurePacket,
         TimestampPacket, Packets, TypeOK
    <2> QED
      BY <1>4, <2>1, MovedCursor DEF ConfigureClient, ConfigureAgain, WriteTimestamp, Write,
         Writing, producerVars
  <1>5. ASSUME NEW c \in Clients, PassCodecData(c) \/ Sleep(c) \/ Wake(c)
        PROVE  Cursors'
    <2>1. PICK place \in {"select", "poll", "sleep"} :
             pc[c] \in {"select", "poll", "sleep"} /\ GoTo(c, place)
      BY <1>5 DEF PassCodecData, Sleep, Wake
    <2> SUFFICES ASSUME NEW d \in Clients PROVE Cursor(d)'
      BY DEF Cursors
    <2>2. UNCHANGED <<tail, next, packet, got>>
      BY <1>5 DEF PassCodecData, Sleep, Wake, producerVars
    <2>3. CASE d = c
      BY <2>1, <2>2, <2>3 DEF GoTo, TypeOK, Cursors, Cursor, Writing
    <2>4. CASE d # c
      <3>1. /\ tail' \in Nat /\ tail <= tail' /\ pc'[d] = pc[d] /\ next'[d] = next[d]
            /\ packet'[d] = packet[d] /\ got'[d] = got[d]
        BY <2>1, <2>2, <2>4 DEF GoTo, TypeOK
      <3> QED
        BY <3>1, CursorStays
    <2> QED
      BY <2>3, <2>4
  <1>6. ASSUME NEW c \in Clients, TakeSample(c) PROVE Cursors'
    <2> SUFFICES ASSUME NEW d \in Clients PROVE Cursor(d)'
      BY DEF Cursors
    <2>1. next[c] \in Nat /\ Slot(next[c]).n = next[c] /\ next[c] < tail
      <3>1. next[c] \in Nat /\ Slot(next[c]) = ring[next[c] % Capacity]
        BY SlotType DEF TypeOK
      <3> QED
        BY <1>6, <3>1, SlotIndex DEF TakeSample, HasSample, Ring
    <2>2. /\ pc' = [pc EXCEPT ![c] = "write"] /\ pc[c] \in {"poll", "recv"}
          /\ next' = [next EXCEPT ![c] = next[c] + 1]
          /\ packet' = [packet EXCEPT ![c] = VideoPacket(Slot(next[c]))]
          /\ UNCHANGED <<tail, got>>
      BY <1>6 DEF TakeSample, Write, producerVars
    <2>3. CASE d = c
      <3>1. Cursor(c) /\ ~Writing(c)
        BY <2>2 DEF Cursors, Writing
      <3>2. packet'[c].kind = "video" /\ packet'[c].n = next[c]
        BY <2>1, <2>2 DEF VideoPacket, TypeOK
      <3>3. next'[c] = next[c] + 1 /\ pc'[c] = "write"
        BY <2>2 DEF TypeOK
      <3> QED
        BY <2>1, <2>2, <2>3, <3>1, <3>2, <3>3 DEF Cursor, Writing, TypeOK
    <2>4. CASE d # c
      <3>1. /\ tail' \in Nat /\ tail <= tail' /\ pc'[d] = pc[d] /\ next'[d] = next[d]
            /\ packet'[d] = packet[d] /\ got'[d] = got[d]
        BY <2>2, <2>4 DEF TypeOK
      <3> QED
        BY <3>1, CursorStays
    <2> QED
      BY <2>3, <2>4
  <1>7. ASSUME NEW c \in Clients, LagSkips(c) PROVE Cursors'
    <2> SUFFICES ASSUME NEW d \in Clients PROVE Cursor(d)'
      BY DEF Cursors
    <2>1. /\ pc[c] \in {"poll", "recv"} /\ c \notin Strict
          /\ next' = [next EXCEPT ![c] = Oldest]
          /\ UNCHANGED <<tail, pc, packet, got>>
      BY <1>7 DEF LagSkips, LagEnds, producerVars
    <2>2. next[c] \in Nat /\ next[c] >= 1 /\ next[c] < tail /\ Slot(next[c]).n # next[c]
      BY <1>7, <2>1 DEF LagSkips, Lagged, TypeOK, Cursors, Cursor
    <2>3. Oldest \in Nat /\ next[c] < Oldest /\ Oldest <= tail
      <3>1. ~(tail <= next[c] + Capacity)
        BY <2>2 DEF Ring
      <3> QED
        BY <2>2, <3>1, CapacityType DEF Oldest, TypeOK
    <2>4. CASE d = c
      BY <2>1, <2>2, <2>3, <2>4 DEF TypeOK, Cursors, Cursor, Writing
    <2>5. CASE d # c
      <3>1. /\ tail' \in Nat /\ tail <= tail' /\ pc'[d] = pc[d] /\ next'[d] = next[d]
            /\ packet'[d] = packet[d] /\ got'[d] = got[d]
        BY <2>1, <2>5 DEF TypeOK
      <3> QED
        BY <3>1, CursorStays
    <2> QED
      BY <2>4, <2>5
  <1>8. ASSUME NEW c \in Clients, WriteDone(c) PROVE Cursors'
    <2> SUFFICES ASSUME NEW d \in Clients PROVE Cursor(d)'
      BY DEF Cursors
    <2>1. PICK place \in {"recv", "wait", "select"} : pc' = [pc EXCEPT ![c] = place]
      BY <1>8 DEF WriteDone, GoTo
    <2>2. /\ pc[c] = "write"
          /\ got' = [got EXCEPT ![c] = IF packet[c].kind = "video" THEN packet[c].n ELSE got[c]]
          /\ packet' = [packet EXCEPT ![c] = NoPacket]
          /\ UNCHANGED <<tail, next>>
      BY <1>8 DEF WriteDone, producerVars
    <2>3. CASE d = c
      BY <2>1, <2>2, <2>3 DEF TypeOK, Packets, Cursors, Cursor, Writing
    <2>4. CASE d # c
      <3>1. /\ tail' \in Nat /\ tail <= tail' /\ pc'[d] = pc[d] /\ next'[d] = next[d]
            /\ packet'[d] = packet[d] /\ got'[d] = got[d]
        BY <2>1, <2>2, <2>4 DEF TypeOK
      <3> QED
        BY <3>1, CursorStays
    <2> QED
      BY <2>3, <2>4
  <1>9. ASSUME NEW c \in Clients, WriteFailsWebRtc(c) PROVE Cursors'
    <2> SUFFICES ASSUME NEW d \in Clients PROVE Cursor(d)'
      BY DEF Cursors
    <2>1. /\ pc[c] = "write" /\ c \notin Strict
          /\ pc' = [pc EXCEPT ![c] = "recv"]
          /\ packet' = [packet EXCEPT ![c] = NoPacket]
          /\ UNCHANGED <<tail, next, got>>
      BY <1>9, ClientsAssumption DEF WriteFailsWebRtc, GoTo, producerVars, Strict
    <2>2. CASE d = c
      BY <2>1, <2>2 DEF TypeOK, Packets, Cursors, Cursor, Writing
    <2>3. CASE d # c
      <3>1. /\ tail' \in Nat /\ tail <= tail' /\ pc'[d] = pc[d] /\ next'[d] = next[d]
            /\ packet'[d] = packet[d] /\ got'[d] = got[d]
        BY <2>1, <2>3 DEF TypeOK
      <3> QED
        BY <3>1, CursorStays
    <2> QED
      BY <2>2, <2>3
  <1> QED
    BY <1>1, <1>2, <1>3, <1>4, <1>5, <1>6, <1>7, <1>8, <1>9 DEF Next, Task
-----------------------------------------------------------------------------
LEMMA KeptAlways == Spec => []Kept
  <1>1. Init => Kept
    BY TypeInit, RingInit, CursorsInit DEF Kept
  <1>2. Kept /\ [Next]_vars => Kept'
    BY TypeStep, RingStep, CursorsStep DEF Kept
  <1> QED
    BY <1>1, <1>2, PTL DEF Spec

\* Every variable has its type and no receiver waits for a number beyond the
\* next one to be sent, for any ring and any clients (run stream_feed).
THEOREM TypeCorrect == Spec => []TypeOK
  BY KeptAlways, PTL DEF Kept

(***************************************************************************)
(* The refinement of VideoFeed.                                            *)
(***************************************************************************)
LEMMA FeedInitially == Init => Feed!FeedInit
  BY DEF Init, Feed!FeedInit, Receivers

\* The end of a task is the client's leaving.
LEMMA CloseLeaves ==
    ASSUME TypeOK, NEW c \in Clients, pc[c] # "off", Close(c)
    PROVE  Feed!Leave(c)
  BY DEF Close, Feed!Leave, Receivers, TypeOK, producerVars

LEMMA FeedStep == Kept /\ [Next]_vars => [Feed!FeedNext]_(Feed!feedVars)
  <1> SUFFICES ASSUME TypeOK, Ring, Cursors, Next
               PROVE  Feed!FeedNext \/ UNCHANGED Feed!feedVars
    BY DEF Kept, vars, producerVars, clientVars, Feed!feedVars, Receivers
  <1>1. CASE OpenEncoder \/ StartFrame \/ ReceivePacket \/ FrameDone \/ EncoderFails
    BY <1>1 DEF OpenEncoder, StartFrame, ReceivePacket, FrameDone, EncoderFails, clientVars,
       Feed!feedVars, Receivers
  <1>2. CASE SendSample
    <2>1. UNCHANGED <<Receivers, got>>
      BY <1>2 DEF SendSample, clientVars, Receivers
    <2>2. CASE Receivers = {}
      BY <1>2, <2>1, <2>2 DEF SendSample, Feed!feedVars
    <2>3. CASE Receivers # {}
      <3>1. tail' = tail + 1 /\ tail - 1 < MaxSamples
        BY <1>2, <2>3, ClientsAssumption DEF SendSample, TypeOK, Ring
      <3>2. Feed!Make
        BY <2>1, <3>1 DEF Feed!Make, TypeOK
      <3> QED
        BY <3>2 DEF Feed!FeedNext
    <2> QED
      BY <2>2, <2>3
  <1>3. ASSUME NEW c \in Clients, Connect(c) PROVE Feed!FeedNext
    <2>1. /\ c \notin Receivers
          /\ got' = [got EXCEPT ![c] = tail - 1]
          /\ tail' = tail
      BY <1>3 DEF Connect, Receivers, producerVars
    <2>2. Receivers' = Receivers \cup {c}
      <3>1. PICK place \in {"write", "recv"} : pc' = [pc EXCEPT ![c] = place]
        BY <1>3 DEF Connect, Write, GoTo
      <3> QED
        BY <3>1 DEF Receivers, TypeOK
    <2> QED
      BY <2>1, <2>2 DEF Feed!Join, Feed!FeedNext
  <1>4. ASSUME NEW c \in Clients,
               CodecDataClosed(c) \/ LagCloses(c) \/ WriteFails(c) \/ Done(c)
        PROVE  Feed!FeedNext
    <2>1. pc[c] # "off" /\ Close(c)
      BY <1>4 DEF CodecDataClosed, LagCloses, WriteFails, Done
    <2> QED
      BY <2>1, CloseLeaves DEF Feed!FeedNext
  <1>5. ASSUME NEW c \in Clients,
               \/ ConfigureClient(c) \/ ConfigureAgain(c) \/ PassCodecData(c)
               \/ TakeSample(c) \/ LagSkips(c) \/ Sleep(c) \/ Wake(c)
               \/ WriteTimestamp(c) \/ WriteFailsWebRtc(c)
        PROVE  UNCHANGED Feed!feedVars
    <2>1. UNCHANGED <<tail, got>>
      BY <1>5 DEF ConfigureClient, ConfigureAgain, PassCodecData, TakeSample, LagSkips,
         Sleep, Wake, WriteTimestamp, WriteFailsWebRtc, producerVars
    <2>2. UNCHANGED Receivers
      <3>1. PICK place \in {"recv", "wait", "select", "poll", "sleep", "write"} :
               pc[c] # "off" /\ (UNCHANGED pc \/ pc' = [pc EXCEPT ![c] = place])
        BY <1>5 DEF ConfigureClient, ConfigureAgain, PassCodecData, TakeSample, LagSkips,
           Sleep, Wake, WriteTimestamp, WriteFailsWebRtc, Write, GoTo
      <3> QED
        BY <3>1 DEF Receivers, TypeOK
    <2> QED
      BY <2>1, <2>2 DEF Feed!feedVars
  <1>6. ASSUME NEW c \in Clients, WriteDone(c)
        PROVE  Feed!FeedNext \/ UNCHANGED Feed!feedVars
    <2>1. UNCHANGED Receivers /\ c \in Receivers
      <3>1. PICK place \in {"recv", "wait", "select"} :
               pc[c] # "off" /\ pc' = [pc EXCEPT ![c] = place]
        BY <1>6 DEF WriteDone, GoTo
      <3> QED
        BY <3>1 DEF Receivers, TypeOK
    <2>2. /\ pc[c] = "write" /\ tail' = tail
          /\ got' = [got EXCEPT ![c] = IF packet[c].kind = "video" THEN packet[c].n ELSE got[c]]
      BY <1>6 DEF WriteDone, producerVars
    <2>3. CASE Writing(c)
      <3>1. Cursor(c) /\ packet[c].n \in Nat /\ got[c] \in Nat /\ next[c] \in Nat /\ tail \in Nat
        BY DEF Cursors, TypeOK, Packets
      <3>2. /\ packet[c].n \in got[c] + 1 .. tail - 1
            /\ c \in Strict => packet[c].n = got[c] + 1
        BY <2>3, <3>1 DEF Cursor, Writing
      <3>3. got' = [got EXCEPT ![c] = packet[c].n]
        BY <2>2, <2>3 DEF Writing
      <3> QED
        BY <2>1, <2>2, <3>2, <3>3 DEF Feed!See, Feed!FeedNext
    <2>4. CASE ~Writing(c)
      <3>1. got' = got
        BY <2>2, <2>4 DEF Writing, TypeOK
      <3> QED
        BY <2>1, <2>2, <3>1 DEF Feed!feedVars
    <2> QED
      BY <2>3, <2>4
  <1> QED
    BY <1>1, <1>2, <1>3, <1>4, <1>5, <1>6 DEF Next, Producer, Task

\* The connections keep the promise of VideoFeed: in order, each sample once,
\* and no gap for a client of a TCP protocol, whatever the size of the ring and
\* however slow the clients are (run stream_feed).
THEOREM FeedKept == Spec => FeedIsKept
  <1>1. Spec => Feed!FeedInit /\ [][Feed!FeedNext]_(Feed!feedVars)
    BY KeptAlways, FeedInitially, FeedStep, PTL DEF Spec
  <1> QED
    BY <1>1 DEF FeedIsKept, Feed!FeedSpec
-----------------------------------------------------------------------------
(***************************************************************************)
(* Sessions.                                                               *)
(***************************************************************************)
LEMMA CustomIsClient ==
    ASSUME NEW c \in Custom
    PROVE  c \in Clients /\ c \notin WebRtc
  BY ClientsAssumption DEF Clients

LEMMA SessionsInit == Init => Sessions
  <1> SUFFICES ASSUME Init PROVE Sessions
    OBVIOUS
  <1>1. codecData <= session /\ encoder \notin {"busy", "sample"}
    BY DEF Init
  <1>2. \A i \in 0 .. Capacity - 1 : ring[i].session <= codecData
    BY DEF Init, NoSlot
  <1>3. ASSUME NEW c \in Custom PROVE CustomSessions(c)
    BY CustomIsClient DEF Init, CustomSessions, Writing, Configuring
  <1> QED
    BY <1>1, <1>2, <1>3 DEF Sessions

\* Newer codec data do not disturb a task.
LEMMA SessionStays ==
    ASSUME TypeOK, Sessions, NEW d \in Custom, codecData' \in Nat, codecData <= codecData',
           pc'[d] = pc[d], seen'[d] = seen[d], packet'[d] = packet[d],
           gotSession'[d] = gotSession[d], configured'[d] = configured[d]
    PROVE  CustomSessions(d)'
  <1>1. CustomSessions(d) /\ codecData \in Nat
    BY DEF Sessions, TypeOK
  <1>2. /\ d \in Clients /\ gotSession[d] \in Nat /\ seen[d] \in Nat
        /\ packet[d].session \in Nat
    BY CustomIsClient DEF TypeOK, Packets
  <1> QED
    BY <1>1, <1>2 DEF CustomSessions, Writing, Configuring

\* A step of client c keeps Sessions when it keeps what Sessions says of c.
LEMMA SessionOf ==
    ASSUME TypeOK, Sessions, NEW c \in Clients, UNCHANGED producerVars,
           \A d \in Clients \ {c} :
               /\ pc'[d] = pc[d] /\ seen'[d] = seen[d] /\ packet'[d] = packet[d]
               /\ gotSession'[d] = gotSession[d] /\ configured'[d] = configured[d],
           c \in Custom => CustomSessions(c)'
    PROVE  Sessions'
  <1>1. ASSUME NEW d \in Custom PROVE CustomSessions(d)'
    <2>1. CASE d = c
      BY <2>1
    <2>2. CASE d # c
      <3>1. /\ codecData' \in Nat /\ codecData <= codecData' /\ pc'[d] = pc[d]
            /\ seen'[d] = seen[d] /\ packet'[d] = packet[d]
            /\ gotSession'[d] = gotSession[d] /\ configured'[d] = configured[d]
        BY <2>2, CustomIsClient DEF TypeOK, producerVars
      <3> QED
        BY <3>1, SessionStays
    <2> QED
      BY <2>1, <2>2
  <1> QED
    BY <1>1 DEF Sessions, producerVars

LEMMA SessionsOfClosed ==
    ASSUME TypeOK, Sessions, NEW c \in Clients, Close(c)
    PROVE  Sessions'
  <1>1. \A d \in Clients \ {c} :
            /\ pc'[d] = pc[d] /\ seen'[d] = seen[d] /\ packet'[d] = packet[d]
            /\ gotSession'[d] = gotSession[d] /\ configured'[d] = configured[d]
    BY DEF Close, TypeOK
  <1>2. /\ pc'[c] = "off" /\ seen'[c] = 0 /\ gotSession'[c] = 0 /\ configured'[c] = 0
        /\ codecData' \in Nat
    BY DEF Close, TypeOK, producerVars
  <1>3. CustomSessions(c)'
    BY <1>2 DEF CustomSessions, Writing, Configuring
  <1> QED
    BY <1>1, <1>3, SessionOf DEF Close

LEMMA SessionsStep == Announced /\ [Next]_vars => Sessions'
  <1> SUFFICES ASSUME TypeOK, Ring, Sessions, [Next]_vars PROVE Sessions'
    BY DEF Announced, Kept
  <1>1. CASE \/ UNCHANGED vars \/ OpenEncoder \/ StartFrame \/ ReceivePacket
             \/ FrameDone \/ EncoderFails
    <2>1. /\ codecData' \in Nat /\ codecData <= codecData' /\ codecData' <= session'
          /\ encoder' \in {"busy", "sample"} => session' # 0
          /\ encoder' = "sample" => codecData' = session'
          /\ UNCHANGED <<ring, clientVars>>
      BY <1>1 DEF vars, producerVars, OpenEncoder, Source!OpenEncoder, StartFrame,
         Source!StartFrame, ReceivePacket, Source!ReceivePacket, FrameDone,
         Source!FrameDone, EncoderFails, Source!EncoderFails, TypeOK, Sessions
    <2>2. ASSUME NEW i \in 0 .. Capacity - 1 PROVE ring'[i].session <= codecData'
      <3>1. ring[i].session \in Nat /\ ring[i].session <= codecData /\ codecData \in Nat
        BY DEF TypeOK, Sessions
      <3> QED
        BY <2>1, <3>1
    <2>3. ASSUME NEW d \in Custom PROVE CustomSessions(d)'
      BY <2>1, SessionStays DEF clientVars
    <2> QED
      BY <2>1, <2>2, <2>3 DEF Sessions
  <1>2. CASE SendSample
    <2>1. /\ session # 0 /\ codecData = session /\ encoder' = "busy"
          /\ UNCHANGED <<session, codecData, clientVars>>
      BY <1>2 DEF SendSample, Source!SendSample, Sessions
    <2>2. ASSUME NEW i \in 0 .. Capacity - 1 PROVE ring'[i].session <= codecData'
      <3>1. ring'[i] = ring[i] \/ ring'[i] = [n |-> tail, session |-> session]
        BY <1>2, SlotIndex DEF SendSample, TypeOK
      <3> QED
        BY <3>1, <2>1 DEF TypeOK, Sessions
    <2>3. ASSUME NEW d \in Custom PROVE CustomSessions(d)'
      BY <2>1, SessionStays DEF clientVars, TypeOK
    <2> QED
      BY <2>1, <2>2, <2>3 DEF Sessions
  <1>3. ASSUME NEW c \in Clients,
               CodecDataClosed(c) \/ LagCloses(c) \/ WriteFails(c) \/ Done(c)
        PROVE  Sessions'
    BY <1>3, SessionsOfClosed DEF CodecDataClosed, LagCloses, WriteFails, Done
  <1> DEFINE Others(c) ==
               \A d \in Clients \ {c} :
                   /\ pc'[d] = pc[d] /\ seen'[d] = seen[d] /\ packet'[d] = packet[d]
                   /\ gotSession'[d] = gotSession[d] /\ configured'[d] = configured[d]
  <1>4. ASSUME NEW c \in Clients, Connect(c) PROVE Sessions'
    <2>1. Others(c) /\ UNCHANGED producerVars
      BY <1>4 DEF Connect, Write, GoTo, TypeOK
    <2>2. ASSUME c \in Custom PROVE CustomSessions(c)'
      <3>1. /\ pc[c] = "off" /\ pc'[c] = "write" /\ packet'[c].kind = "timestamp"
            /\ UNCHANGED <<codecData, seen, gotSession, configured>>
        BY <1>4, <2>2 DEF Connect, Write, TimestampPacket, TypeOK, producerVars
      <3> QED
        BY <2>2, <3>1 DEF Sessions, CustomSessions, Writing, Configuring
    <2> QED
      BY <2>1, <2>2, SessionOf
  <1>5. ASSUME NEW c \in Clients, ConfigureClient(c) \/ ConfigureAgain(c) PROVE Sessions'
    <2>1. Others(c) /\ UNCHANGED producerVars
      BY <1>5 DEF ConfigureClient, ConfigureAgain, Write, TypeOK
    <2>2. ASSUME c \in Custom PROVE CustomSessions(c)'
      <3>1. /\ pc'[c] = "write" /\ packet'[c].kind = "configure"
            /\ packet'[c].session = codecData /\ seen'[c] = codecData
            /\ UNCHANGED <<codecData, gotSession, configured>>
        BY <1>5 DEF ConfigureClient, ConfigureAgain, Write, ConfigurePacket, TypeOK, producerVars
      <3>2. codecData # 0
        BY <1>5, <2>2 DEF ConfigureClient, ConfigureAgain, TypeOK, Sessions, CustomSessions
      <3>3. codecData \in Nat
        BY DEF TypeOK
      <3> QED
        BY <2>2, <3>1, <3>2, <3>3 DEF Sessions, CustomSessions, Writing, Configuring
    <2> QED
      BY <2>1, <2>2, SessionOf
  <1>6. ASSUME NEW c \in Clients, PassCodecData(c) \/ Sleep(c) \/ Wake(c) PROVE Sessions'
    <2>1. Others(c) /\ UNCHANGED producerVars
      BY <1>6 DEF PassCodecData, Sleep, Wake, GoTo, TypeOK
    <2>2. ASSUME c \in Custom PROVE CustomSessions(c)'
      <3>1. /\ pc[c] \in {"select", "poll", "sleep"} /\ pc'[c] \in {"select", "poll", "sleep"}
            /\ pc'[c] = "poll" => seen[c] = codecData
            /\ UNCHANGED <<codecData, seen, packet, gotSession, configured>>
        BY <1>6 DEF PassCodecData, CodecDataPending, Sleep, Wake, GoTo, TypeOK, producerVars
      <3> QED
        BY <2>2, <3>1 DEF Sessions, CustomSessions, Writing, Configuring
    <2> QED
      BY <2>1, <2>2, SessionOf
  <1>7. ASSUME NEW c \in Clients, WriteTimestamp(c) PROVE Sessions'
    <2>1. Others(c) /\ UNCHANGED producerVars
      BY <1>7 DEF WriteTimestamp, Write, TypeOK
    <2>2. ASSUME c \in Custom PROVE CustomSessions(c)'
      <3>1. /\ pc[c] = "poll" /\ pc'[c] = "write" /\ packet'[c].kind = "timestamp"
            /\ UNCHANGED <<codecData, seen, gotSession, configured>>
        BY <1>7 DEF WriteTimestamp, Write, TimestampPacket, TypeOK, producerVars
      <3> QED
        BY <2>2, <3>1 DEF Sessions, CustomSessions, Writing, Configuring
    <2> QED
      BY <2>1, <2>2, SessionOf
  <1>8. ASSUME NEW c \in Clients, TakeSample(c) PROVE Sessions'
    <2>1. Others(c) /\ UNCHANGED producerVars
      BY <1>8 DEF TakeSample, Write, TypeOK
    <2>2. ASSUME c \in Custom PROVE CustomSessions(c)'
      <3>1. /\ pc[c] \in {"poll", "recv"} /\ pc'[c] = "write" /\ packet'[c].kind = "video"
            /\ packet'[c].session = Slot(next[c]).session
            /\ UNCHANGED <<codecData, seen, gotSession, configured>>
        BY <1>8 DEF TakeSample, Write, VideoPacket, TypeOK, producerVars
      <3>2. Slot(next[c]).session <= codecData
        <4>1. next[c] \in Nat /\ Slot(next[c]) = ring[next[c] % Capacity]
          BY SlotType DEF TypeOK
        <4> QED
          BY <4>1, SlotIndex DEF Sessions
      <3> QED
        BY <2>2, <3>1, <3>2 DEF Sessions, CustomSessions, Writing, Configuring
    <2> QED
      BY <2>1, <2>2, SessionOf
  <1>9. ASSUME NEW c \in Clients, LagSkips(c) PROVE Sessions'
    BY <1>9, SessionStays DEF LagSkips, Sessions, producerVars, TypeOK
  <1>10. ASSUME NEW c \in Clients, WriteDone(c) PROVE Sessions'
    <2>1. Others(c) /\ UNCHANGED producerVars
      BY <1>10 DEF WriteDone, GoTo, TypeOK
    <2>2. ASSUME c \in Custom PROVE CustomSessions(c)'
      <3>1. /\ pc[c] = "write" /\ UNCHANGED <<codecData, seen>>
            /\ gotSession'[c] = IF packet[c].kind = "video" THEN packet[c].session
                                ELSE gotSession[c]
            /\ configured'[c] = IF packet[c].kind = "configure" THEN packet[c].session
                                ELSE configured[c]
        BY <1>10 DEF WriteDone, TypeOK, producerVars
      <3>2. pc'[c] = IF seen[c] = 0 THEN "wait" ELSE "select"
        BY <1>10, <2>2 DEF WriteDone, GoTo, TypeOK
      <3> QED
        BY <2>2, <3>1, <3>2 DEF Sessions, CustomSessions, Writing, Configuring
    <2> QED
      BY <2>1, <2>2, SessionOf
  <1>11. ASSUME NEW c \in Clients, WriteFailsWebRtc(c) PROVE Sessions'
    <2>1. Others(c) /\ UNCHANGED producerVars
      BY <1>11 DEF WriteFailsWebRtc, GoTo, TypeOK
    <2> QED
      BY <1>11, <2>1, CustomIsClient, SessionOf DEF WriteFailsWebRtc
  <1> QED
    BY <1>1, <1>2, <1>3, <1>4, <1>5, <1>6, <1>7, <1>8, <1>9, <1>10, <1>11
       DEF Next, Producer, Task

\* However codec data and samples race through their two channels, the packet
\* written to a client of the custom protocol after an overtaking sample is
\* never another sample (run stream_feed).
THEOREM ConfigureCatchesUp == Spec => []NeverTwoSamplesAhead
  <1>1. Init => Sessions
    BY SessionsInit
  <1>2. Announced /\ [Next]_vars /\ Kept' => Announced'
    BY SessionsStep DEF Announced
  <1>3. Announced => NeverTwoSamplesAhead
    <2> SUFFICES ASSUME Announced, NEW c \in Custom, Writing(c)
                 PROVE  configured[c] # 0 /\ gotSession[c] <= configured[c]
      BY DEF NeverTwoSamplesAhead, Writing
    <2> QED
      BY DEF Announced, Sessions, CustomSessions, Writing, Configuring
  <1>4. Kept /\ Sessions => Announced
    BY DEF Announced
  <1> QED
    BY <1>1, <1>2, <1>3, <1>4, KeptAlways, PTL DEF Spec
=============================================================================
