-------------------------- MODULE RtspSessionProofs --------------------------
(***************************************************************************)
(* Theorems about RtspSession, for any messages, any pieces they arrive    *)
(* in, and any capacity of the channel: types, that messages are kept      *)
(* apart, and that samples follow PLAY.  What has not been consumed, the   *)
(* buffer and the wire, is one line of parts; WellFormed says that the     *)
(* messages in it are whole, but for a beginning already consumed, and in  *)
(* their order, Front that this beginning is what handle_conn takes it     *)
(* for, Answers and Samples what has been written so far.                  *)
(***************************************************************************)
EXTENDS RtspSession, SequenceTheorems, TLAPS

Line == buffer \o wire

Starts(p) == p.part \in {"$", "head"}
Rank(p) == CASE Starts(p) -> 0 [] p.part \in {"end", "frame"} -> 1 [] OTHER -> 2
Precedes(p, q) == p.n < q.n \/ (p.n = q.n /\ Rank(p) < Rank(q))

\* The last part of a message, or what comes after it.
Ends(p, msg) == p.part \in {"frame", "body"} \/ (p.part = "end" /\ ~msg.body)
After(p) ==
    Part(CASE p.part = "$" -> "frame" [] p.part = "head" -> "end" [] OTHER -> "body", p.n)

\* Parts s of the messages in msgs, in order and without a gap but before the first.
InOrder(s) == \A i, j \in DOMAIN s : i < j => Precedes(s[i], s[j])
PartOfOne(p, msgs) == p.n \in DOMAIN msgs /\ (p.part = "body" => msgs[p.n].body)
GoesOn(s, i, msgs) ==
    IF Ends(s[i], msgs[s[i].n]) THEN i = Len(s) \/ Starts(s[i + 1])
    ELSE i < Len(s) /\ s[i + 1] = After(s[i])
WellFormed(s, msgs) ==
    /\ InOrder(s)
    /\ \A i \in DOMAIN s : PartOfOne(s[i], msgs) /\ GoesOn(s, i, msgs)

\* What comes next is what handle_conn expects, and later than the request it answers.
Front ==
    at # "over" =>
        /\ CASE at = "frame" -> Line # <<>> /\ Line[1].part = "frame"
             [] at = "body" -> Line # <<>> /\ Line[1].part = "body" /\ Line[1].n = request
             [] OTHER -> Line = <<>> \/ Starts(Line[1])
        /\ \A i \in DOMAIN Line : Line[i].n > request \/ (at = "body" /\ i = 1)
        /\ at \in {"body", "handle", "respond"} => request \in DOMAIN sent

IsAnswer(i) == out[i].kind = "answer"
IsSample(i) == out[i].kind = "sample"
Answers ==
    /\ \A i \in DOMAIN out : IsAnswer(i) =>
          /\ out[i].n \in DOMAIN sent
          /\ at # "over" => out[i].n <= request
          /\ at \in {"body", "handle", "respond"} => out[i].n < request
    /\ AnswersInOrder

Ok(e, method) == IsAnswer(e) /\ out[e].status = 200 /\ sent[out[e].n].method = method
SetupBefore(k) == \E i \in DOMAIN out : i < k /\ Ok(i, "SETUP")
PlayBefore(k) == \E j \in DOMAIN out : j < k /\ Ok(j, "PLAY") /\ SetupBefore(j)
Asks(method) == request \in DOMAIN sent /\ sent[request].method = method /\ status = 200

SetUp == SetupBefore(Len(out) + 1)
Played == PlayBefore(Len(out) + 1)

\* A SETUP that succeeded has been answered, or is being answered; so has the PLAY of a
\* connection that plays.
Permitted ==
    /\ (setup /\ at # "over") => SetUp \/ (at = "respond" /\ Asks("SETUP"))
    /\ (Playing /\ at # "over") =>
          \/ at \in {"loop", "write"} /\ Played
          \/ at = "respond" /\ Asks("PLAY") /\ SetUp

\* What has been written is older than what comes next.
Reading ==
    /\ Playing => rx <= newest + 1
    /\ at = "write" => Playing /\ sample < rx
Written(k) ==
    /\ PlayBefore(k)
    /\ out[k].n <= newest /\ (Playing => out[k].n < rx) /\ (at = "write" => out[k].n < sample)
    /\ \A i \in DOMAIN out : i < k /\ IsSample(i) => out[i].n < out[k].n

Samples == Permitted /\ Reading /\ \A k \in DOMAIN out : IsSample(k) => Written(k)

Inv ==
    /\ TypeOK /\ CutOffForCause
    /\ WellFormed(Line, sent) /\ Front
    /\ Answers /\ Samples

-----------------------------------------------------------------------------
(***************************************************************************)
(* The line of parts: what a read, a send and a consumption do to it.      *)
(***************************************************************************)
PartNames == {"$", "frame", "head", "end", "body"}

\* The assumptions on the constants, one by one.
LEMMA BoundsAre ==
    /\ MaxMessages \in Nat /\ MaxSamples \in Nat /\ Capacity \in Nat \ {0}
    /\ \A msg \in Messages : msg.method \in Methods \cup {"RTP"} /\ msg.body \in BOOLEAN
                             /\ msg.bad \in BOOLEAN
  BY BoundsAssumption, MessagesAssumption DEF MessageType

\* The unread parts are those of the buffer and then those of the wire.
LEMMA LineIs ==
    ASSUME TypeOK
    PROVE  /\ Line \in Seq(Parts) /\ Len(Line) = Len(buffer) + Len(wire)
           /\ Len(buffer) \in Nat /\ Len(wire) \in Nat
           /\ DOMAIN Line = 1..Len(Line) /\ DOMAIN buffer = 1..Len(buffer)
           /\ \A i \in DOMAIN Line : Line[i] \in Parts
           /\ \A i \in DOMAIN buffer : i \in DOMAIN Line /\ Line[i] = buffer[i]
           /\ (Line = <<>> <=> buffer = <<>> /\ wire = <<>>)
  <1>1. buffer \in Seq(Parts) /\ wire \in Seq(Parts)
    BY DEF TypeOK
  <1>2. /\ Line \in Seq(Parts) /\ Len(Line) = Len(buffer) + Len(wire)
        /\ \A i \in 1..(Len(buffer) + Len(wire)) :
              Line[i] = IF i <= Len(buffer) THEN buffer[i] ELSE wire[i - Len(buffer)]
    BY <1>1, ConcatProperties DEF Line
  <1>3. Len(buffer) \in Nat /\ Len(wire) \in Nat
    BY <1>1
  <1>4. DOMAIN Line = 1..Len(Line) /\ DOMAIN buffer = 1..Len(buffer)
    BY <1>1, <1>2
  <1>5. \A i \in DOMAIN Line : Line[i] \in Parts
    BY <1>2
  <1>6. \A i \in DOMAIN buffer : i \in DOMAIN Line /\ Line[i] = buffer[i]
    BY <1>2, <1>3, <1>4
  <1>7. Line = <<>> <=> buffer = <<>> /\ wire = <<>>
    BY <1>1, ConcatEqualIffEmpty DEF Line
  <1> QED
    BY <1>2, <1>3, <1>4, <1>5, <1>6, <1>7

\* A read moves parts from the wire to the buffer.
LEMMA ReadLine ==
    ASSUME NEW w \in Seq(Parts), NEW k \in 1..Len(w)
    PROVE  /\ SubSeq(w, 1, k) \in Seq(Parts) /\ SubSeq(w, k + 1, Len(w)) \in Seq(Parts)
           /\ SubSeq(w, 1, k) \o SubSeq(w, k + 1, Len(w)) = w
  <1>1. Len(w) \in Nat /\ k \in Nat /\ k <= Len(w)
    OBVIOUS
  <1>2. SubSeq(w, 1, k) \o SubSeq(w, k + 1, Len(w)) = SubSeq(w, 1, Len(w))
    BY <1>1, ConcatAdjacentSubSeq
  <1>3. SubSeq(w, 1, Len(w)) = w
    BY SubSeqFull
  <1>4. \A i \in 1..Len(w) : w[i] \in Parts
    OBVIOUS
  <1>5. SubSeq(w, 1, k) \in Seq(Parts)
    BY <1>1, <1>4, SubSeqProperties
  <1>6. SubSeq(w, k + 1, Len(w)) \in Seq(Parts)
    BY <1>1, <1>4, SubSeqProperties
  <1> QED
    BY <1>2, <1>3, <1>5, <1>6

\* The first e parts are consumed.
Without(r, s, e) ==
    /\ r \in Seq(Parts) /\ Len(r) = Len(s) - e
    /\ \A i \in DOMAIN r : i + e \in DOMAIN s /\ r[i] = s[i + e]

\* Consuming from the buffer takes the same parts off the line.
LEMMA ConsumeLine ==
    ASSUME NEW b \in Seq(Parts), NEW w \in Seq(Parts), NEW e \in 1..Len(b),
           NEW b2, b2 = SubSeq(b, e + 1, Len(b))
    PROVE  b2 \in Seq(Parts) /\ Without(b2 \o w, b \o w, e)
  <1>1. Len(b) \in Nat /\ Len(w) \in Nat /\ e \in Nat /\ e <= Len(b) /\ e > 0
        /\ \A i \in 1..Len(b) : b[i] \in Parts
    OBVIOUS
  <1>2. b2 \in Seq(Parts) /\ Len(b2) = Len(b) - e /\ \A i \in 1..(Len(b) - e) : b2[i] = b[e + i]
    <2>1. \A i \in (e + 1)..Len(b) : b[i] \in Parts
      BY <1>1
    <2>2. /\ b2 \in Seq(Parts)
          /\ Len(b2) = IF e + 1 <= Len(b) THEN Len(b) - (e + 1) + 1 ELSE 0
          /\ \A i \in 1..(Len(b) - (e + 1) + 1) : b2[i] = b[(e + 1) + i - 1]
      BY <1>1, <2>1, SubSeqProperties
    <2>3. Len(b2) = Len(b) - e
      BY <1>1, <2>2
    <2>4. ASSUME NEW i \in 1..(Len(b) - e)
          PROVE  b2[i] = b[e + i]
      <3>1. i \in 1..(Len(b) - (e + 1) + 1) /\ (e + 1) + i - 1 = e + i
        BY <1>1
      <3> QED
        BY <2>2, <3>1
    <2> QED
      BY <2>2, <2>3, <2>4
  <1> DEFINE s == b \o w
             r == b2 \o w
  <1>3. /\ s \in Seq(Parts) /\ Len(s) = Len(b) + Len(w)
        /\ \A i \in 1..(Len(b) + Len(w)) : s[i] = IF i <= Len(b) THEN b[i] ELSE w[i - Len(b)]
    BY ConcatProperties
  <1>4. /\ r \in Seq(Parts) /\ Len(r) = Len(b2) + Len(w)
        /\ \A i \in 1..(Len(b2) + Len(w)) : r[i] = IF i <= Len(b2) THEN b2[i] ELSE w[i - Len(b2)]
    BY <1>2, ConcatProperties
  <1> HIDE DEF s, r
  <1>5. Len(r) = Len(s) - e /\ DOMAIN r = 1..Len(r) /\ DOMAIN s = 1..Len(s) /\ Len(r) \in Nat
    BY <1>1, <1>2, <1>3, <1>4
  <1>6. ASSUME NEW i \in DOMAIN r
        PROVE  i + e \in DOMAIN s /\ r[i] = s[i + e]
    <2>0. /\ Len(b) \in Nat /\ Len(w) \in Nat /\ e \in Nat /\ e <= Len(b) /\ e > 0
          /\ Len(b2) = Len(b) - e
      BY <1>1, <1>2
    <2>1. i \in 1..(Len(b2) + Len(w))
      BY <1>4, <1>5
    <2>4. i \in Nat /\ i > 0 /\ i <= Len(b2) + Len(w) /\ i + e \in 1..(Len(b) + Len(w))
      BY <2>0, <2>1
    <2>5. r[i] = IF i <= Len(b2) THEN b2[i] ELSE w[i - Len(b2)]
      BY <1>4, <2>1
    <2>6. s[i + e] = IF i + e <= Len(b) THEN b[i + e] ELSE w[(i + e) - Len(b)]
      BY <1>3, <2>4
    <2>7. i + e \in DOMAIN s
      BY <1>3, <1>5, <2>4
    <2>2. CASE i <= Len(b2)
      <3>1. i \in 1..(Len(b) - e) /\ i + e <= Len(b) /\ e + i = i + e
        BY <2>0, <2>2, <2>4
      <3>2. b2[i] = b[e + i]
        BY <1>2, <3>1
      <3> QED
        BY <2>2, <2>5, <2>6, <2>7, <3>1, <3>2
    <2>3. CASE ~(i <= Len(b2))
      <3>1. ~(i + e <= Len(b)) /\ (i + e) - Len(b) = i - Len(b2)
        BY <2>0, <2>3, <2>4
      <3> QED
        BY <2>3, <2>5, <2>6, <2>7, <3>1
    <2> QED
      BY <2>2, <2>3
  <1>7. Without(r, s, e)
    BY <1>4, <1>5, <1>6 DEF Without
  <1> QED
    BY <1>2, <1>7 DEF r, s

\* What is left is well formed.
LEMMA RestIsWellFormed ==
    ASSUME NEW s \in Seq(Parts), NEW r, NEW e \in Nat, Without(r, s, e), NEW msgs,
           WellFormed(s, msgs)
    PROVE  WellFormed(r, msgs)
  <1>1. /\ DOMAIN s = 1..Len(s) /\ DOMAIN r = 1..Len(r) /\ Len(r) = Len(s) - e
        /\ Len(s) \in Nat /\ Len(r) \in Nat
        /\ \A i \in DOMAIN r : i + e \in DOMAIN s /\ r[i] = s[i + e]
    BY DEF Without
  <1>2. InOrder(r)
    <2> SUFFICES ASSUME NEW i \in DOMAIN r, NEW j \in DOMAIN r, i < j
                 PROVE  Precedes(r[i], r[j])
      BY DEF InOrder
    <2>1. i + e < j + e /\ i + e \in DOMAIN s /\ j + e \in DOMAIN s
      BY <1>1
    <2>2. Precedes(s[i + e], s[j + e])
      BY <2>1 DEF WellFormed, InOrder
    <2> QED
      BY <1>1, <2>2
  <1>3. ASSUME NEW i \in DOMAIN r
        PROVE  PartOfOne(r[i], msgs) /\ GoesOn(r, i, msgs)
    <2>1. i + e \in DOMAIN s /\ r[i] = s[i + e] /\ i \in Nat
      BY <1>1
    <2>2. PartOfOne(s[i + e], msgs) /\ GoesOn(s, i + e, msgs)
      BY <2>1 DEF WellFormed
    <2>3. CASE i = Len(r)
      <3>1. i + e = Len(s)
        BY <1>1, <2>3
      <3> QED
        BY <2>1, <2>2, <2>3, <3>1 DEF GoesOn
    <2>4. CASE i # Len(r)
      <3>1. i < Len(r) /\ i + 1 \in DOMAIN r /\ i + e < Len(s) /\ (i + 1) + e = (i + e) + 1
        BY <1>1, <2>1, <2>4
      <3>2. r[i + 1] = s[(i + e) + 1]
        BY <1>1, <3>1
      <3> QED
        BY <2>1, <2>2, <2>4, <3>1, <3>2 DEF GoesOn
    <2> QED
      BY <2>3, <2>4
  <1> QED
    BY <1>2, <1>3 DEF WellFormed

\* The parts of one message, in order and without a gap.
LEMMA PartsOfIs ==
    ASSUME NEW msg \in Messages, NEW n \in 1..MaxMessages, NEW t, t = PartsOf(msg, n)
    PROVE  /\ t \in Seq(Parts) /\ Len(t) \in Nat \ {0} /\ Starts(t[1])
           /\ \A i \in DOMAIN t : t[i].n = n /\ (t[i].part = "body" => msg.body)
           /\ \A i, j \in DOMAIN t : i < j => Rank(t[i]) < Rank(t[j])
           /\ \A i \in DOMAIN t :
                IF Ends(t[i], msg) THEN i = Len(t) ELSE i < Len(t) /\ t[i + 1] = After(t[i])
  <1>1. \A p \in PartNames : Part(p, n) \in Parts /\ Part(p, n).part = p /\ Part(p, n).n = n
    BY DEF Part, PartNames, Parts
  <1>2. /\ Rank(Part("$", n)) = 0 /\ Rank(Part("head", n)) = 0
        /\ Rank(Part("frame", n)) = 1 /\ Rank(Part("end", n)) = 1
        /\ Rank(Part("body", n)) = 2
        /\ Starts(Part("$", n)) /\ Starts(Part("head", n))
    BY DEF Rank, Starts, Part
  <1>3. /\ After(Part("$", n)) = Part("frame", n) /\ After(Part("head", n)) = Part("end", n)
        /\ After(Part("end", n)) = Part("body", n)
    BY DEF After, Part
  <1>4. /\ ~Ends(Part("$", n), msg) /\ ~Ends(Part("head", n), msg)
        /\ Ends(Part("frame", n), msg) /\ Ends(Part("body", n), msg)
        /\ Ends(Part("end", n), msg) <=> ~msg.body
    BY DEF Ends, Part
  <1>5. /\ "$" \in PartNames /\ "frame" \in PartNames /\ "head" \in PartNames
        /\ "end" \in PartNames /\ "body" \in PartNames
    BY DEF PartNames
  <1> DEFINE P(p) == Part(p, n)
  <1>6. CASE msg.method = "RTP"
    <2>1. t = <<P("$"), P("frame")>>
      BY <1>6 DEF PartsOf
    <2> HIDE DEF P
    <2>2. /\ t \in Seq(Parts) /\ Len(t) = 2 /\ DOMAIN t = {1, 2}
          /\ t[1] = P("$") /\ t[2] = P("frame")
      BY <1>1, <1>5, <2>1 DEF P
    <2> QED
      BY <1>1, <1>2, <1>3, <1>4, <1>5, <2>2 DEF P
  <1>7. CASE msg.method # "RTP" /\ ~msg.body
    <2>1. t = <<P("head"), P("end")>> \o <<>>
      BY <1>7 DEF PartsOf
    <2>2. <<P("head"), P("end")>> \in Seq(Parts)
      BY <1>1, <1>5
    <2>3. t = <<P("head"), P("end")>>
      BY <2>1, <2>2, ConcatEmptySeq
    <2> HIDE DEF P
    <2>4. /\ t \in Seq(Parts) /\ Len(t) = 2 /\ DOMAIN t = {1, 2}
          /\ t[1] = P("head") /\ t[2] = P("end")
      BY <2>2, <2>3
    <2> QED
      BY <1>1, <1>2, <1>3, <1>4, <1>5, <1>7, <2>4 DEF P
  <1>8. CASE msg.method # "RTP" /\ msg.body
    <2>1. t = <<P("head"), P("end")>> \o <<P("body")>>
      BY <1>8 DEF PartsOf
    <2>2. P("head") \in Parts /\ P("end") \in Parts /\ P("body") \in Parts
      BY <1>1, <1>5
    <2> HIDE DEF P
    <2> DEFINE u == <<P("head"), P("end")>>
               v == <<P("body")>>
    <2>3. /\ u \in Seq(Parts) /\ Len(u) = 2 /\ u[1] = P("head") /\ u[2] = P("end")
          /\ v \in Seq(Parts) /\ Len(v) = 1 /\ v[1] = P("body")
          /\ t = u \o v
      BY <2>1, <2>2
    <2> HIDE DEF u, v
    <2>5. /\ u \o v \in Seq(Parts) /\ Len(u \o v) = Len(u) + Len(v)
          /\ \A i \in 1..(Len(u) + Len(v)) : (u \o v)[i] = IF i <= Len(u) THEN u[i] ELSE v[i - Len(u)]
      BY <2>3, ConcatProperties
    <2>6. /\ t \in Seq(Parts) /\ Len(t) = 3
          /\ \A i \in 1..3 : t[i] = IF i <= 2 THEN u[i] ELSE v[i - 2]
      BY <2>3, <2>5
    <2>7. t[1] = u[1] /\ t[2] = u[2] /\ t[3] = v[1]
      BY <2>6
    <2>4. /\ t \in Seq(Parts) /\ Len(t) = 3 /\ DOMAIN t = {1, 2, 3}
          /\ t[1] = P("head") /\ t[2] = P("end") /\ t[3] = P("body")
      BY <2>3, <2>6, <2>7
    <2> QED
      BY <1>1, <1>2, <1>3, <1>4, <1>5, <1>8, <2>4 DEF P
  <1> QED
    BY <1>6, <1>7, <1>8, BoundsAre

\* Another message at the end of the line.
Extended(r, m2, s, m, msg) == m2 = Append(m, msg) /\ r = s \o PartsOf(msg, Len(m2))

\* A message that is sent goes behind the others, whole.
LEMMA SentIsWellFormed ==
    ASSUME NEW s \in Seq(Parts), NEW m \in Seq(Messages), NEW msg \in Messages,
           NEW m2, NEW r, Extended(r, m2, s, m, msg), Len(m) < MaxMessages, WellFormed(s, m)
    PROVE  /\ r \in Seq(Parts) /\ WellFormed(r, m2) /\ Len(r) > Len(s)
           /\ \A i \in DOMAIN s : i \in DOMAIN r /\ r[i] = s[i]
           /\ \A i \in DOMAIN r : i \in DOMAIN s \/ r[i].n = Len(m2)
           /\ r # <<>> /\ (s = <<>> => Starts(r[1]))
  <1>t. PICK t : t = PartsOf(msg, Len(m2))
    OBVIOUS
  <1>e. m2 = Append(m, msg) /\ r = s \o t
    BY <1>t DEF Extended
  <1>1. /\ Len(m2) = Len(m) + 1 /\ Len(m) \in Nat /\ Len(m2) \in 1..MaxMessages
        /\ DOMAIN m = 1..Len(m) /\ DOMAIN m2 = 1..Len(m2)
        /\ m2[Len(m2)] = msg /\ \A i \in DOMAIN m : i \in DOMAIN m2 /\ m2[i] = m[i]
    BY <1>e, BoundsAre
  <1> DEFINE n == Len(m2)
  <1>2. /\ t \in Seq(Parts) /\ Len(t) \in Nat \ {0} /\ Starts(t[1])
        /\ \A i \in DOMAIN t : t[i].n = n /\ (t[i].part = "body" => msg.body)
        /\ \A i, j \in DOMAIN t : i < j => Rank(t[i]) < Rank(t[j])
        /\ \A i \in DOMAIN t :
             IF Ends(t[i], msg) THEN i = Len(t) ELSE i < Len(t) /\ t[i + 1] = After(t[i])
    BY <1>1, <1>t, PartsOfIs
  <1>3. /\ r \in Seq(Parts) /\ Len(r) = Len(s) + Len(t)
        /\ \A i \in 1..(Len(s) + Len(t)) : r[i] = IF i <= Len(s) THEN s[i] ELSE t[i - Len(s)]
    BY <1>2, <1>e, ConcatProperties
  <1>4. /\ Len(s) \in Nat /\ Len(t) \in Nat \ {0}
        /\ DOMAIN s = 1..Len(s) /\ DOMAIN t = 1..Len(t) /\ DOMAIN r = 1..(Len(s) + Len(t))
        /\ Len(r) = Len(s) + Len(t)
    <2>1. Len(t) \in Nat \ {0} /\ DOMAIN t = 1..Len(t)
      <3>1. t \in Seq(Parts)
        BY <1>2
      <3>2. DOMAIN t = 1..Len(t)
        BY <3>1
      <3> QED
        BY <1>2, <3>2
    <2>2. Len(s) \in Nat /\ DOMAIN s = 1..Len(s)
      OBVIOUS
    <2>3. r \in Seq(Parts) /\ Len(r) = Len(s) + Len(t)
      BY <1>3
    <2>4. DOMAIN r = 1..Len(r)
      BY <2>3
    <2> QED
      BY <2>1, <2>2, <2>3, <2>4
  <1> HIDE DEF n
  <1>5. \A i \in DOMAIN s : i \in DOMAIN r /\ r[i] = s[i]
    BY <1>3, <1>4
  <1>6. \A i \in DOMAIN r : i \in DOMAIN s
                            \/ (i > Len(s) /\ i - Len(s) \in DOMAIN t /\ r[i] = t[i - Len(s)])
    BY <1>3, <1>4
  <1>7. Len(s) + 1 \in DOMAIN r /\ r[Len(s) + 1] = t[1]
    <2>1. Len(s) + 1 \in 1..(Len(s) + Len(t)) /\ ~(Len(s) + 1 <= Len(s)) /\ (Len(s) + 1) - Len(s) = 1
      BY <1>4
    <2> QED
      BY <1>3, <1>4, <2>1
  <1>8. InOrder(r)
    <2> SUFFICES ASSUME NEW i \in DOMAIN r, NEW j \in DOMAIN r, i < j
                 PROVE  Precedes(r[i], r[j])
      BY DEF InOrder
    <2>1. CASE i \in DOMAIN s /\ j \in DOMAIN s
      BY <1>5, <2>1 DEF WellFormed, InOrder
    <2>2. CASE i \in DOMAIN s /\ j \notin DOMAIN s
      <3>1. s[i].n \in DOMAIN m /\ r[i] = s[i]
        BY <1>5, <2>2 DEF WellFormed, PartOfOne
      <3>2. r[j].n = n
        BY <1>2, <1>6, <2>2
      <3> QED
        BY <1>1, <3>1, <3>2 DEF Precedes, n
    <2>3. CASE i \notin DOMAIN s
      <3>1. /\ i > Len(s) /\ i - Len(s) \in DOMAIN t /\ r[i] = t[i - Len(s)]
            /\ j \notin DOMAIN s /\ i \in Nat /\ j \in Nat
        BY <1>4, <1>6, <2>3
      <3>2. j - Len(s) \in DOMAIN t /\ r[j] = t[j - Len(s)] /\ i - Len(s) < j - Len(s)
        BY <1>4, <1>6, <3>1
      <3> QED
        BY <1>2, <3>1, <3>2 DEF Precedes
    <2> QED
      BY <2>1, <2>2, <2>3
  <1>9. ASSUME NEW i \in DOMAIN r
        PROVE  PartOfOne(r[i], m2) /\ GoesOn(r, i, m2)
    <2>1. CASE i \in DOMAIN s
      <3>1. /\ PartOfOne(s[i], m) /\ GoesOn(s, i, m) /\ r[i] = s[i]
            /\ m2[s[i].n] = m[s[i].n] /\ s[i].n \in DOMAIN m2
        BY <1>1, <1>5, <2>1 DEF WellFormed, PartOfOne
      <3>2. PartOfOne(r[i], m2)
        BY <3>1 DEF PartOfOne
      <3>3. CASE i = Len(s)
        <4>1. Ends(r[i], m2[r[i].n]) /\ r[i + 1] = t[1]
          BY <1>4, <1>7, <3>1, <3>3 DEF GoesOn
        <4> QED
          BY <1>2, <3>2, <4>1 DEF GoesOn
      <3>4. CASE i # Len(s)
        <4>1. i < Len(s) /\ i < Len(r) /\ i + 1 \in DOMAIN s
          BY <1>3, <1>4, <2>1, <3>4
        <4>2. r[i + 1] = s[i + 1]
          BY <1>5, <4>1
        <4> QED
          BY <3>1, <3>2, <3>4, <4>1, <4>2 DEF GoesOn
      <3> QED
        BY <3>3, <3>4
    <2>2. CASE i \notin DOMAIN s
      <3> DEFINE k == i - Len(s)
      <3>1. k \in DOMAIN t /\ r[i] = t[k] /\ i \in Nat /\ k \in Nat /\ i = k + Len(s)
        BY <1>4, <1>6, <2>2
      <3> HIDE DEF k
      <3>2. r[i].n = n /\ m2[n] = msg /\ n \in DOMAIN m2
        BY <1>1, <1>2, <3>1 DEF n
      <3>3. PartOfOne(r[i], m2)
        BY <1>2, <3>1, <3>2 DEF PartOfOne
      <3>4. CASE Ends(t[k], msg)
        <4>1. i = Len(r)
          BY <1>2, <1>3, <1>4, <3>1, <3>4
        <4> QED
          BY <3>1, <3>2, <3>3, <3>4, <4>1 DEF GoesOn
      <3>5. CASE ~Ends(t[k], msg)
        <4>1. k < Len(t) /\ t[k + 1] = After(t[k])
          BY <1>2, <3>1, <3>5
        <4>2. i + 1 \in 1..(Len(s) + Len(t)) /\ ~(i + 1 <= Len(s)) /\ (i + 1) - Len(s) = k + 1
              /\ i < Len(r)
          <5>1. /\ k \in Nat /\ k > 0 /\ k + 1 <= Len(t) /\ i = k + Len(s)
                /\ Len(s) \in Nat /\ Len(t) \in Nat /\ Len(r) = Len(s) + Len(t)
            BY <1>4, <3>1, <4>1
          <5> QED
            BY <5>1
        <4>3. r[i + 1] = t[k + 1]
          BY <1>3, <4>2
        <4> QED
          BY <3>1, <3>2, <3>3, <3>5, <4>1, <4>2, <4>3 DEF GoesOn
      <3> QED
        BY <3>4, <3>5
    <2> QED
      BY <2>1, <2>2
  <1>10. \A i \in DOMAIN r : i \in DOMAIN s \/ r[i].n = n
    BY <1>2, <1>6
  <1>11. Len(r) > Len(s) /\ r # <<>> /\ (s = <<>> => Starts(r[1]))
    <2>1. Len(r) > Len(s) /\ Len(r) # 0
      BY <1>3, <1>4
    <2>2. s = <<>> => Len(s) = 0
      OBVIOUS
    <2>3. Len(s) = 0 => Starts(r[1])
      BY <1>2, <1>7
    <2> QED
      BY <2>1, <2>2, <2>3
  <1> QED
    BY <1>3, <1>5, <1>8, <1>9, <1>10, <1>11 DEF WellFormed, n

-----------------------------------------------------------------------------
(***************************************************************************)
(* What handle_conn takes from the line.                                   *)
(***************************************************************************)
LEMMA RanksAre ==
    /\ \A p \in Parts : p.part \in PartNames /\ p.n \in Nat /\ Rank(p) \in {0, 1, 2}
                        /\ (Rank(p) = 2 <=> p.part = "body")
    /\ \A p \in Parts : p.part = "end" => Rank(p) = 1
  BY BoundsAre DEF Parts, PartNames, Rank, Starts

\* The first part that is in the buffer.
LEMMA FirstIs ==
    ASSUME TypeOK, WellFormed(Line, sent), buffer # <<>>
    PROVE  /\ 1 \in DOMAIN buffer /\ 1 \in DOMAIN Line /\ Head(buffer) = Line[1]
           /\ Line # <<>> /\ Line[1] \in Parts
           /\ PartOfOne(Line[1], sent) /\ GoesOn(Line, 1, sent)
  <1>1. buffer \in Seq(Parts)
    BY DEF TypeOK
  <1>2. 1 \in DOMAIN buffer /\ Head(buffer) = buffer[1]
    BY <1>1
  <1>3. 1 \in DOMAIN Line /\ Line[1] = buffer[1] /\ Line[1] \in Parts /\ Line # <<>>
    BY <1>2, LineIs
  <1> QED
    BY <1>2, <1>3 DEF WellFormed

\* Something is consumed by InterleavedFrame, or the rest of a message.
LEMMA OneConsumed ==
    ASSUME TypeOK, buffer # <<>>, buffer' = Tail(buffer), wire' = wire
    PROVE  buffer' \in Seq(Parts) /\ Without(Line', Line, 1)
  <1>1. buffer \in Seq(Parts) /\ wire \in Seq(Parts) /\ Len(buffer) \in Nat /\ Len(buffer) # 0
    BY DEF TypeOK
  <1>2. buffer' = SubSeq(buffer, 1 + 1, Len(buffer))
    BY <1>1, TailIsSubSeq
  <1>3. 1 \in 1..Len(buffer)
    BY <1>1
  <1>4. buffer' \in Seq(Parts) /\ Without(buffer' \o wire, buffer \o wire, 1)
    BY <1>1, <1>2, <1>3, ConsumeLine
  <1> QED
    BY <1>4 DEF Line

\* The first empty line that is in the buffer ends the headers of the first request.
LEMMA HeadersAre ==
    ASSUME TypeOK, WellFormed(Line, sent), Front, at = "fill", IsRequest,
           NEW e \in HeaderEnds, \A i \in HeaderEnds : e <= i
    PROVE  /\ e = 2 /\ 2 \in DOMAIN buffer /\ 2 \in DOMAIN Line
           /\ Head(buffer) = Line[1] /\ buffer[e] = Line[2]
           /\ Line[1].part = "head" /\ Line[2].part = "end" /\ Line[1].n = Line[2].n
           /\ Line[2].n \in DOMAIN sent /\ Line[2].n > request
  <1>1. buffer # <<>> /\ Head(buffer).part # "$"
    BY DEF IsRequest
  <1>2. /\ 1 \in DOMAIN buffer /\ Head(buffer) = Line[1] /\ Line # <<>> /\ Line[1] \in Parts
        /\ PartOfOne(Line[1], sent) /\ GoesOn(Line, 1, sent)
    BY <1>1, FirstIs
  <1>3. Starts(Line[1])
    BY <1>2 DEF Front
  <1>4. Line[1].part = "head"
    BY <1>1, <1>2, <1>3 DEF Starts
  <1>5. 1 < Len(Line) /\ Line[1 + 1] = After(Line[1])
    BY <1>2, <1>4 DEF GoesOn, Ends
  <1>6. Line[2].part = "end" /\ Line[2].n = Line[1].n
    BY <1>4, <1>5 DEF After, Part
  <1>7. 2 \in DOMAIN Line
    BY <1>5, LineIs
  <1>8. e \in DOMAIN buffer /\ buffer[e].part = "end" /\ Line[e] = buffer[e] /\ e \in Nat /\ e > 0
        /\ e <= Len(buffer) /\ Len(buffer) \in Nat
    BY LineIs DEF HeaderEnds
  <1>9. e # 1
    BY <1>4, <1>8
  <1>10. 2 \in DOMAIN buffer
    BY <1>8, <1>9, LineIs
  <1>11. 2 \in HeaderEnds
    BY <1>6, <1>10, LineIs DEF HeaderEnds
  <1>12. e <= 2
    BY <1>11
  <1>13. e = 2
    BY <1>8, <1>9, <1>12
  <1>14. Line[2].n \in DOMAIN sent
    BY <1>2, <1>6 DEF PartOfOne
  <1>15. Line[2].n > request
    BY <1>7 DEF Front
  <1> QED
    BY <1>2, <1>4, <1>6, <1>7, <1>8, <1>10, <1>13, <1>14, <1>15

\* Parsing takes the head and the end of one request, which is the next one.
LEMMA ParseActs ==
    ASSUME TypeOK, WellFormed(Line, sent), Front, ParseHeaders
    PROVE  /\ at = "fill" /\ request' = Line[2].n /\ request' \in DOMAIN sent /\ request' > request
           /\ buffer' \in Seq(Parts) /\ Without(Line', Line, 2)
           /\ 2 \in DOMAIN Line /\ Line[2].part = "end"
           /\ at' = IF sent[request'].bad THEN "over"
                    ELSE IF sent[request'].body THEN "body" ELSE "handle"
           /\ UNCHANGED <<environment, wire, status, streamVars, out>>
  <1>1. /\ at = "fill" /\ IsRequest
        /\ UNCHANGED <<environment, wire, status, streamVars, out>>
    BY DEF ParseHeaders
  <1>2. PICK e \in HeaderEnds :
           /\ \A i \in HeaderEnds : e <= i
           /\ buffer' = AfterHeaders(e)
           /\ request' = buffer[e].n
           /\ at' = IF e # 2 \/ Head(buffer).part # "head" \/ sent[buffer[e].n].bad
                    THEN "over"
                    ELSE IF sent[buffer[e].n].body THEN "body" ELSE "handle"
    BY DEF ParseHeaders
  <1>3. /\ e = 2 /\ 2 \in DOMAIN buffer /\ 2 \in DOMAIN Line
        /\ Head(buffer) = Line[1] /\ buffer[e] = Line[2]
        /\ Line[1].part = "head" /\ Line[2].part = "end"
        /\ Line[2].n \in DOMAIN sent /\ Line[2].n > request
    BY <1>1, <1>2, HeadersAre
  <1>4. buffer \in Seq(Parts) /\ wire \in Seq(Parts) /\ 2 \in 1..Len(buffer)
    BY <1>3 DEF TypeOK
  <1>5. buffer' = SubSeq(buffer, 2 + 1, Len(buffer))
    BY <1>2, <1>3 DEF AfterHeaders
  <1>6. buffer' \in Seq(Parts) /\ Without(buffer' \o wire, buffer \o wire, 2)
    BY <1>4, <1>5, ConsumeLine
  <1>7. Without(Line', Line, 2)
    BY <1>1, <1>6 DEF Line
  <1> QED
    BY <1>1, <1>2, <1>3, <1>6, <1>7

\* After the headers comes the body, if there is one, and what is later.
LEMMA AfterHeadersIs ==
    ASSUME TypeOK, WellFormed(Line, sent), 2 \in DOMAIN Line, Line[2].part = "end",
           NEW r, Without(r, Line, 2)
    PROVE  /\ IF sent[Line[2].n].body
              THEN r # <<>> /\ r[1].part = "body" /\ r[1].n = Line[2].n
              ELSE r = <<>> \/ Starts(r[1])
           /\ \A i \in DOMAIN r :
                r[i].n > Line[2].n \/ (sent[Line[2].n].body /\ i = 1)
  <1> DEFINE n == Line[2].n
  <1>1. /\ DOMAIN Line = 1..Len(Line) /\ Len(Line) \in Nat
        /\ r \in Seq(Parts) /\ Len(r) = Len(Line) - 2 /\ DOMAIN r = 1..Len(r)
        /\ \A i \in DOMAIN r : i + 2 \in DOMAIN Line /\ r[i] = Line[i + 2]
        /\ \A i \in DOMAIN Line : Line[i] \in Parts
    BY LineIs DEF Without
  <1>2. /\ GoesOn(Line, 2, sent) /\ InOrder(Line) /\ \A i \in DOMAIN Line : PartOfOne(Line[i], sent)
    BY DEF WellFormed
  <1>3. Ends(Line[2], sent[n]) <=> ~sent[n].body
    BY DEF Ends
  <1>4. CASE sent[n].body
    <2>1. 2 < Len(Line) /\ Line[2 + 1] = After(Line[2])
      BY <1>2, <1>3, <1>4 DEF GoesOn
    <2>2. Line[3].part = "body" /\ Line[3].n = n
      BY <2>1 DEF After, Part
    <2>3. 1 \in DOMAIN r /\ r # <<>> /\ r[1] = Line[3] /\ 3 \in DOMAIN Line
      <3>1. 1 \in DOMAIN r /\ 3 \in DOMAIN Line
        BY <1>1, <2>1
      <3>2. r[1] = Line[1 + 2]
        BY <1>1, <3>1
      <3> QED
        BY <3>1, <3>2
    <2>4. ASSUME NEW i \in DOMAIN r, i # 1
          PROVE  r[i].n > n
      <3>1. 3 < i + 2 /\ i + 2 \in DOMAIN Line /\ r[i] = Line[i + 2] /\ r[i] \in Parts
        BY <1>1, <2>4
      <3>2. Precedes(Line[3], r[i])
        BY <1>2, <2>3, <3>1 DEF InOrder
      <3>3. Rank(Line[3]) = 2 /\ Rank(r[i]) \in {0, 1, 2}
        BY <1>1, <2>2, <2>3, <3>1, RanksAre
      <3>4. r[i].n \in Nat /\ n \in Nat
        BY <1>1, <3>1, RanksAre
      <3>5. ~(Rank(Line[3]) < Rank(r[i]))
        BY <3>3
      <3>6. n < r[i].n
        BY <2>2, <3>2, <3>5 DEF Precedes
      <3> QED
        BY <3>4, <3>6
    <2> QED
      BY <1>4, <2>2, <2>3, <2>4
  <1>5. CASE ~sent[n].body
    <2>1. 2 = Len(Line) \/ Starts(Line[2 + 1])
      BY <1>2, <1>3, <1>5 DEF GoesOn
    <2>2. r = <<>> \/ Starts(r[1])
      <3>1. CASE Len(r) = 0
        BY <1>1, <3>1
      <3>2. CASE Len(r) # 0
        <4>1. 2 # Len(Line) /\ 1 \in DOMAIN r
          BY <1>1, <3>2
        <4>2. r[1] = Line[1 + 2]
          BY <1>1, <4>1
        <4> QED
          BY <2>1, <4>1, <4>2
      <3> QED
        BY <3>1, <3>2
    <2>3. ASSUME NEW i \in DOMAIN r
          PROVE  r[i].n > n
      <3>1. 2 < i + 2 /\ i + 2 \in DOMAIN Line /\ r[i] = Line[i + 2] /\ r[i] \in Parts
        BY <1>1
      <3>2. Precedes(Line[2], r[i]) /\ PartOfOne(r[i], sent)
        BY <1>2, <3>1 DEF InOrder
      <3>3. Rank(Line[2]) = 1 /\ Rank(r[i]) \in {0, 1, 2}
            /\ (Rank(r[i]) = 2 <=> r[i].part = "body")
        BY <1>1, <3>1, RanksAre
      <3>4. r[i].n \in Nat /\ n \in Nat
        BY <1>1, <3>1, RanksAre
      <3>5. r[i].n = n => r[i].part # "body"
        BY <1>5, <3>2 DEF PartOfOne
      <3>6. r[i].n = n => ~(Rank(Line[2]) < Rank(r[i]))
        BY <3>3, <3>5
      <3>7. n < r[i].n
        BY <3>2, <3>6 DEF Precedes
      <3> QED
        BY <3>4, <3>7
    <2> QED
      BY <1>5, <2>2, <2>3
  <1> QED
    BY <1>4, <1>5

-----------------------------------------------------------------------------
(***************************************************************************)
(* Types.                                                                  *)
(***************************************************************************)
Outputs == [kind : {"answer", "sample"}, n : Nat, status : {200, 400, 404}]

\* A step keeps the types: the request parsed is one that was sent.
LEMMA TypeStep ==
    ASSUME TypeOK, WellFormed(Line, sent), Front, Next
    PROVE  TypeOK'
  <1> USE DEF TypeOK, Playing, NotPlaying, clientVars, streamVars, environment
  <1>0. /\ MaxMessages \in Nat /\ MaxSamples \in Nat /\ Capacity \in Nat \ {0}
        /\ sent \in Seq(Messages) /\ Len(sent) \in Nat /\ DOMAIN sent = 1..Len(sent)
    BY BoundsAre
  <1>1. CASE Register
    BY <1>0, <1>1 DEF Register
  <1>2. CASE NewSample
    BY <1>0, <1>2 DEF NewSample
  <1>3. ASSUME NEW msg \in Messages, Send(msg)
        PROVE  TypeOK'
    <2>1. /\ Len(sent) < MaxMessages /\ sent' = Append(sent, msg)
          /\ wire' = wire \o PartsOf(msg, Len(sent'))
          /\ UNCHANGED <<registered, newest, closed, at, buffer, request, status, setup, rx,
                         sample, out>>
      BY <1>3 DEF Send
    <2>2. sent' \in Seq(Messages) /\ Len(sent') = Len(sent) + 1 /\ Len(sent') \in 1..MaxMessages
      BY <1>0, <2>1
    <2>3. PartsOf(msg, Len(sent')) \in Seq(Parts)
      BY <2>2, PartsOfIs
    <2>4. wire' \in Seq(Parts)
      BY <2>1, <2>3, ConcatProperties
    <2>5. request' \in 0..Len(sent')
      BY <1>0, <2>1, <2>2
    <2> QED
      BY <1>0, <2>1, <2>2, <2>4, <2>5
  <1>4. CASE Close
    BY <1>0, <1>4 DEF Close
  <1>5. CASE Loop
    BY <1>0, <1>5 DEF Loop
  <1>6. CASE Read
    <2>1. PICK k \in 1..Len(wire) :
             /\ buffer' = SubSeq(wire, 1, k)
             /\ wire' = SubSeq(wire, k + 1, Len(wire))
      BY <1>6 DEF Read
    <2>2. buffer' \in Seq(Parts) /\ wire' \in Seq(Parts)
      BY <2>1, ReadLine
    <2> QED
      BY <1>0, <1>6, <2>2 DEF Read
  <1>7. CASE Eof
    BY <1>0, <1>7 DEF Eof
  <1>8. CASE InterleavedFrame
    <2>1. buffer' \in Seq(Parts)
      BY <1>8, OneConsumed DEF InterleavedFrame
    <2> QED
      BY <1>0, <1>8, <2>1 DEF InterleavedFrame
  <1>9. CASE NotEnoughData
    BY <1>0, <1>9 DEF NotEnoughData
  <1>10. CASE ParseHeaders
    <2>1. /\ at = "fill" /\ request' \in DOMAIN sent /\ buffer' \in Seq(Parts)
          /\ at' \in {"over", "body", "handle"}
          /\ UNCHANGED <<environment, wire, status, streamVars, out>>
      BY <1>10, ParseActs
    <2>2. request' \in 0..Len(sent')
      BY <1>0, <2>1
    <2> QED
      BY <1>0, <2>1, <2>2
  <1>11. CASE Consume
    <2>1. buffer' \in Seq(Parts)
      BY <1>11, OneConsumed DEF Consume, AfterBody
    <2> QED
      BY <1>0, <1>11, <2>1 DEF Consume
  <1>12. CASE Handle
    <2>1. /\ at = "handle" /\ at' = "respond" /\ rx = NotPlaying
          /\ UNCHANGED <<environment, wire, buffer, request, sample, out>>
      BY <1>12 DEF Handle
    <2> DEFINE method == sent[request].method
    <2>2. /\ status' = CASE method = "SETUP" /\ ~registered -> 404
                         [] method = "PLAY" /\ ~setup -> 400
                         [] OTHER -> 200
          /\ setup' = (method # "TEARDOWN" /\ (setup \/ (method = "SETUP" /\ registered)))
          /\ rx' = CASE method = "PLAY" /\ setup -> newest + 1
                     [] method \in {"PAUSE", "TEARDOWN"} -> NotPlaying
                     [] OTHER -> rx
      BY <1>12 DEF Handle, MayPlay
    <2> HIDE DEF method
    <2>3. status' \in {200, 400, 404} /\ setup' \in BOOLEAN
      BY <2>2
    <2>4. rx' \in Nat /\ (rx' # NotPlaying => setup')
      <3>1. CASE method = "PLAY" /\ setup
        <4>1. rx' = newest + 1 /\ newest \in Nat
          BY <1>0, <2>2, <3>1
        <4>2. setup'
          BY <2>2, <3>1
        <4> QED
          BY <4>1, <4>2
      <3>2. CASE ~(method = "PLAY" /\ setup)
        BY <2>1, <2>2, <3>2
      <3> QED
        BY <3>1, <3>2
    <2> QED
      BY <1>0, <2>1, <2>3, <2>4
  <1>13. CASE Respond
    <2>1. Answer(request, status) \in Outputs
      BY <1>0 DEF Answer, Outputs
    <2>2. out' \in Seq(Outputs)
      BY <1>13, <2>1 DEF Respond, Outputs
    <2> QED
      BY <1>0, <1>13, <2>2 DEF Respond, Outputs
  <1>14. CASE TakeSample
    BY <1>0, <1>14 DEF TakeSample
  <1>15. CASE Lagged
    <2>1. Oldest \in Nat
      BY <1>0 DEF Oldest
    <2>2. rx # NotPlaying
      BY <1>15 DEF Lagged
    <2> QED
      BY <1>0, <1>15, <2>1, <2>2 DEF Lagged, AfterLag
  <1>16. CASE WriteSample
    <2>1. Sample(sample) \in Outputs
      BY <1>0 DEF Sample, Outputs
    <2>2. out' \in Seq(Outputs)
      BY <1>16, <2>1 DEF WriteSample, Outputs
    <2> QED
      BY <1>0, <1>16, <2>2 DEF WriteSample, Outputs
  <1>17. CASE WriteFails
    BY <1>0, <1>17 DEF WriteFails
  <1> QED
    BY <1>1, <1>2, <1>3, <1>4, <1>5, <1>6, <1>7, <1>8, <1>9, <1>10, <1>11, <1>12, <1>13, <1>14,
       <1>15, <1>16, <1>17 DEF Next, handle_conn

-----------------------------------------------------------------------------
(***************************************************************************)
(* The line stays well formed, and its front what handle_conn expects.     *)
(***************************************************************************)

\* What does not touch the line, nor what is expected of it.
LEMMA FrontStays ==
    ASSUME WellFormed(Line, sent), Front, Line' = Line, sent' = sent, request' = request,
           at' = at \/ at' = "over"
             \/ (at \notin {"frame", "body", "over"} /\ at' \notin {"frame", "body"}
                  /\ (at' \in {"handle", "respond"} => at = "handle"))
    PROVE  WellFormed(Line, sent)' /\ Front'
  <1>1. WellFormed(Line, sent)'
    BY DEF WellFormed, InOrder, PartOfOne, GoesOn
  <1>2. CASE at' = "over"
    BY <1>1, <1>2 DEF Front
  <1>3. CASE at' = at
    BY <1>1, <1>3 DEF Front
  <1>4. CASE at \notin {"frame", "body", "over"} /\ at' \notin {"frame", "body"}
               /\ (at' \in {"handle", "respond"} => at = "handle")
    BY <1>1, <1>4 DEF Front
  <1> QED
    BY <1>2, <1>3, <1>4

\* Sending changes the end of the line and not what handle_conn is in.
LEMMA SendStep ==
    ASSUME TypeOK, WellFormed(Line, sent), Front, NEW msg \in Messages, Send(msg)
    PROVE  WellFormed(Line, sent)' /\ Front'
  <1>1. /\ Len(sent) < MaxMessages /\ sent' = Append(sent, msg)
        /\ wire' = wire \o PartsOf(msg, Len(sent'))
        /\ UNCHANGED <<at, buffer, request>>
    BY DEF Send
  <1>2. /\ sent \in Seq(Messages) /\ Line \in Seq(Parts) /\ buffer \in Seq(Parts)
        /\ wire \in Seq(Parts) /\ request \in 0..Len(sent)
    BY LineIs DEF TypeOK
  <1>3. Len(sent') \in 1..MaxMessages /\ Len(sent') > request /\ DOMAIN sent \subseteq DOMAIN sent'
    BY <1>1, <1>2, BoundsAre
  <1>t. PICK t : t = PartsOf(msg, Len(sent'))
    OBVIOUS
  <1>4. t \in Seq(Parts)
    BY <1>3, <1>t, PartsOfIs
  <1>5. Line' = Line \o t
    <2>1. Line' = buffer \o (wire \o t)
      BY <1>1, <1>t DEF Line
    <2>2. buffer \o (wire \o t) = (buffer \o wire) \o t
      <3>1. buffer \in Seq(Parts) /\ wire \in Seq(Parts) /\ t \in Seq(Parts)
        BY <1>2, <1>4
      <3>2. (buffer \o wire) \o t = buffer \o (wire \o t)
        BY <3>1, ConcatAssociative
      <3> QED
        BY <3>2
    <2> QED
      BY <2>1, <2>2 DEF Line
  <1>6. /\ WellFormed(Line', sent')
        /\ \A i \in DOMAIN Line : i \in DOMAIN Line' /\ Line'[i] = Line[i]
        /\ \A i \in DOMAIN Line' : i \in DOMAIN Line \/ Line'[i].n = Len(sent')
        /\ Line' # <<>> /\ (Line = <<>> => Starts(Line'[1]))
    <2>1. Extended(Line', sent', Line, sent, msg)
      BY <1>1, <1>t, <1>5 DEF Extended
    <2>2. Line \in Seq(Parts) /\ sent \in Seq(Messages) /\ Len(sent) < MaxMessages
      BY <1>1, <1>2
    <2> QED
      BY <2>1, <2>2, SentIsWellFormed
  <1>7. Line # <<>> => Line'[1] = Line[1]
    <2>1. Line # <<>> => 1 \in DOMAIN Line
      BY <1>2
    <2> QED
      BY <1>6, <2>1
  <1>8. Front'
    <2> SUFFICES ASSUME at # "over"
                 PROVE  /\ CASE at = "frame" -> Line' # <<>> /\ Line'[1].part = "frame"
                             [] at = "body" -> Line' # <<>> /\ Line'[1].part = "body"
                                               /\ Line'[1].n = request
                             [] OTHER -> Line' = <<>> \/ Starts(Line'[1])
                        /\ \A i \in DOMAIN Line' : Line'[i].n > request \/ (at = "body" /\ i = 1)
                        /\ at \in {"body", "handle", "respond"} => request \in DOMAIN sent'
      BY <1>1 DEF Front
    <2>1. \A i \in DOMAIN Line' : Line'[i].n > request \/ (at = "body" /\ i = 1)
      BY <1>3, <1>6 DEF Front
    <2>2. at \in {"body", "handle", "respond"} => request \in DOMAIN sent'
      BY <1>3 DEF Front
    <2>3. CASE at = "frame"
      BY <1>6, <1>7, <2>1, <2>3 DEF Front
    <2>4. CASE at = "body"
      BY <1>6, <1>7, <2>1, <2>2, <2>4 DEF Front
    <2>5. CASE at \notin {"frame", "body"}
      BY <1>6, <1>7, <2>1, <2>2, <2>5 DEF Front
    <2> QED
      BY <2>3, <2>4, <2>5
  <1> QED
    BY <1>6, <1>8

\* One part is consumed: the '$' of a frame, the rest of a frame, or a body.
LEMMA ConsumeStep ==
    ASSUME TypeOK, WellFormed(Line, sent), Front, InterleavedFrame \/ Consume
    PROVE  WellFormed(Line, sent)' /\ Front'
  <1>1. /\ buffer # <<>> /\ buffer' = Tail(buffer) /\ wire' = wire
        /\ UNCHANGED <<sent, request>>
        /\ \/ at = "fill" /\ Head(buffer).part = "$" /\ at' = "frame"
           \/ at = "frame" /\ at' = "loop"
           \/ at = "body" /\ at' = "handle"
    BY DEF InterleavedFrame, Consume, AfterBody, environment, clientVars
  <1>2. Without(Line', Line, 1)
    BY <1>1, OneConsumed
  <1>3. /\ Line \in Seq(Parts) /\ DOMAIN Line = 1..Len(Line) /\ Len(Line) \in Nat
        /\ Line' \in Seq(Parts) /\ Len(Line') = Len(Line) - 1 /\ DOMAIN Line' = 1..Len(Line')
        /\ \A i \in DOMAIN Line' : i + 1 \in DOMAIN Line /\ Line'[i] = Line[i + 1]
    BY <1>2, LineIs DEF Without
  <1>4. WellFormed(Line', sent)
    BY <1>2, <1>3, RestIsWellFormed
  <1>5. WellFormed(Line, sent)'
    BY <1>1, <1>4
  <1>6. GoesOn(Line, 1, sent) /\ Head(buffer) = Line[1] /\ 1 \in DOMAIN Line
    BY <1>1, FirstIs
  <1>7. \A i \in DOMAIN Line' : Line'[i].n > request
    <2> SUFFICES ASSUME NEW i \in DOMAIN Line'
                 PROVE  Line'[i].n > request
      OBVIOUS
    <2>1. i + 1 \in DOMAIN Line /\ Line'[i] = Line[i + 1] /\ i + 1 # 1
      BY <1>3
    <2> QED
      BY <1>1, <2>1 DEF Front
  <1>8. 1 < Len(Line) => Line' # <<>> /\ Line'[1] = Line[2]
    <2>1. 1 < Len(Line) => 1 \in DOMAIN Line'
      BY <1>3
    <2>2. 1 \in DOMAIN Line' => Line'[1] = Line[1 + 1]
      BY <1>3
    <2> QED
      BY <2>1, <2>2
  <1>9. 1 = Len(Line) => Line' = <<>>
    BY <1>3
  <1>10. CASE at = "fill" /\ Head(buffer).part = "$" /\ at' = "frame"
    <2>1. 1 < Len(Line) /\ Line[1 + 1] = After(Line[1]) /\ Line[1].part = "$"
      BY <1>6, <1>10 DEF GoesOn, Ends
    <2>2. Line' # <<>> /\ Line'[1].part = "frame"
      BY <1>8, <2>1 DEF After, Part
    <2> QED
      BY <1>1, <1>5, <1>7, <1>10, <2>2 DEF Front
  <1>11. CASE at \in {"frame", "body"} /\ at' \in {"loop", "handle"}
    <2>1. Line[1].part \in {"frame", "body"}
      BY <1>11 DEF Front
    <2>2. 1 = Len(Line) \/ Starts(Line[1 + 1])
      BY <1>6, <2>1 DEF GoesOn, Ends
    <2>3. Line' = <<>> \/ Starts(Line'[1])
      <3>1. CASE 1 = Len(Line)
        BY <1>9, <3>1
      <3>2. CASE 1 # Len(Line)
        <4>1. 1 < Len(Line)
          BY <1>3, <1>6, <3>2
        <4> QED
          BY <1>8, <2>2, <3>2, <4>1
      <3> QED
        BY <3>1, <3>2
    <2>4. at' = "handle" => request \in DOMAIN sent
      BY <1>1 DEF Front
    <2>5. request' = request /\ sent' = sent
      BY <1>1
    <2> QED
      BY <1>5, <1>7, <1>11, <2>3, <2>4, <2>5 DEF Front
  <1> QED
    BY <1>1, <1>10, <1>11

\* After a request's head comes its body, if it has one, and else the next message.
LEMMA ParseStep ==
    ASSUME TypeOK, WellFormed(Line, sent), Front, ParseHeaders
    PROVE  WellFormed(Line, sent)' /\ Front'
  <1>1. /\ request' = Line[2].n /\ request' \in DOMAIN sent /\ sent' = sent
        /\ Without(Line', Line, 2) /\ 2 \in DOMAIN Line /\ Line[2].part = "end"
        /\ at' = IF sent[request'].bad THEN "over"
                 ELSE IF sent[request'].body THEN "body" ELSE "handle"
    BY ParseActs DEF environment, clientVars
  <1>2. WellFormed(Line', sent)
    BY <1>1, LineIs, RestIsWellFormed
  <1>3. WellFormed(Line, sent)'
    BY <1>1, <1>2
  <1>4. /\ IF sent[request'].body
           THEN Line' # <<>> /\ Line'[1].part = "body" /\ Line'[1].n = request'
           ELSE Line' = <<>> \/ Starts(Line'[1])
        /\ \A i \in DOMAIN Line' : Line'[i].n > request' \/ (sent[request'].body /\ i = 1)
    BY <1>1, AfterHeadersIs
  <1>5. CASE at' = "over"
    BY <1>3, <1>5 DEF Front
  <1>6. CASE at' = "body" /\ sent[request'].body
    BY <1>1, <1>3, <1>4, <1>6 DEF Front
  <1>7. CASE at' = "handle" /\ ~sent[request'].body
    BY <1>1, <1>3, <1>4, <1>7 DEF Front
  <1> QED
    BY <1>1, <1>5, <1>6, <1>7

\* All steps keep the line in whole messages.
LEMMA LineStep ==
    ASSUME TypeOK, WellFormed(Line, sent), Front, Next
    PROVE  WellFormed(Line, sent)' /\ Front'
  <1> USE DEF environment, clientVars, streamVars
  <1>1. ASSUME NEW msg \in Messages, Send(msg)
        PROVE  WellFormed(Line, sent)' /\ Front'
    BY <1>1, SendStep
  <1>2. CASE InterleavedFrame \/ Consume
    BY <1>2, ConsumeStep
  <1>3. CASE ParseHeaders
    BY <1>3, ParseStep
  <1>4. CASE Read
    <2>1. /\ buffer = <<>> /\ UNCHANGED <<sent, at, request>>
          /\ \E k \in 1..Len(wire) :
               /\ buffer' = SubSeq(wire, 1, k)
               /\ wire' = SubSeq(wire, k + 1, Len(wire))
      BY <1>4 DEF Read
    <2>2. wire \in Seq(Parts)
      BY DEF TypeOK
    <2>3. buffer' \o wire' = wire
      BY <2>1, <2>2, ReadLine
    <2>4. Line = wire
      BY <2>1, <2>2, ConcatEmptySeq DEF Line
    <2>5. Line' = Line
      BY <2>3, <2>4 DEF Line
    <2> QED
      BY <2>1, <2>5, FrontStays
  <1>5. CASE Register \/ NewSample \/ Close \/ Lagged
    <2>1. UNCHANGED <<sent, buffer, wire, at, request>>
      BY <1>5 DEF Register, NewSample, Close, Lagged
    <2> QED
      BY <2>1, FrontStays DEF Line
  <1>6. CASE Loop \/ Eof \/ NotEnoughData \/ Handle \/ Respond \/ TakeSample \/ WriteSample
               \/ WriteFails
    <2>1. /\ UNCHANGED <<sent, buffer, wire, request>>
          /\ at' = "over"
             \/ (at \notin {"frame", "body", "over"} /\ at' \notin {"frame", "body"}
                  /\ (at' \in {"handle", "respond"} => at = "handle"))
      BY <1>6
      DEF Loop, Eof, NotEnoughData, Handle, Respond, TakeSample, WriteSample, WriteFails
    <2> QED
      BY <2>1, FrontStays DEF Line
  <1> QED
    BY <1>1, <1>2, <1>3, <1>4, <1>5, <1>6 DEF Next, handle_conn

-----------------------------------------------------------------------------
(***************************************************************************)
(* Causes of an end, and the order of the answers.                         *)
(***************************************************************************)

\* What has been sent stays as it was, and so does that the client has closed.
LEMMA PastStays ==
    ASSUME TypeOK, Next
    PROVE  /\ closed => closed'
           /\ \A n \in DOMAIN sent : n \in DOMAIN sent' /\ sent'[n] = sent[n]
           /\ newest \in Nat /\ newest' \in Nat /\ newest <= newest'
  <1> USE DEF clientVars, environment
  <1>0. newest \in Nat /\ sent \in Seq(Messages)
    BY BoundsAre DEF TypeOK
  <1>1. ASSUME NEW msg \in Messages, Send(msg)
        PROVE  closed' = closed /\ newest' = newest
               /\ \A n \in DOMAIN sent : n \in DOMAIN sent' /\ sent'[n] = sent[n]
    <2>1. sent' = Append(sent, msg) /\ closed' = closed /\ newest' = newest
      BY <1>1 DEF Send
    <2> QED
      BY <1>0, <2>1
  <1>2. CASE Register \/ NewSample \/ Close \/ handle_conn \/ WriteFails
    <2>1. sent' = sent /\ (closed => closed') /\ (newest' = newest \/ newest' = newest + 1)
      BY <1>2
      DEF Register, NewSample, Close, handle_conn, WriteFails, Loop, Read, Eof, InterleavedFrame,
          NotEnoughData, ParseHeaders, Consume, Handle, Respond, TakeSample, Lagged, WriteSample
    <2> QED
      BY <1>0, <2>1
  <1> QED
    BY <1>0, <1>1, <1>2 DEF Next

\* The connection ends for a bad request, a TEARDOWN or when the client has closed it,
\* and nothing else.
LEMMA CutOffStep ==
    ASSUME TypeOK, WellFormed(Line, sent), Front, CutOffForCause, Next
    PROVE  CutOffForCause'
  <1>1. /\ closed => closed'
        /\ \A n \in DOMAIN sent : n \in DOMAIN sent' /\ sent'[n] = sent[n]
    BY PastStays
  <1> DEFINE Cause == closed \/ \E n \in DOMAIN sent : sent[n].bad \/ sent[n].method = "TEARDOWN"
  <1>2. Cause => CutOffForCause'
    BY <1>1 DEF CutOffForCause
  <1>3. CASE at = "over"
    BY <1>2, <1>3 DEF CutOffForCause
  <1>4. CASE Eof \/ WriteFails
    BY <1>2, <1>4 DEF Eof, WriteFails
  <1>5. CASE ParseHeaders
    <2>1. request' \in DOMAIN sent /\ (at' = "over" => sent[request'].bad)
      BY <1>5, ParseActs
    <2> QED
      BY <1>2, <2>1 DEF CutOffForCause
  <1>6. CASE Respond
    <2>1. request \in DOMAIN sent /\ (at' = "over" => sent[request].method = "TEARDOWN")
      BY <1>6 DEF Respond, Front
    <2> QED
      BY <1>2, <2>1 DEF CutOffForCause
  <1>7. CASE at # "over" /\ ~(Eof \/ WriteFails \/ ParseHeaders \/ Respond)
    <2>1. at' # "over"
      BY <1>7
      DEF Next, Register, NewSample, Send, Close, handle_conn, Loop, Read, InterleavedFrame,
          NotEnoughData, Consume, Handle, TakeSample, Lagged, WriteSample
    <2> QED
      BY <2>1 DEF CutOffForCause
  <1> QED
    BY <1>3, <1>4, <1>5, <1>6, <1>7

\* What has been written stays, and at most one thing is written.
LEMMA OutIs ==
    ASSUME TypeOK, Next
    PROVE  /\ out \in Seq(Outputs) /\ Len(out) \in Nat /\ DOMAIN out = 1..Len(out)
           /\ out' \in Seq(Outputs) /\ Len(out') \in Nat /\ DOMAIN out' = 1..Len(out')
           /\ \A i \in DOMAIN out : i \in DOMAIN out' /\ out'[i] = out[i] /\ out[i].n \in Nat
           /\ \/ out' = out
              \/ /\ Len(out') = Len(out) + 1
                 /\ \/ Respond /\ out'[Len(out')] = Answer(request, status)
                    \/ WriteSample /\ out'[Len(out')] = Sample(sample)
  <1> USE DEF streamVars
  <1>1. /\ out \in Seq(Outputs) /\ Len(out) \in Nat /\ DOMAIN out = 1..Len(out)
        /\ request \in Nat /\ sample \in Nat /\ status \in {200, 400, 404}
    BY DEF TypeOK, Outputs
  <1>2. \A i \in DOMAIN out : out[i].n \in Nat
    <2>1. \A i \in DOMAIN out : out[i] \in Outputs
      BY <1>1
    <2> QED
      BY <2>1 DEF Outputs
  <1>3. CASE Respond
    <2>1. Answer(request, status) \in Outputs /\ out' = Append(out, Answer(request, status))
      BY <1>1, <1>3 DEF Respond, Answer, Outputs
    <2>2. /\ out' \in Seq(Outputs) /\ Len(out') = Len(out) + 1
          /\ \A i \in 1..Len(out) : out'[i] = out[i]
          /\ out'[Len(out) + 1] = Answer(request, status)
      BY <1>1, <2>1, AppendProperties
    <2> QED
      BY <1>1, <1>2, <1>3, <2>2
  <1>4. CASE WriteSample
    <2>1. Sample(sample) \in Outputs /\ out' = Append(out, Sample(sample))
      BY <1>1, <1>4 DEF WriteSample, Sample, Outputs
    <2>2. /\ out' \in Seq(Outputs) /\ Len(out') = Len(out) + 1
          /\ \A i \in 1..Len(out) : out'[i] = out[i]
          /\ out'[Len(out) + 1] = Sample(sample)
      BY <1>1, <2>1, AppendProperties
    <2> QED
      BY <1>1, <1>2, <1>4, <2>2
  <1>5. CASE ~(Respond \/ WriteSample)
    <2>1. out' = out
      BY <1>5
      DEF Next, Register, NewSample, Send, Close, handle_conn, WriteFails, Loop, Read, Eof,
          InterleavedFrame, NotEnoughData, ParseHeaders, Consume, Handle, TakeSample, Lagged
    <2> QED
      BY <1>1, <1>2, <2>1
  <1> QED
    BY <1>3, <1>4, <1>5

\* The answer that is written is that of the newest request.
LEMMA AnswersStep ==
    ASSUME TypeOK, WellFormed(Line, sent), Front, Answers, Next
    PROVE  Answers'
  <1> USE DEF IsAnswer
  <1>0. /\ DOMAIN out = 1..Len(out) /\ Len(out) \in Nat
        /\ DOMAIN out' = 1..Len(out')
        /\ \A i \in DOMAIN out : i \in DOMAIN out' /\ out'[i] = out[i] /\ out[i].n \in Nat
    BY OutIs
  <1>1. \A n \in DOMAIN sent : n \in DOMAIN sent' /\ sent'[n] = sent[n]
    BY PastStays
  <1>2. request \in Nat
    BY DEF TypeOK
  <1>3. CASE Respond
    <2>1. /\ Len(out') = Len(out) + 1 /\ out'[Len(out')] = Answer(request, status)
          /\ at = "respond" /\ request' = request /\ at' \in {"loop", "over"}
      <3>1. out' # out
        BY <1>3, OutIs DEF Respond, TypeOK, Outputs
      <3>2. ~WriteSample
        BY <1>3 DEF Respond, WriteSample
      <3> QED
        BY <1>3, <3>1, <3>2, OutIs DEF Respond
    <2>2. request \in DOMAIN sent
      BY <2>1 DEF Front
    <2>3. \A i \in DOMAIN out : out[i].kind = "answer" => out[i].n < request /\ out[i].n \in DOMAIN sent
      BY <2>1 DEF Answers
    <2>4. out'[Len(out')].n = request
      BY <2>1 DEF Answer
    <2>5. \A i \in DOMAIN out' : i = Len(out') \/ i \in DOMAIN out
      BY <1>0, <2>1
    <2>6. \A i, j \in DOMAIN out' : i < j => i \in DOMAIN out
      BY <1>0, <2>1
    <2>7. AnswersInOrder'
      BY <1>0, <2>3, <2>4, <2>5, <2>6 DEF Answers, AnswersInOrder
    <2>8. ASSUME NEW i \in DOMAIN out', out'[i].kind = "answer"
          PROVE  out'[i].n \in DOMAIN sent' /\ out'[i].n <= request
      <3>1. CASE i = Len(out')
        BY <1>1, <1>2, <2>2, <2>4, <3>1
      <3>2. CASE i \in DOMAIN out
        BY <1>0, <1>1, <1>2, <2>3, <2>8, <3>2
      <3> QED
        BY <2>5, <3>1, <3>2
    <2> QED
      BY <2>1, <2>7, <2>8 DEF Answers
  <1>4. CASE WriteSample
    <2>1. /\ Len(out') = Len(out) + 1 /\ out'[Len(out')] = Sample(sample)
          /\ at = "write" /\ request' = request /\ at' = "loop"
      <3>1. out' # out
        BY <1>4, OutIs DEF WriteSample, TypeOK, Outputs
      <3>2. ~Respond
        BY <1>4 DEF Respond, WriteSample
      <3> QED
        BY <1>4, <3>1, <3>2, OutIs DEF WriteSample
    <2>2. \A i \in DOMAIN out' : out'[i].kind = "answer" => i \in DOMAIN out
      BY <1>0, <2>1 DEF Sample
    <2>3. AnswersInOrder'
      BY <1>0, <2>2 DEF Answers, AnswersInOrder
    <2> QED
      BY <1>0, <1>1, <2>1, <2>2, <2>3 DEF Answers
  <1>5. CASE ParseHeaders
    <2>1. at = "fill" /\ request' > request /\ request' \in DOMAIN sent /\ out' = out
      BY <1>5, ParseActs
    <2>2. request' \in Nat
      BY <2>1 DEF TypeOK
    <2>3. \A i \in DOMAIN out : out[i].kind = "answer" =>
             out[i].n \in DOMAIN sent /\ out[i].n <= request
      BY <2>1 DEF Answers
    <2>4. \A i \in DOMAIN out : out[i].kind = "answer" => out[i].n < request'
      BY <1>0, <1>2, <2>1, <2>2, <2>3
    <2>5. \A i \in DOMAIN out : out[i].kind = "answer" => out[i].n <= request'
      BY <1>0, <2>2, <2>4
    <2>6. AnswersInOrder'
      BY <2>1 DEF Answers, AnswersInOrder
    <2> QED
      BY <1>1, <2>1, <2>3, <2>4, <2>5, <2>6 DEF Answers
  <1>6. CASE ~(Respond \/ WriteSample \/ ParseHeaders)
    <2>1. out' = out
      BY <1>6, OutIs
    <2>2. /\ request' = request
          /\ at' # "over" => at # "over"
          /\ at' \in {"body", "handle", "respond"} => at \in {"body", "handle", "respond"}
      BY <1>6
      DEF Next, Register, NewSample, Send, Close, handle_conn, WriteFails, Loop, Read, Eof,
          InterleavedFrame, NotEnoughData, Consume, Handle, TakeSample, Lagged
    <2>3. AnswersInOrder'
      BY <2>1 DEF Answers, AnswersInOrder
    <2> QED
      BY <1>1, <2>1, <2>2, <2>3 DEF Answers
  <1> QED
    BY <1>3, <1>4, <1>5, <1>6

-----------------------------------------------------------------------------
(***************************************************************************)
(* Samples follow PLAY.                                                    *)
(***************************************************************************)

\* An answer that is on the connection stays there.
LEMMA AnswersStay ==
    ASSUME TypeOK, Answers, Next, NEW k
    PROVE  /\ SetupBefore(k) => SetupBefore(k)'
           /\ PlayBefore(k) => PlayBefore(k)'
  <1>1. \A i \in DOMAIN out : i \in DOMAIN out' /\ out'[i] = out[i]
    BY OutIs
  <1>2. \A n \in DOMAIN sent : sent'[n] = sent[n]
    BY PastStays
  <1>3. \A i \in DOMAIN out : IsAnswer(i) => out[i].n \in DOMAIN sent
    BY DEF Answers
  <1>4. ASSUME NEW i \in DOMAIN out, NEW method, Ok(i, method)
        PROVE  Ok(i, method)'
    <2>1. i \in DOMAIN out' /\ out'[i] = out[i] /\ sent'[out[i].n] = sent[out[i].n]
      BY <1>1, <1>2, <1>3, <1>4 DEF Ok
    <2> QED
      BY <1>4, <2>1 DEF Ok, IsAnswer
  <1>5. ASSUME NEW j, SetupBefore(j)
        PROVE  SetupBefore(j)'
    BY <1>1, <1>4, <1>5 DEF SetupBefore
  <1>6. ASSUME PlayBefore(k)
        PROVE  PlayBefore(k)'
    <2>1. PICK j \in DOMAIN out : j < k /\ Ok(j, "PLAY") /\ SetupBefore(j)
      BY <1>6 DEF PlayBefore
    <2>2. j \in DOMAIN out' /\ Ok(j, "PLAY")' /\ SetupBefore(j)'
      BY <1>1, <1>4, <1>5, <2>1
    <2> QED
      BY <2>1, <2>2 DEF PlayBefore
  <1> QED
    BY <1>5, <1>6

\* An answer before the end of what is written is before a later end, too.
LEMMA BeforeLater ==
    ASSUME TypeOK, NEW k \in Nat, NEW l \in Nat, k <= l
    PROVE  /\ SetupBefore(k) => SetupBefore(l)
           /\ PlayBefore(k) => PlayBefore(l)
           /\ TypeOK' /\ SetupBefore(k)' => SetupBefore(l)'
           /\ TypeOK' /\ PlayBefore(k)' => PlayBefore(l)'
  <1>1. DOMAIN out \subseteq Nat
    BY DEF TypeOK
  <1>2. TypeOK' => DOMAIN out' \subseteq Nat
    BY DEF TypeOK
  <1>3. \A j \in Nat : j < k => j < l
    OBVIOUS
  <1>4. SetupBefore(k) => SetupBefore(l)
    BY <1>1, <1>3 DEF SetupBefore
  <1>5. PlayBefore(k) => PlayBefore(l)
    BY <1>1, <1>3 DEF PlayBefore
  <1>6. TypeOK' /\ SetupBefore(k)' => SetupBefore(l)'
    BY <1>2, <1>3 DEF SetupBefore
  <1>7. TypeOK' /\ PlayBefore(k)' => PlayBefore(l)'
    BY <1>2, <1>3 DEF PlayBefore
  <1> QED
    BY <1>4, <1>5, <1>6, <1>7

\* What has been written stays written.
LEMMA Lasting ==
    ASSUME TypeOK, TypeOK', Answers, Next
    PROVE  (SetUp => SetUp') /\ (Played => Played')
  <1>1. PICK k \in Nat, l \in Nat : k = Len(out) + 1 /\ l = Len(out') + 1 /\ k <= l
    <2>1. Len(out) \in Nat /\ Len(out') \in Nat /\ (out' = out \/ Len(out') = Len(out) + 1)
      BY OutIs
    <2> QED
      BY <2>1
  <1>2. (SetupBefore(k) => SetupBefore(l)') /\ (PlayBefore(k) => PlayBefore(l)')
    BY <1>1, AnswersStay, BeforeLater
  <1>3. (SetUp => SetupBefore(k)) /\ (Played => PlayBefore(k))
    BY <1>1 DEF SetUp, Played
  <1>4. (SetupBefore(l)' => SetUp') /\ (PlayBefore(l)' => Played')
    BY <1>1 DEF SetUp, Played, SetupBefore, PlayBefore
  <1> QED
    BY <1>2, <1>3, <1>4

\* The answer that is written is one to a SETUP, or to a PLAY.
LEMMA Responds ==
    ASSUME TypeOK, TypeOK', Answers, Next, Respond
    PROVE  /\ Asks("SETUP") => SetUp'
           /\ Asks("PLAY") /\ SetUp => Played'
  <1>1. /\ out' \in Seq(Outputs) /\ Len(out') = Len(out) + 1 /\ Len(out) \in Nat
        /\ DOMAIN out' = 1..Len(out') /\ out'[Len(out')] = Answer(request, status)
    <2>1. out' # out /\ ~WriteSample
      BY OutIs DEF Respond, WriteSample, TypeOK, Outputs
    <2> QED
      BY <2>1, OutIs
  <1>2. \A n \in DOMAIN sent : sent'[n] = sent[n]
    BY PastStays
  <1>3. PICK l \in Nat : l = Len(out')
    BY <1>1
  <1>4. l \in DOMAIN out' /\ l < Len(out') + 1 /\ l = Len(out) + 1
    BY <1>1, <1>3
  <1>5. ASSUME NEW method, Asks(method)
        PROVE  Ok(l, method)'
    <2>1. out'[l] = Answer(request, status) /\ status = 200 /\ sent'[request].method = method
      BY <1>1, <1>2, <1>3, <1>5 DEF Asks
    <2> QED
      BY <2>1 DEF Ok, IsAnswer, Answer
  <1>6. Asks("SETUP") => SetUp'
    BY <1>4, <1>5 DEF SetUp, SetupBefore
  <1>7. SetUp => SetupBefore(l)'
    <2>1. SetUp => SetupBefore(l)
      BY <1>4 DEF SetUp
    <2> QED
      BY <2>1, AnswersStay
  <1>8. Asks("PLAY") /\ SetUp => Played'
    BY <1>4, <1>5, <1>7 DEF Played, PlayBefore
  <1> QED
    BY <1>6, <1>8

\* A connection is set up and plays only after the answers that say so.
LEMMA PermittedStep ==
    ASSUME TypeOK, TypeOK', Front, Answers, Permitted, Next
    PROVE  Permitted'
  <1> USE DEF streamVars, environment, clientVars
  <1>0. (SetUp => SetUp') /\ (Played => Played')
    BY Lasting
  <1>1. Playing => at \in {"loop", "respond", "write", "over"}
    BY DEF TypeOK
  <1>2. CASE Handle
    <2>1. /\ at = "handle" /\ at' = "respond" /\ request' = request /\ sent' = sent
          /\ ~Playing /\ request \in DOMAIN sent
      BY <1>1, <1>2 DEF Handle, Front
    <2> DEFINE method == sent[request].method
    <2>2. /\ status' = CASE method = "SETUP" /\ ~registered -> 404
                         [] method = "PLAY" /\ ~setup -> 400
                         [] OTHER -> 200
          /\ setup' = (method # "TEARDOWN" /\ (setup \/ (method = "SETUP" /\ registered)))
          /\ rx' = CASE method = "PLAY" /\ setup -> newest + 1
                     [] method \in {"PAUSE", "TEARDOWN"} -> NotPlaying
                     [] OTHER -> rx
      BY <1>2 DEF Handle, MayPlay
    <2> HIDE DEF method
    <2>3. setup => SetUp
      BY <2>1 DEF Permitted
    <2>4. setup' => setup \/ (method = "SETUP" /\ status' = 200)
      BY <2>2
    <2>5. rx' # NotPlaying => method = "PLAY" /\ setup /\ status' = 200
      BY <2>1, <2>2 DEF Playing
    <2>6. \A m : method = m /\ status' = 200 => Asks(m)'
      BY <2>1 DEF Asks, method
    <2>7. setup' => SetUp' \/ (at' = "respond" /\ Asks("SETUP")')
      BY <1>0, <2>1, <2>3, <2>4, <2>6
    <2>8. Playing' => at' = "respond" /\ Asks("PLAY")' /\ SetUp'
      BY <1>0, <2>1, <2>3, <2>5, <2>6 DEF Playing
    <2> QED
      BY <2>7, <2>8 DEF Permitted
  <1>3. CASE Respond
    <2>1. at = "respond" /\ at' \in {"loop", "over"} /\ setup' = setup /\ rx' = rx
      BY <1>3 DEF Respond
    <2>2. setup => SetUp'
      BY <1>0, <1>3, <2>1, Responds DEF Permitted
    <2>3. Playing => Played'
      BY <1>3, <2>1, Responds DEF Permitted
    <2>4. Playing' <=> Playing
      BY <2>1 DEF Playing
    <2> QED
      BY <2>1, <2>2, <2>3, <2>4 DEF Permitted
  <1>4. CASE TakeSample \/ WriteSample \/ Lagged
    <2>1. at \in {"loop", "write"} /\ at' \in {"loop", "write"} /\ setup' = setup
          /\ (Playing' => Playing \/ Lagged)
      BY <1>4 DEF TakeSample, WriteSample, Lagged, Playing
    <2>2. Lagged => Playing
      BY DEF Lagged, Playing
    <2> QED
      BY <1>0, <2>1, <2>2 DEF Permitted
  <1>5. CASE Loop \/ Read \/ Eof \/ InterleavedFrame \/ NotEnoughData \/ ParseHeaders \/ Consume
    <2>1. at \notin {"respond", "over"} /\ UNCHANGED <<setup, rx>>
      BY <1>5
      DEF Loop, Read, Eof, InterleavedFrame, NotEnoughData, ParseHeaders, Consume
    <2>2. ~Playing
      BY <1>1, <1>5
      DEF Loop, Read, Eof, InterleavedFrame, NotEnoughData, ParseHeaders, Consume, Playing
    <2>3. ~Playing'
      BY <2>1, <2>2 DEF Playing
    <2> QED
      BY <1>0, <2>1, <2>3 DEF Permitted
  <1>6. CASE WriteFails
    BY <1>6 DEF WriteFails, Permitted
  <1>7. ASSUME Register \/ NewSample \/ Close \/ \E msg \in Messages : Send(msg)
        PROVE  Permitted'
    <2>1. UNCHANGED <<at, setup, rx, request, status>>
      BY <1>7 DEF Register, NewSample, Close, Send
    <2>2. ASSUME NEW m, Asks(m)
          PROVE  Asks(m)'
      BY <2>1, <2>2, PastStays DEF Asks
    <2>3. Playing' <=> Playing
      BY <2>1 DEF Playing
    <2> QED
      BY <1>0, <2>1, <2>2, <2>3 DEF Permitted
  <1> QED
    BY <1>2, <1>3, <1>4, <1>5, <1>6, <1>7 DEF Next, handle_conn

\* The receiver only ever moves forward.
LEMMA ReadingStep ==
    ASSUME TypeOK, Reading, Next
    PROVE  Reading'
  <1> USE DEF streamVars, environment, clientVars, Playing, NotPlaying
  <1>0. /\ newest \in Nat /\ newest' \in Nat /\ newest <= newest' /\ rx \in Nat /\ sample \in Nat
        /\ Capacity \in Nat \ {0}
    BY PastStays, BoundsAre DEF TypeOK
  <1>1. CASE Handle
    <2>1. /\ at' = "respond" /\ newest' = newest
          /\ rx' \in {newest + 1, NotPlaying, rx} /\ at = "handle"
      BY <1>1 DEF Handle
    <2> QED
      BY <1>0, <2>1 DEF Reading
  <1>2. CASE TakeSample
    <2>1. /\ rx # NotPlaying /\ rx <= newest /\ sample' = rx /\ rx' = rx + 1 /\ newest' = newest
      BY <1>2 DEF TakeSample
    <2> QED
      BY <1>0, <2>1 DEF Reading
  <1>3. CASE Lagged
    <2>1. rx' = Oldest /\ newest' = newest /\ at' = "loop"
      BY <1>3 DEF Lagged, AfterLag
    <2>2. Oldest <= newest + 1
      BY <1>0 DEF Oldest
    <2> QED
      BY <2>1, <2>2 DEF Reading
  <1>4. CASE ~(Handle \/ TakeSample \/ Lagged)
    <2>1. UNCHANGED <<rx, sample>> /\ (at' = "write" => at = "write")
      BY <1>4
      DEF Next, Register, NewSample, Send, Close, handle_conn, WriteFails, Loop, Read, Eof,
          InterleavedFrame, NotEnoughData, ParseHeaders, Consume, Respond, WriteSample
    <2>2. Playing => rx <= newest' + 1
      <3>1. \A n \in Nat : newest <= n /\ rx <= newest + 1 => rx <= n + 1
        BY <1>0
      <3> QED
        BY <1>0, <3>1 DEF Reading
    <2> QED
      BY <2>1, <2>2 DEF Reading
  <1> QED
    BY <1>1, <1>2, <1>3, <1>4

\* A sample that is written follows what was written before.
LEMMA WrittenStep ==
    ASSUME TypeOK, TypeOK', Answers, Samples, Next, NEW k \in DOMAIN out', IsSample(k)'
    PROVE  Written(k)'
  <1> USE DEF streamVars, environment, clientVars, IsSample
  <1>0. /\ newest \in Nat /\ newest' \in Nat /\ newest <= newest' /\ rx \in Nat /\ sample \in Nat
        /\ Capacity \in Nat \ {0}
    BY PastStays, BoundsAre DEF TypeOK
  <1>1. /\ DOMAIN out = 1..Len(out) /\ Len(out) \in Nat /\ DOMAIN out' = 1..Len(out')
        /\ \A i \in DOMAIN out : i \in DOMAIN out' /\ out'[i] = out[i] /\ out[i].n \in Nat
    BY OutIs
  <1>2. CASE k \in DOMAIN out
    <2>1. Written(k) /\ out'[k] = out[k] /\ out[k].n \in Nat
      BY <1>1, <1>2 DEF Samples
    <2>2. PlayBefore(k)'
      BY <2>1, AnswersStay DEF Written
    <2>3. out'[k].n <= newest'
      BY <1>0, <2>1 DEF Written
    <2>4. ASSUME NEW i \in DOMAIN out', i < k, IsSample(i)'
          PROVE  out'[i].n < out'[k].n
      <3>1. i \in DOMAIN out
        BY <1>1, <1>2, <2>4
      <3>2. out'[i] = out[i] /\ IsSample(i)
        BY <1>1, <2>4, <3>1
      <3> QED
        BY <2>1, <2>4, <3>1, <3>2 DEF Written
    <2>5. /\ Playing' => out[k].n < rx'
          /\ at' = "write" => out[k].n < sample'
      <3>1. CASE Handle
        <4>1. rx' \in {newest + 1, NotPlaying, rx} /\ at' # "write"
          BY <3>1 DEF Handle
        <4>2. out[k].n < newest + 1
          BY <1>0, <2>1 DEF Written
        <4> QED
          BY <2>1, <4>1, <4>2 DEF Written, Playing
      <3>2. CASE TakeSample
        <4>1. Playing /\ sample' = rx /\ rx' = rx + 1
          BY <3>2 DEF TakeSample, Playing
        <4>2. out[k].n < rx
          BY <2>1, <4>1 DEF Written
        <4> QED
          BY <1>0, <2>1, <4>1, <4>2
      <3>3. CASE Lagged
        <4>1. Playing /\ rx < Oldest /\ rx' = Oldest /\ at' = "loop"
          BY <3>3 DEF Lagged, AfterLag, Playing
        <4>2. out[k].n < rx /\ Oldest \in Nat
          BY <1>0, <2>1, <4>1 DEF Written, Oldest
        <4> QED
          BY <1>0, <2>1, <4>1, <4>2
      <3>4. CASE ~(Handle \/ TakeSample \/ Lagged)
        <4>1. UNCHANGED <<rx, sample>> /\ (at' = "write" => at = "write")
          BY <3>4
          DEF Next, Register, NewSample, Send, Close, handle_conn, WriteFails, Loop, Read, Eof,
              InterleavedFrame, NotEnoughData, ParseHeaders, Consume, Respond, WriteSample
        <4> QED
          BY <2>1, <4>1 DEF Written, Playing
      <3> QED
        BY <3>1, <3>2, <3>3, <3>4
    <2> QED
      BY <2>1, <2>2, <2>3, <2>4, <2>5 DEF Written
  <1>3. CASE k \notin DOMAIN out
    <2>1. /\ WriteSample /\ k = Len(out') /\ Len(out') = Len(out) + 1 /\ out'[k] = Sample(sample)
      <3>1. out' # out
        BY <1>3
      <3>2. k = Len(out') /\ Len(out') = Len(out) + 1
        <4>1. Len(out') = Len(out) + 1
          BY <3>1, OutIs
        <4> QED
          BY <1>1, <1>3, <4>1
      <3>3. ~(Respond /\ out'[k] = Answer(request, status))
        BY DEF Answer
      <3> QED
        BY <3>1, <3>2, <3>3, OutIs
    <2>2. at = "write" /\ at' = "loop" /\ rx' = rx /\ newest' = newest
      BY <2>1 DEF WriteSample
    <2>3. Playing /\ sample < rx /\ rx <= newest + 1 /\ Played
      BY <2>2 DEF Samples, Reading, Permitted
    <2>4. out'[k].n = sample /\ sample <= newest'
      <3>1. sample <= newest
        BY <1>0, <2>3
      <3> QED
        BY <2>1, <2>2, <3>1 DEF Sample
    <2>5. PlayBefore(k)'
      <3>1. PlayBefore(k)
        BY <2>1, <2>3 DEF Played
      <3> QED
        BY <3>1, AnswersStay
    <2>6. ASSUME NEW i \in DOMAIN out', i < k, IsSample(i)'
          PROVE  out'[i].n < sample
      <3>1. i \in DOMAIN out
        BY <1>1, <2>1, <2>6
      <3>2. out'[i] = out[i] /\ IsSample(i)
        BY <1>1, <2>6, <3>1
      <3> QED
        BY <2>2, <3>1, <3>2 DEF Samples, Written
    <2> QED
      BY <2>2, <2>3, <2>4, <2>5, <2>6 DEF Written
  <1> QED
    BY <1>2, <1>3

-----------------------------------------------------------------------------
(***************************************************************************)
(* The theorems.                                                           *)
(***************************************************************************)
LEMMA InvInit == Init => Inv
  <1> SUFFICES ASSUME Init PROVE Inv
    OBVIOUS
  <1>1. TypeOK /\ CutOffForCause
    <2>1. \A S : <<>> \in Seq(S) /\ Len(<<>>) = 0
      OBVIOUS
    <2>2. TypeOK
      <3>1. /\ sent \in Seq(Messages) /\ wire \in Seq(Parts) /\ buffer \in Seq(Parts)
            /\ out \in Seq(Outputs) /\ Len(sent) = 0
        BY <2>1 DEF Init
      <3>2. /\ Len(sent) <= MaxMessages /\ request \in 0..Len(sent) /\ newest \in 0..MaxSamples
            /\ rx = 0 /\ sample = 0
        BY <3>1, BoundsAre DEF Init, NotPlaying
      <3>3. registered \in BOOLEAN /\ closed \in BOOLEAN /\ setup \in BOOLEAN
        BY DEF Init
      <3>4. /\ at \in {"loop", "fill", "frame", "body", "handle", "respond", "write", "over"}
            /\ status \in {200, 400, 404} /\ ~Playing
        BY DEF Init, Playing
      <3>5. Len(sent) <= MaxMessages /\ rx \in Nat /\ sample \in Nat
        BY <3>2
      <3> QED
        BY <3>1, <3>2, <3>3, <3>4, <3>5 DEF TypeOK, Outputs
    <2>3. CutOffForCause
      BY DEF Init, CutOffForCause
    <2> QED
      BY <2>2, <2>3
  <1>2. Line = <<>> /\ out = <<>> /\ DOMAIN out = {} /\ at = "loop" /\ ~setup /\ ~Playing
    BY DEF Init, Line, Playing
  <1>3. WellFormed(Line, sent) /\ Front
    BY <1>2 DEF WellFormed, InOrder, Front
  <1>4. Answers
    BY <1>2 DEF Answers, AnswersInOrder
  <1>5. Samples
    BY <1>2 DEF Samples, Permitted, Reading
  <1> QED
    BY <1>1, <1>3, <1>4, <1>5 DEF Inv

\* All steps together.
LEMMA InvStep ==
    ASSUME Inv, [Next]_vars
    PROVE  Inv'
  <1> USE DEF Inv
  <1>1. CASE UNCHANGED vars
    <2> USE <1>1 DEF vars, clientVars, streamVars
    <2>1. TypeOK' /\ CutOffForCause'
      BY DEF TypeOK, Playing, CutOffForCause
    <2>2. WellFormed(Line, sent)' /\ Front'
      <3>1. Line' = Line
        BY DEF Line
      <3> QED
        BY <3>1, FrontStays
    <2>3. Answers'
      BY DEF Answers, AnswersInOrder, IsAnswer
    <2>4. ASSUME NEW k
          PROVE  /\ SetupBefore(k)' <=> SetupBefore(k)
                 /\ PlayBefore(k)' <=> PlayBefore(k)
      BY DEF SetupBefore, PlayBefore, Ok, IsAnswer
    <2>5. (SetUp' <=> SetUp) /\ (Played' <=> Played)
      BY DEF SetUp, Played, SetupBefore, PlayBefore, Ok, IsAnswer
    <2>6. Permitted' /\ Reading'
      BY <2>5 DEF Permitted, Reading, Asks, Playing, Samples
    <2>7. \A k \in DOMAIN out' : IsSample(k)' => Written(k)'
      BY <2>4 DEF Samples, Written, IsSample, Playing
    <2> QED
      BY <2>1, <2>2, <2>3, <2>6, <2>7 DEF Samples
  <1>2. CASE Next
    <2>1. TypeOK'
      BY <1>2, TypeStep
    <2>2. WellFormed(Line, sent)' /\ Front' /\ CutOffForCause' /\ Answers'
      BY <1>2, LineStep, CutOffStep, AnswersStep
    <2>3. Permitted' /\ Reading'
      BY <1>2, <2>1, PermittedStep, ReadingStep DEF Samples
    <2>4. \A k \in DOMAIN out' : IsSample(k)' => Written(k)'
      BY <1>2, <2>1, WrittenStep
    <2> QED
      BY <2>1, <2>2, <2>3, <2>4 DEF Samples
  <1> QED
    BY <1>1, <1>2

\* What has not been consumed is whole messages in their order, but for the part of one
\* that handle_conn knows it is in, and what has been written answers what came before.
THEOREM ConnectionIsInStep == Spec => []Inv
  BY InvInit, InvStep, PTL DEF Spec

\* Every variable keeps its type, and handle_conn is never both in a request and playing,
\* nor playing without a SETUP.
THEOREM TypeCorrect == Spec => []TypeOK
  <1>1. Inv => TypeOK
    BY DEF Inv
  <1> QED
    BY <1>1, ConnectionIsInStep, PTL

\* In whatever pieces requests, bodies and frames arrive, the handler takes no part of one
\* for another: it ends the connection only for cause and answers in order.
THEOREM KeptApart == Spec => []MessagesAreKeptApart
  <1>1. Inv => MessagesAreKeptApart
    BY DEF Inv, Answers, MessagesAreKeptApart
  <1> QED
    BY <1>1, ConnectionIsInStep, PTL

\* A sample on the connection comes after the answers to a SETUP and then a PLAY that
\* succeeded, and after every older sample.
THEOREM PlayFirst == Spec => []SamplesFollowPlay
  <1>1. Inv => SamplesFollowPlay
    <2> SUFFICES ASSUME Inv, NEW k \in DOMAIN out, out[k].kind = "sample"
                 PROVE  /\ \E i, j \in 1..k : /\ i < j
                                              /\ Ok(i, "SETUP") /\ Ok(j, "PLAY")
                        /\ \A i \in 1..(k - 1) : out[i].kind = "sample" => out[i].n < out[k].n
      BY DEF SamplesFollowPlay, Ok, IsAnswer
    <2>1. Written(k)
      BY DEF Inv, Samples, IsSample
    <2>2. DOMAIN out = 1..Len(out) /\ Len(out) \in Nat
      BY DEF Inv, TypeOK
    <2>3. PICK j \in DOMAIN out : j < k /\ Ok(j, "PLAY") /\ SetupBefore(j)
      BY <2>1 DEF Written, PlayBefore
    <2>4. PICK i \in DOMAIN out : i < j /\ Ok(i, "SETUP")
      BY <2>3 DEF SetupBefore
    <2>5. i \in 1..k /\ j \in 1..k
      BY <2>2, <2>3, <2>4
    <2>6. ASSUME NEW m \in 1..(k - 1), out[m].kind = "sample"
          PROVE  out[m].n < out[k].n
      <3>1. m \in DOMAIN out /\ m < k
        BY <2>2
      <3> QED
        BY <2>1, <2>6, <3>1 DEF Written, IsSample
    <2> QED
      BY <2>3, <2>4, <2>5, <2>6
  <1> QED
    BY <1>1, ConnectionIsInStep, PTL
=============================================================================
