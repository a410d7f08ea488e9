---------------------------- MODULE RtspSession ----------------------------
(***************************************************************************)
(* One connection of the RTSP server: handle_conn, its client, and the     *)
(* broadcast channel of encoded samples it subscribes to.                  *)
(*                                                                         *)
(* The client may send requests without waiting for the answers, frames of *)
(* RTP or RTCP between them, and close at any time.  TCP cuts what it      *)
(* sends into pieces of its own choice.  What travels is abstract: a       *)
(* request is its head, the empty line that ends the headers and perhaps a *)
(* body; an interleaved frame is its '$' and the rest.                     *)
(*                                                                         *)
(* A definition marked "Mistake" is not used: put in the place of the one  *)
(* that follows it, it shows which property notices that mistake.          *)
(***************************************************************************)
EXTENDS Integers, Sequences

CONSTANTS
    Messages,       \* what the client may send
    MaxMessages,    \* bound on the messages of the connection
    Capacity,       \* places of the broadcast channel; 8 in the code
    MaxSamples      \* bound on the samples

Methods == {"OPTIONS", "SETUP", "PLAY", "PAUSE", "TEARDOWN"}

\* A message is a method, or "RTP" for an interleaved frame; whether it has a
\* body; whether it is a request the parser or the handler turns down: no CSeq,
\* a Content-Length that is too large, headers that are none.
MessageType == [method : Methods \cup {"RTP"}, body : BOOLEAN, bad : BOOLEAN]

ASSUME MessagesAssumption == Messages \subseteq MessageType
ASSUME BoundsAssumption ==
    MaxMessages \in Nat /\ MaxSamples \in Nat /\ Capacity \in Nat \ {0}

VARIABLES
    registered, \* the monitor is in the application's registry
    newest,     \* number of the newest sample in the broadcast channel
    sent,       \* what the client has sent, message by message
    closed,     \* the client has closed the connection
    wire,       \* the parts of messages not read from the socket yet
    at,         \* where handle_conn is
    buffer,     \* the parts in the BufReader
    request,    \* the number of the request it answers
    status,     \* status_code
    setup,      \* data_tx is there
    rx,         \* data_rx: the sample it wants next, or NotPlaying
    sample,     \* the sample it writes
    out         \* what the client gets: answers and samples

clientVars == <<sent, closed>>
streamVars == <<setup, rx, sample>>
vars == <<registered, newest, clientVars, wire, at, buffer, request, status,
          streamVars, out>>

NotPlaying == 0
Answer(n, s) == [kind |-> "answer", n |-> n, status |-> s]
Sample(n) == [kind |-> "sample", n |-> n, status |-> 200]

Part(p, n) == [part |-> p, n |-> n]
PartsOf(msg, n) ==
    IF msg.method = "RTP" THEN <<Part("$", n), Part("frame", n)>>
    ELSE <<Part("head", n), Part("end", n)>>
            \o (IF msg.body THEN <<Part("body", n)>> ELSE <<>>)

Init ==
    /\ registered \in BOOLEAN
    /\ newest = 0
    /\ sent = <<>> /\ closed = FALSE /\ wire = <<>>
    /\ at = "loop" /\ buffer = <<>> /\ request = 0 /\ status = 200
    /\ setup = FALSE /\ rx = NotPlaying /\ sample = 0
    /\ out = <<>>

-----------------------------------------------------------------------------
(***************************************************************************)
(* The service around the connection, and the client.                      *)
(***************************************************************************)

\* The servers start before the monitor does.
Register ==
    /\ ~registered
    /\ registered' = TRUE
    /\ UNCHANGED <<newest, clientVars, wire, at, buffer, request, status, streamVars, out>>

NewSample ==
    /\ registered /\ newest < MaxSamples
    /\ newest' = newest + 1
    /\ UNCHANGED <<registered, clientVars, wire, at, buffer, request, status, streamVars, out>>

Send(msg) ==
    /\ ~closed /\ Len(sent) < MaxMessages
    /\ sent' = Append(sent, msg)
    /\ wire' = wire \o PartsOf(msg, Len(sent'))
    /\ UNCHANGED <<registered, newest, closed, at, buffer, request, status, streamVars, out>>

Close ==
    /\ ~closed
    /\ closed' = TRUE
    /\ UNCHANGED <<registered, newest, sent, wire, at, buffer, request, status, streamVars, out>>

-----------------------------------------------------------------------------
(***************************************************************************)
(* handle_conn while it is not playing.                                    *)
(***************************************************************************)
environment == <<registered, newest, clientVars>>

\* Mistake: it waits for data that are new to the socket.
ReadableWhenNew == wire # <<>> \/ closed
\* tokio takes a socket as readable until a read found nothing, on Windows after a
\* short read, too.  So readable() does not wait; fill_buf does.
Readable == TRUE

Loop ==
    /\ at = "loop"
    /\ rx = NotPlaying
    /\ Readable
    /\ at' = "fill"
    /\ UNCHANGED <<environment, wire, buffer, request, status, streamVars, out>>

\* A read of the socket, which may end anywhere: fill_buf and read_exact alike read
\* it only when the buffer is empty.
Read ==
    /\ at \in {"fill", "frame", "body"}
    /\ buffer = <<>>
    /\ \E k \in 1..Len(wire) :
         /\ buffer' = SubSeq(wire, 1, k)
         /\ wire' = SubSeq(wire, k + 1, Len(wire))
    /\ UNCHANGED <<environment, at, request, status, streamVars, out>>

Eof ==
    /\ at \in {"fill", "frame", "body"}
    /\ buffer = <<>> /\ wire = <<>> /\ closed
    /\ at' = "over"
    /\ UNCHANGED <<environment, wire, buffer, request, status, streamVars, out>>

InterleavedFrame ==
    /\ at = "fill"
    /\ buffer # <<>> /\ Head(buffer).part = "$"
    /\ buffer' = Tail(buffer)
    /\ at' = "frame"
    /\ UNCHANGED <<environment, wire, request, status, streamVars, out>>

HeaderEnds == {i \in DOMAIN buffer : buffer[i].part = "end"}
IsRequest == buffer # <<>> /\ Head(buffer).part # "$"

\* The end of the headers is not in the buffer: the loop goes round.
NotEnoughData ==
    /\ at = "fill"
    /\ IsRequest /\ HeaderEnds = {}
    /\ at' = "loop"
    /\ UNCHANGED <<environment, wire, buffer, request, status, streamVars, out>>

\* consume(body_offset).
AfterHeaders(e) == SubSeq(buffer, e + 1, Len(buffer))

\* What precedes the end of the headers is a request the parser takes, the head of
\* a message first, or the connection ends.
ParseHeaders ==
    /\ at = "fill"
    /\ IsRequest
    /\ \E e \in HeaderEnds :
         /\ \A i \in HeaderEnds : e <= i
         /\ buffer' = AfterHeaders(e)
         /\ request' = buffer[e].n
         /\ at' = IF e # 2 \/ Head(buffer).part # "head" \/ sent[buffer[e].n].bad
                  THEN "over"
                  ELSE IF sent[buffer[e].n].body THEN "body" ELSE "handle"
    /\ UNCHANGED <<environment, wire, status, streamVars, out>>

\* Mistake: the body of a request is left where it is.
BodyLeftBehind == buffer
\* What read_exact leaves in the buffer.
AfterBody == Tail(buffer)

\* The rest of a frame or the body of a request is in the buffer.
Consume ==
    /\ at \in {"frame", "body"}
    /\ buffer # <<>>
    /\ buffer' = IF at = "body" THEN AfterBody ELSE Tail(buffer)
    /\ at' = IF at = "body" THEN "handle" ELSE "loop"
    /\ UNCHANGED <<environment, wire, request, status, streamVars, out>>

\* Mistake: PLAY needs no SETUP.
PlayAtOnce == registered
MayPlay == setup

\* The request is obeyed.
Handle ==
    /\ at = "handle"
    /\ at' = "respond"
    /\ LET method == sent[request].method IN
         /\ status' = CASE method = "SETUP" /\ ~registered -> 404
                        [] method = "PLAY" /\ ~MayPlay -> 400
                        [] OTHER -> 200
         /\ setup' = (method # "TEARDOWN"
                        /\ (setup \/ (method = "SETUP" /\ registered)))
         /\ rx' = CASE method = "PLAY" /\ MayPlay -> newest + 1
                    [] method \in {"PAUSE", "TEARDOWN"} -> NotPlaying
                    [] OTHER -> rx
    /\ UNCHANGED <<environment, wire, buffer, request, sample, out>>

Respond ==
    /\ at = "respond"
    /\ out' = Append(out, Answer(request, status))
    /\ at' = IF sent[request].method = "TEARDOWN" THEN "over" ELSE "loop"
    /\ UNCHANGED <<environment, wire, buffer, request, status, streamVars>>

-----------------------------------------------------------------------------
(***************************************************************************)
(* handle_conn while it is playing: it takes samples and does not look at  *)
(* the connection.                                                         *)
(***************************************************************************)
Oldest == IF newest > Capacity THEN newest - Capacity + 1 ELSE 1

TakeSample ==
    /\ at = "loop"
    /\ rx # NotPlaying /\ rx >= Oldest /\ rx <= newest
    /\ sample' = rx
    /\ rx' = rx + 1
    /\ at' = "write"
    /\ UNCHANGED <<environment, wire, buffer, request, status, setup, out>>

AfterLag == Oldest

\* recv() fails, and makes up for what is lost; the loop goes round.
Lagged ==
    /\ at = "loop"
    /\ rx # NotPlaying /\ rx < Oldest
    /\ rx' = AfterLag
    /\ UNCHANGED <<environment, wire, at, buffer, request, status, setup, sample, out>>

WriteSample ==
    /\ at = "write"
    /\ out' = Append(out, Sample(sample))
    /\ at' = "loop"
    /\ UNCHANGED <<environment, wire, buffer, request, status, streamVars>>

\* A write to a client that has closed may fail.
WriteFails ==
    /\ at \in {"respond", "write"}
    /\ closed
    /\ at' = "over"
    /\ UNCHANGED <<environment, wire, buffer, request, status, streamVars, out>>

handle_conn ==
    \/ Loop \/ Read \/ Eof \/ InterleavedFrame \/ NotEnoughData \/ ParseHeaders
    \/ Consume \/ Handle \/ Respond \/ TakeSample \/ Lagged \/ WriteSample

Next ==
    \/ Register \/ NewSample \/ (\E msg \in Messages : Send(msg)) \/ Close
    \/ handle_conn \/ WriteFails

\* The task runs when it can; its client reads what it is sent.
Spec == Init /\ [][Next]_vars
FairSpec == Spec /\ WF_vars(handle_conn)

-----------------------------------------------------------------------------
(***************************************************************************)
(* Properties.                                                             *)
(***************************************************************************)
Parts == [part : {"$", "frame", "head", "end", "body"}, n : 1..MaxMessages]
Playing == rx # NotPlaying

\* Every variable has its type, and handle_conn is never both in a request and
\* playing, nor playing without a SETUP.
TypeOK ==
    /\ registered \in BOOLEAN /\ newest \in 0..MaxSamples
    /\ sent \in Seq(Messages) /\ Len(sent) <= MaxMessages /\ closed \in BOOLEAN
    /\ wire \in Seq(Parts) /\ buffer \in Seq(Parts)
    /\ at \in {"loop", "fill", "frame", "body", "handle", "respond", "write", "over"}
    /\ request \in 0..Len(sent) /\ status \in {200, 400, 404}
    /\ setup \in BOOLEAN /\ rx \in Nat /\ sample \in Nat
    /\ out \in Seq([kind : {"answer", "sample"}, n : Nat, status : {200, 400, 404}])
    /\ Playing => setup /\ at \in {"loop", "respond", "write", "over"}

\* A client that sends proper requests and frames is cut off only when it asks for it
\* or has closed.
CutOffForCause ==
    at = "over" => closed \/ \E n \in DOMAIN sent : sent[n].bad \/ sent[n].method = "TEARDOWN"

\* Requests are answered once each, in the order the client sent them.
AnswersInOrder ==
    \A i, j \in DOMAIN out :
        (i < j /\ out[i].kind = "answer" /\ out[j].kind = "answer") => out[i].n < out[j].n

\* The handler never takes a part of one message for another, in whatever pieces bodies,
\* frames and pipelined requests arrive.
MessagesAreKeptApart == CutOffForCause /\ AnswersInOrder

\* A sample on the connection comes after the answer to a PLAY, and that after the
\* answer to a SETUP that found the monitor; samples come in order, none twice.
SamplesFollowPlay ==
    \A k \in DOMAIN out : out[k].kind = "sample" =>
        /\ \E i, j \in 1..k : LET Ok(e, method) ==
                                 /\ out[e].kind = "answer" /\ out[e].status = 200
                                 /\ sent[out[e].n].method = method
                             IN i < j /\ Ok(i, "SETUP") /\ Ok(j, "PLAY")
        /\ \A i \in 1..(k - 1) : out[i].kind = "sample" => out[i].n < out[k].n

Answered(n) == \E i \in DOMAIN out : out[i].kind = "answer" /\ out[i].n = n
Sent(n, methods) == n \in DOMAIN sent /\ sent[n].method \in methods

\* What NotEnoughData finds: the buffer ends inside the headers of a request.
Incomplete == at \in {"loop", "fill"} /\ IsRequest /\ HeaderEnds = {}

\* A request is answered, pipelined or not, unless the connection ends, plays, or
\* holds an incomplete request before its turn comes.
RequestsAnswered ==
    \A n \in 1..MaxMessages :
        Sent(n, Methods) ~> (Answered(n) \/ at = "over" \/ Playing \/ Incomplete)

\* The comment where the loop goes round: "No enough data to parse headers".  When
\* the rest arrives there is enough.
MoreDataAreEnough == (Incomplete /\ ~Playing /\ wire # <<>>) ~> ~Incomplete
=============================================================================
