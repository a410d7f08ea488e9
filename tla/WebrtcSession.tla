---------------------------- MODULE WebrtcSession ----------------------------
(***************************************************************************)
(* WebRTC: the offer a browser posts goes through a channel to the one     *)
(* task that makes sessions, the answer comes back through a oneshot.  A   *)
(* session has a task that sends video, one that sends audio and, once the *)
(* data channel opens, a loop that sends cursor updates; a Notify shared   *)
(* by the three is to end them when the connection fails.                  *)
(*                                                                         *)
(* Every step of webrtc_task that may fail is followed by "?": the reply   *)
(* is then dropped, what has been spawned before runs on.                  *)
(*                                                                         *)
(* A definition marked "Mistake" is not used: put in the place of the one  *)
(* that follows it, it shows which property notices that mistake.          *)
(***************************************************************************)
EXTENDS Integers, Sequences

CONSTANTS
    Offers,     \* POST requests with an offer; each makes its own session
    Capacity    \* of the channel to the server task; 8 in the code

ASSUME CapacityAssumption == Capacity \in Nat \ {0}

VARIABLES
    http,       \* the handler of each request
    queue,      \* the channel to webrtc_server
    stage, serving, \* where webrtc_server is, and the offer it works on, if any
    conn,       \* the peer connection of each session
    handled,    \* sessions whose state change handler is set
    sender,     \* the video and the audio task of each session
    control,    \* its control loop
    newCursor,  \* what the loop's watch receivers have not seen
    missed      \* sessions whose control loop has missed the notification

requests == <<http, queue, stage, serving>>
sessions == <<conn, handled, sender, control, newCursor, missed>>
vars == <<requests, sessions>>

Media == {"video", "audio"}

Init ==
    /\ http = [o \in Offers |-> "idle"]
    /\ queue = <<>> /\ stage = "recv" /\ serving = {}
    /\ conn = [o \in Offers |-> "none"] /\ handled = {}
    /\ sender = [o \in Offers |-> [s \in Media |-> "none"]]
    /\ control = [o \in Offers |-> "none"]
    /\ newCursor = [o \in Offers |-> FALSE] /\ missed = {}

-----------------------------------------------------------------------------
(***************************************************************************)
(* The handler of a POST request.                                          *)
(***************************************************************************)
Post(o) ==
    /\ http[o] = "idle"
    /\ http' = [http EXCEPT ![o] = "send"]
    /\ UNCHANGED <<queue, stage, serving, sessions>>

\* Mistake: the channel takes one more than its capacity.
OnePastFull == Len(queue) <= Capacity
HasPlace == Len(queue) < Capacity

SendRequest(o) ==
    /\ http[o] = "send" /\ HasPlace
    /\ queue' = Append(queue, o)
    /\ http' = [http EXCEPT ![o] = "wait"]
    /\ UNCHANGED <<stage, serving, sessions>>

\* The browser goes away, and the handler with it.
BrowserLeaves(o) ==
    /\ http[o] \in {"send", "wait"}
    /\ http' = [http EXCEPT ![o] = "left"]
    /\ UNCHANGED <<queue, stage, serving, sessions>>

Replied(o, outcome) == http' = [http EXCEPT ![o] = IF @ = "wait" THEN outcome ELSE @]

-----------------------------------------------------------------------------
(***************************************************************************)
(* webrtc_server and webrtc_task: one offer at a time.                     *)
(***************************************************************************)
ReceiveRequest ==
    /\ stage = "recv" /\ queue # <<>>
    /\ serving' = {Head(queue)} /\ queue' = Tail(queue)
    /\ stage' = "peer"
    /\ UNCHANGED <<http, sessions>>

\* The monitor is looked up and the peer connection made.
MakePeer ==
    /\ stage = "peer"
    /\ stage' = "spawn"
    /\ UNCHANGED <<http, queue, serving, sessions>>

SpawnSenders ==
    /\ stage = "spawn"
    /\ \E o \in serving : sender' = [sender EXCEPT ![o] = [s \in Media |-> "spawned"]]
    /\ stage' = "tracks"
    /\ UNCHANGED <<http, queue, serving, conn, handled, control, newCursor, missed>>

\* The tracks and the data channel are added.
AddTracks ==
    /\ stage = "tracks"
    /\ stage' = "handlers"
    /\ UNCHANGED <<http, queue, serving, sessions>>

\* on_open and on_peer_connection_state_change.
SetHandlers ==
    /\ stage = "handlers"
    /\ handled' = handled \cup serving
    /\ stage' = "describe"
    /\ UNCHANGED <<http, queue, serving, conn, sender, control, newCursor, missed>>

\* The offer is set, the answer made and set: the connection listens.
Describe ==
    /\ stage = "describe"
    /\ \E o \in serving : conn' = [conn EXCEPT ![o] = "new"]
    /\ stage' = "gather"
    /\ UNCHANGED <<http, queue, serving, handled, sender, control, newCursor, missed>>

GatheringComplete ==
    /\ stage = "gather"
    /\ stage' = "reply"
    /\ UNCHANGED <<http, queue, serving, sessions>>

Reply ==
    /\ stage = "reply"
    /\ \E o \in serving : Replied(o, "ok")
    /\ stage' = "recv" /\ serving' = {}
    /\ UNCHANGED <<queue, sessions>>

\* Mistake: a request that failed keeps its reply for later.
ReplyKept(o) == UNCHANGED http
ReplyDropped(o) == Replied(o, "error")

\* Any step with a "?" fails.
RequestFails ==
    /\ stage \in {"peer", "tracks", "describe", "reply"}
    /\ \E o \in serving : ReplyDropped(o)
    /\ stage' = "recv" /\ serving' = {}
    /\ UNCHANGED <<queue, sessions>>

-----------------------------------------------------------------------------
(***************************************************************************)
(* The session: its connection, its tasks and its control loop.            *)
(***************************************************************************)
SenderRuns(o, s) ==
    /\ sender[o][s] = "spawned"
    /\ sender' = [sender EXCEPT ![o][s] = "runs"]
    /\ UNCHANGED <<requests, conn, handled, control, newCursor, missed>>

\* A write error ends audio_sender; video_sender only leaves out the rest of the frame.
AudioWriteFails(o) ==
    /\ sender[o]["audio"] = "runs"
    /\ sender' = [sender EXCEPT ![o]["audio"] = "ended"]
    /\ UNCHANGED <<requests, conn, handled, control, newCursor, missed>>

SenderStops(o, s) ==
    /\ sender[o][s] = "told"
    /\ sender' = [sender EXCEPT ![o][s] = "ended"]
    /\ UNCHANGED <<requests, conn, handled, control, newCursor, missed>>

\* The browser has the answer, the connection comes up and the data channel opens.
\* The watch receivers of the loop have seen nothing.
Connected(o) ==
    /\ conn[o] = "new" /\ http[o] = "ok"
    /\ conn' = [conn EXCEPT ![o] = "connected"]
    /\ UNCHANGED <<requests, handled, sender, control, newCursor, missed>>

ControlOpens(o) ==
    /\ conn[o] = "connected" /\ control[o] = "none" /\ o \in handled
    /\ control' = [control EXCEPT ![o] = "select"]
    /\ newCursor' = [newCursor EXCEPT ![o] = TRUE]
    /\ UNCHANGED <<requests, conn, handled, sender, missed>>

\* The tasks that wait on the Notify of session o.
Waiting(o) ==
    {s \in Media : sender[o][s] = "runs"} \cup (IF control[o] = "select" THEN {"control"} ELSE {})

\* Mistake: notify_one instead of notify_waiters.
OnlyOne(W) == {{w} : w \in W} \cup (IF W = {} THEN {{}} ELSE {})
WhoIsTold(W) == {W}

\* The state changes to Failed, long after the senders have begun to run.
ConnectionFails(o) ==
    /\ conn[o] \in {"new", "connected"}
    /\ \A s \in Media : sender[o][s] # "spawned"
    /\ conn' = [conn EXCEPT ![o] = "failed"]
    /\ IF o \notin handled THEN UNCHANGED <<sender, control, missed>>
       ELSE \E T \in WhoIsTold(Waiting(o)) :
              /\ sender' = [sender EXCEPT ![o] =
                              [s \in Media |-> IF s \in T THEN "told" ELSE @[s]]]
              /\ control' = [control EXCEPT ![o] = IF "control" \in T THEN "told" ELSE @]
              /\ missed' = IF control[o] = "send" THEN missed \cup {o} ELSE missed
    /\ UNCHANGED <<requests, handled, newCursor>>

CursorChanges ==
    /\ newCursor' = [o \in Offers |-> control[o] \in {"select", "told", "send"}]
    /\ UNCHANGED <<requests, conn, handled, sender, control, missed>>

ControlStops(o) ==
    /\ control[o] = "told"
    /\ control' = [control EXCEPT ![o] = "ended"]
    /\ UNCHANGED <<requests, conn, handled, sender, newCursor, missed>>

\* The select picks at random among what is ready; picking the cursor drops the
\* notified future, and the notification with it.
ControlSends(o) ==
    /\ control[o] \in {"select", "told"} /\ newCursor[o]
    /\ control' = [control EXCEPT ![o] = "send"]
    /\ newCursor' = [newCursor EXCEPT ![o] = FALSE]
    /\ missed' = IF control[o] = "told" THEN missed \cup {o} ELSE missed
    /\ UNCHANGED <<requests, conn, handled, sender>>

ControlSent(o) ==
    /\ control[o] = "send"
    /\ control' = [control EXCEPT ![o] = "select"]
    /\ UNCHANGED <<requests, conn, handled, sender, newCursor, missed>>

ControlSendFails(o) ==
    /\ control[o] = "send"
    /\ control' = [control EXCEPT ![o] = "ended"]
    /\ UNCHANGED <<requests, conn, handled, sender, newCursor, missed>>

Server ==
    \/ ReceiveRequest \/ MakePeer \/ SpawnSenders \/ AddTracks \/ SetHandlers \/ Describe
    \/ GatheringComplete \/ Reply \/ RequestFails
SenderTask(o, s) == SenderRuns(o, s) \/ SenderStops(o, s)
ControlLoop(o) == ControlStops(o) \/ ControlSends(o) \/ ControlSent(o) \/ ControlSendFails(o)

Next ==
    \/ Server \/ CursorChanges
    \/ \E o \in Offers :
         \/ Post(o) \/ SendRequest(o) \/ BrowserLeaves(o)
         \/ AudioWriteFails(o) \/ (\E s \in Media : SenderTask(o, s))
         \/ Connected(o) \/ ConnectionFails(o) \/ ControlOpens(o) \/ ControlLoop(o)

\* Tasks run when they can, waiting senders of a channel get their turn, and gathering
\* ends.  Nothing is assumed of the browser, the network and the cursor.
Fairness ==
    /\ WF_vars(Server)
    /\ \A o \in Offers :
         /\ SF_vars(SendRequest(o)) /\ WF_vars(ControlLoop(o))
         /\ \A s \in Media : WF_vars(SenderTask(o, s))

Spec == Init /\ [][Next]_vars
FairSpec == Spec /\ Fairness

-----------------------------------------------------------------------------
(***************************************************************************)
(* Properties.                                                             *)
(***************************************************************************)

\* Every variable has its type, and the channel keeps to its capacity.
TypeOK ==
    /\ http \in [Offers -> {"idle", "send", "wait", "ok", "error", "left"}]
    /\ queue \in Seq(Offers) /\ Len(queue) <= Capacity
    /\ stage \in {"recv", "peer", "spawn", "tracks", "handlers", "describe", "gather", "reply"}
    /\ serving \subseteq Offers /\ (serving = {} <=> stage = "recv")
    /\ conn \in [Offers -> {"none", "new", "connected", "failed"}]
    /\ sender \in [Offers -> [Media -> {"none", "spawned", "runs", "told", "ended"}]]
    /\ control \in [Offers -> {"none", "select", "told", "send", "ended"}]
    /\ newCursor \in [Offers -> BOOLEAN]
    /\ handled \subseteq Offers /\ missed \subseteq Offers

\* The comment "Connection has failed, close everything": the senders of a failed
\* connection end, and the control loop does, unless the notification found it sending,
\* or it picked a cursor update instead.
FailureEndsSession ==
    \A o \in Offers : conn[o] = "failed" ~>
        /\ \A s \in Media : sender[o][s] = "ended"
        /\ control[o] \in {"none", "ended"} \/ o \in missed

\* Every POST is answered or abandoned by the browser: neither a request that fails in
\* the middle nor one that waits for its turn is left hanging.
OffersAreAnswered == \A o \in Offers : http[o] \in {"send", "wait"} ~> http[o] \notin {"send", "wait"}
=============================================================================
