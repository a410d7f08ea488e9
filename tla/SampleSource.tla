---------------------------- MODULE SampleSource ----------------------------
(***************************************************************************)
(* What the encoding thread promises to the clients, without the frames,   *)
(* the locks and the commands behind it.  It opens one encoder session     *)
(* after the other.  It starts on a frame only in a session and while      *)
(* somebody listens; a frame brings any number of packets, none included,  *)
(* and when a packet is about to become a sample the codec data of its     *)
(* session are out.  A thread that failed does nothing any more.           *)
(*                                                                         *)
(* EncoderPipeline implements this, and VideoStream builds on it: whatever *)
(* a frame goes through, the clients meet nothing but these steps.         *)
(***************************************************************************)
EXTENDS Naturals

VARIABLES
    encoder,    \* "idle", "busy" with a frame, about to send a "sample", or "dead"
    session,    \* the current session, 0 for none
    codecData,  \* the session whose codec data are out, 0 for none
    heard       \* whether anybody listens: up to the clients

sourceVars == <<encoder, session, codecData>>

SourceInit ==
    /\ encoder = "idle"
    /\ session = 0
    /\ codecData = 0

OpenEncoder ==
    /\ encoder = "idle"
    /\ session' = session + 1
    /\ UNCHANGED <<encoder, codecData>>

StartFrame ==
    /\ encoder = "idle"
    /\ session # 0
    /\ heard
    /\ encoder' = "busy"
    /\ UNCHANGED <<session, codecData>>

ReceivePacket ==
    /\ encoder = "busy"
    /\ encoder' = "sample"
    /\ codecData' = session
    /\ UNCHANGED session

SendSample ==
    /\ encoder = "sample"
    /\ encoder' = "busy"
    /\ UNCHANGED <<session, codecData>>

FrameDone ==
    /\ encoder = "busy"
    /\ encoder' = "idle"
    /\ UNCHANGED <<session, codecData>>

EncoderFails ==
    /\ encoder \in {"idle", "busy"}
    /\ encoder' = "dead"
    /\ UNCHANGED <<session, codecData>>

SourceNext ==
    \/ OpenEncoder \/ StartFrame \/ ReceivePacket \/ SendSample
    \/ FrameDone \/ EncoderFails

SourceSpec == SourceInit /\ [][SourceNext]_sourceVars
=============================================================================
