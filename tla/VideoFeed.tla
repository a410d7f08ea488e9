----------------------------- MODULE VideoFeed -----------------------------
(***************************************************************************)
(* What a video connection of the service promises, without the ring, the  *)
(* tasks and the packets that keep the promise.  Samples are numbered in   *)
(* the order the encoder makes them.  A client sees those made after it    *)
(* joined, in order and each once.  A strict client (the TCP protocols)    *)
(* misses none of them: it is disconnected instead.  Other clients         *)
(* (WebRTC) may miss some.                                                 *)
(***************************************************************************)
EXTENDS Naturals

CONSTANTS
    Clients,    \* the connections
    Strict,     \* those that must not miss a sample
    MaxSamples  \* bound on the samples made

VARIABLES
    made,       \* how many samples the encoder has broadcast
    open,       \* the clients connected
    seenUpTo    \* the number of the last sample each has, or the one before its first

feedVars == <<made, open, seenUpTo>>

FeedInit ==
    /\ made = 0
    /\ open = {}
    /\ seenUpTo = [c \in Clients |-> 0]

Make ==
    /\ made < MaxSamples
    /\ made' = made + 1
    /\ UNCHANGED <<open, seenUpTo>>

Join(c) ==
    /\ c \notin open
    /\ open' = open \cup {c}
    /\ seenUpTo' = [seenUpTo EXCEPT ![c] = made]
    /\ UNCHANGED made

See(c) ==
    /\ c \in open
    /\ \E n \in seenUpTo[c] + 1 .. made :
         /\ c \in Strict => n = seenUpTo[c] + 1
         /\ seenUpTo' = [seenUpTo EXCEPT ![c] = n]
    /\ UNCHANGED <<made, open>>

Leave(c) ==
    /\ c \in open
    /\ open' = open \ {c}
    /\ seenUpTo' = [seenUpTo EXCEPT ![c] = 0]
    /\ UNCHANGED made

FeedNext ==
    \/ Make
    \/ \E c \in Clients : Join(c) \/ See(c) \/ Leave(c)

FeedSpec == FeedInit /\ [][FeedNext]_feedVars
=============================================================================
