--------------------------- MODULE MCRtspSession ---------------------------
(* Instances of RtspSession for TLC. *)
EXTENDS RtspSession

Message(method, body) == [method |-> method, body |-> body, bad |-> FALSE]

\* Requests of every kind, one with a body, one that is turned down, and frames.
MCAll == { Message(m, FALSE) : m \in Methods \cup {"RTP"} }
            \cup { Message("OPTIONS", TRUE),
                   [method |-> "OPTIONS", body |-> FALSE, bad |-> TRUE] }
MCOptions == { Message("OPTIONS", FALSE) }
=============================================================================
