------------------------- MODULE MCEncoderPipeline -------------------------
(* Instances of EncoderPipeline for TLC. *)
EXTENDS EncoderPipeline

Mode(w, h, f) == [width |-> w, height |-> h, framerate |-> f]

\* Three pairwise different sizes: the two modes and a mixture of them, read
\* when the frame rate was not stored yet.
MCModes == { Mode(2, 1, 60), Mode(3, 2, 60) }
MCTornModes == { Mode(3, 1, 0) }

\* Two modes of equal size, which the length check cannot tell apart.
MCTurnedModes == { Mode(2, 1, 60), Mode(1, 2, 60) }

\* It is enough to start with one mode of each pair: with width and height exchanged
\* the other is such a start, and mixed sizes stay as different as they were.
MCFirstModes == { Mode(2, 1, 60) }
=============================================================================
