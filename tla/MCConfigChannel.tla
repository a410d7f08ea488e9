-------------------------- MODULE MCConfigChannel --------------------------
(* Instances of ConfigChannel for TLC. *)
EXTENDS ConfigChannel

\* Two of the driver's modes that differ in width and height and share the
\* frame rate, as all of its modes do.
MCModes == { [width |-> 2560, height |-> 1440, framerate |-> 60],
             [width |-> 1920, height |-> 1080, framerate |-> 60] }
=============================================================================
