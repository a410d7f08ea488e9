-------------------------- MODULE MCCursorChannel --------------------------
(* Instances of CursorChannel for TLC. *)
EXTENDS CursorChannel

Cursor(s, p, at, v) ==
    [shape |-> [size |-> s, pixels |-> p], x |-> at, y |-> at, visible |-> v]

\* A cursor that is shown, and another that is hidden and shown elsewhere.
MCCursors == { Cursor(1, 1, 0, TRUE), Cursor(2, 2, 1, FALSE), Cursor(2, 2, 1, TRUE) }
\* What a writer leaves behind that ends between the size and the pixels.
MCUnencodable == { [size |-> 2, pixels |-> 1] }
=============================================================================
