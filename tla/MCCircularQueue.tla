--------------------------- MODULE MCCircularQueue ---------------------------
(***************************************************************************)
(* A queue of two messages, to which up to five are added while two readers *)
(* call GetMessages again and again.                                       *)
(***************************************************************************)
EXTENDS CircularQueue

CONSTANTS r1, r2
=============================================================================
