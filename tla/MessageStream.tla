---------------------------- MODULE MessageStream ----------------------------
(***************************************************************************)
(* What the RTCM handler promises its reader, whatever the way it finds    *)
(* frames: it cuts the byte stream into non-empty messages, in order and   *)
(* with nothing left out; only valid frames carry an RTCM message type;    *)
(* and the message channel is closed only when the input has ended and     *)
(* everything received has been sent.                                      *)
(***************************************************************************)
EXTENDS Integers, Sequences

CONSTANTS
  Streams,          \* the byte sequences that may arrive
  NonRTCMMessage,   \* the type of a message that is not a valid frame
  IsFrame(_),       \* is a byte sequence a valid frame?
  TypeOf(_)         \* the message type in a valid frame

VARIABLES stream, pos, closed, residue, out, finished

vars == <<stream, pos, closed, residue, out, finished>>

Init ==
  /\ stream \in Streams
  /\ pos = 0
  /\ closed = FALSE
  /\ residue = <<>>
  /\ out = <<>>
  /\ finished = FALSE

\* A byte arrives.
Take ==
  /\ ~closed
  /\ pos < Len(stream)
  /\ pos' = pos + 1
  /\ residue' = Append(residue, stream[pos + 1])
  /\ UNCHANGED <<stream, closed, out, finished>>

\* The bytes end.
Close ==
  /\ ~closed
  /\ closed' = TRUE
  /\ UNCHANGED <<stream, pos, residue, out, finished>>

\* The first n bytes held are sent as one message, which has an RTCM type only
\* if they are a valid frame, and then the type that the frame holds.
Emit(n) ==
  LET raw == SubSeq(residue, 1, n) IN
  /\ ~finished
  /\ \/ out' = Append(out, [type |-> NonRTCMMessage, raw |-> raw])
     \/ /\ IsFrame(raw)
        /\ out' = Append(out, [type |-> TypeOf(raw), raw |-> raw])
  /\ residue' = SubSeq(residue, n + 1, Len(residue))
  /\ UNCHANGED <<stream, pos, closed, finished>>

\* Everything has been sent.
Finish ==
  /\ closed
  /\ residue = <<>>
  /\ ~finished
  /\ finished' = TRUE
  /\ UNCHANGED <<stream, pos, closed, residue, out>>

Next ==
  \/ Take
  \/ Close
  \/ \E n \in 1..Len(residue) : Emit(n)
  \/ Finish

Spec == Init /\ [][Next]_vars
=============================================================================
