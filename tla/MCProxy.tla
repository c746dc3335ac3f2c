------------------------------- MODULE MCProxy -------------------------------
(***************************************************************************)
(* Two sessions, the second with a server that may stop reading and with   *)
(* ends that may break, a log that may be turned off and on, and a queue   *)
(* that holds one message less than come.  Of the four bytes, the two ends *)
(* that break and the log's going off, four happen in a behaviour.         *)
(***************************************************************************)
EXTENDS Proxy, TLC

CONSTANTS s1, s2, r1

MCClientBytes == (s1 :> 2) @@ (s2 :> 1)
MCServerBytes == (s1 :> 0) @@ (s2 :> 1)
=============================================================================
