---------------------------- MODULE MCMessageTime ----------------------------
(***************************************************************************)
(* Days of four ticks, so that each week begins at a tick of its own.      *)
(***************************************************************************)
EXTENDS MessageTime

MCLead == [GPS |-> 2, Galileo |-> 2, Beidou |-> 1, Glonass |-> 3]

WholeWeek == 0..(Week - 1)
=============================================================================
