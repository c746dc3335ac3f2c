-------------------------------- MODULE Relay --------------------------------
(***************************************************************************)
(* What the proxy promises the two ends of a session: each of them gets    *)
(* the other's bytes, unchanged and in order, though when an end goes away *)
(* the last bytes for it may never come.                                   *)
(***************************************************************************)
EXTENDS Integers, Sequences

CONSTANTS
  Ways,      \* the ways between two ends: one per session and direction
  MaxChunk   \* how many bytes may come at once

VARIABLES
  sent,       \* how many bytes have been sent; they are numbered 1, 2, ...
  delivered   \* the bytes that have come out, for each way

vars == <<sent, delivered>>

Init ==
  /\ sent = [w \in Ways |-> 0]
  /\ delivered = [w \in Ways |-> <<>>]

Send(w) ==
  /\ \E n \in 1..MaxChunk : sent' = [sent EXCEPT ![w] = @ + n]
  /\ UNCHANGED delivered

\* The next few bytes come out together.
Deliver(w) ==
  /\ \E last \in Len(delivered[w]) + 1..sent[w] :
       delivered' = [delivered EXCEPT ![w] = [i \in 1..last |-> i]]
  /\ UNCHANGED sent

Next == \E w \in Ways : Send(w) \/ Deliver(w)

Spec == Init /\ [][Next]_vars
=============================================================================
