------------------------------ MODULE Broadcast ------------------------------
(***************************************************************************)
(* What AppCore promises the listeners of its channels: each of them gets  *)
(* every message, in the order in which the RTCM handler sent them, and    *)
(* none gets a message before all have had the one before it.              *)
(***************************************************************************)
EXTENDS Integers, Sequences

CONSTANTS
  Channels,   \* AppCore.Channels
  Messages    \* the messages that the RTCM handler may send

VARIABLES
  sent,       \* the messages that the RTCM handler has sent
  received    \* what has come out of each channel's sending end

vars == <<sent, received>>

Init ==
  /\ sent = <<>>
  /\ received = [c \in Channels |-> <<>>]

Relay(m) ==
  /\ \A c \in Channels : received[c] = sent
  /\ sent' = Append(sent, m)
  /\ UNCHANGED received

Deliver(c) ==
  /\ received[c] # sent
  /\ received' = [received EXCEPT ![c] = sent]
  /\ UNCHANGED sent

Next ==
  \/ \E m \in Messages : Relay(m)
  \/ \E c \in Channels : Deliver(c)

Spec == Init /\ [][Next]_vars
=============================================================================
