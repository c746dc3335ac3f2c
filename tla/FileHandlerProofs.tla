-------------------------- MODULE FileHandlerProofs --------------------------
(***************************************************************************)
(* Proofs about FileHandler, for all timeouts, pauses and bursts of bytes. *)
(***************************************************************************)
EXTENDS FileHandler, TLAPS

\* What has been taken and not sent is in the buffer or in hand, and a read
\* fails only when the buffer is empty.
Held ==
  /\ unsent = buffered + (IF phase = "send" THEN 1 ELSE 0)
  /\ phase \in {"failed", "sleep", "returned"} => buffered = 0

HeldInv == TypeOK /\ Held

\* The initial state holds nothing.
LEMMA InitHeld == Init => HeldInv
<1> SUFFICES ASSUME Init PROVE HeldInv
  OBVIOUS
<1>1. config.timeout \in Nat
  BY FileHandlerAssumption DEF Init, Configs
<1>2. deadline \in Nat \cup {None}
  BY FileHandlerAssumption DEF Init
<1>3. Held
  BY DEF Init, Held
<1> QED
  BY <1>1, <1>2, <1>3, FileHandlerAssumption
     DEF Init, HeldInv, TypeOK, Phases, Results, None

\* Every step keeps HeldInv; the bytes move between device, buffer and hand.
LEMMA NextHeld == HeldInv /\ [Next]_vars => HeldInv'
<1> SUFFICES ASSUME HeldInv, [Next]_vars PROVE HeldInv'
  OBVIOUS
<1> USE FileHandlerAssumption DEF HeldInv, TypeOK, Held, Phases, Results, None
<1>0. config.timeout \in Nat /\ config.wait \in Nat
  BY DEF Configs
<1>1. CASE ReadBuffered
  BY <1>0, <1>1 DEF ReadBuffered, ByteRead
<1>2. CASE ReadDevice
  BY <1>0, <1>2 DEF ReadDevice, ByteRead
<1>3. CASE ReadFails
  BY <1>0, <1>3 DEF ReadFails
<1>4. CASE ReturnOnEOF
  BY <1>0, <1>4 DEF ReturnOnEOF, Return
<1>5. CASE FirstEOF
  BY <1>0, <1>5 DEF FirstEOF, Sleep
<1>6. CASE LaterEOF
  BY <1>0, <1>6 DEF LaterEOF, Sleep
<1>7. CASE GiveUp
  BY <1>0, <1>7 DEF GiveUp, Return
<1>8. CASE Wake
  BY <1>0, <1>8 DEF Wake
<1>9. CASE Send
  BY <1>0, <1>9 DEF Send
<1>10. CASE ReadError
  BY <1>0, <1>10 DEF ReadError, Return
<1>11. CASE ByteArrives
  BY <1>0, <1>11 DEF ByteArrives
<1>12. CASE Tick
  BY <1>0, <1>12 DEF Tick, Later
<1>13. CASE UNCHANGED vars
  BY <1>0, <1>13 DEF vars
<1> QED
  BY <1>1, <1>2, <1>3, <1>4, <1>5, <1>6, <1>7, <1>8, <1>9, <1>10, <1>11,
     <1>12, <1>13 DEF Next, HandlerStep

\* Every variable keeps to its range (Handle).
THEOREM TypeCorrect == Spec => []TypeOK
<1>1. HeldInv => TypeOK
  BY DEF HeldInv
<1> QED
  BY InitHeld, NextHeld, <1>1, PTL DEF Spec

\* Handle never returns with bytes that it has taken and not sent, for bursts
\* of any size (Handle).
THEOREM NothingTakenIsLost == Spec => []ReturnsEmptyHanded
<1>1. HeldInv => ReturnsEmptyHanded
  BY DEF HeldInv, Held, TypeOK, ReturnsEmptyHanded
<1> QED
  BY InitHeld, NextHeld, <1>1, PTL DEF Spec
-----------------------------------------------------------------------------
\* Before the read deadline a run of EOFs has lasted no longer than the
\* silence of the device, except that a byte waits to be read, which will end
\* both.  After it the bytes that wait tell nothing.
Silence ==
  /\ phase = "send" => sinceFirstEOF = None
  /\ deadline # 0 =>
       /\ phase \in {"read", "sleep"} /\ waiting = 0 => sinceFirstEOF <= silence
       /\ phase = "failed" => sinceFirstEOF <= silence
  /\ GivesUpForAReason

\* Silence at the start.
LEMMA InitSilence == Init => Silence
  BY DEF Init, Silence, GivesUpForAReason, None

\* Every step keeps Silence.
LEMMA NextSilence == HeldInv /\ Silence /\ [Next]_vars => Silence'
<1> SUFFICES ASSUME HeldInv, Silence, [Next]_vars PROVE Silence'
  OBVIOUS
<1> USE FileHandlerAssumption
    DEF HeldInv, TypeOK, Silence, GivesUpForAReason, Phases, Results, None
<1>0. config.timeout \in Nat /\ config.wait \in Nat
  BY DEF Configs
<1>1. CASE ReadBuffered
  BY <1>0, <1>1 DEF ReadBuffered, ByteRead
<1>2. CASE ReadDevice
  BY <1>0, <1>2 DEF ReadDevice, ByteRead
<1>3. CASE ReadFails
  BY <1>0, <1>3 DEF ReadFails
<1>4. CASE ReturnOnEOF
  BY <1>0, <1>4 DEF ReturnOnEOF, Return
<1>5. CASE FirstEOF
  BY <1>0, <1>5 DEF FirstEOF, Sleep
<1>6. CASE LaterEOF
  BY <1>0, <1>6 DEF LaterEOF, Sleep
<1>7. CASE GiveUp
  BY <1>0, <1>7 DEF GiveUp, Return
<1>8. CASE Wake
  BY <1>0, <1>8 DEF Wake
<1>9. CASE Send
  BY <1>0, <1>9 DEF Send
<1>10. CASE ReadError
  BY <1>0, <1>10 DEF ReadError, Return
<1>11. CASE ByteArrives
  BY <1>0, <1>11 DEF ByteArrives
<1>12. CASE Tick
  BY <1>0, <1>12 DEF Tick, Later
<1>13. CASE UNCHANGED vars
  BY <1>0, <1>13 DEF vars
<1> QED
  BY <1>1, <1>2, <1>3, <1>4, <1>5, <1>6, <1>7, <1>8, <1>9, <1>10, <1>11,
     <1>12, <1>13 DEF Next, HandlerStep

\* Whatever the deadline and the timeouts, and however the bytes come, the
\* timeout makes Handle return only after the device has been silent for longer
\* than TimeoutOnEOF or its read deadline has passed (Handle, getInputFile).
THEOREM TimeoutHasItsReason == Spec => []GivesUpForAReason
<1>1. Init => HeldInv /\ Silence
  BY InitHeld, InitSilence
<1>2. HeldInv /\ Silence /\ [Next]_vars => (HeldInv /\ Silence)'
  BY NextHeld, NextSilence
<1>3. Silence => GivesUpForAReason
  BY DEF Silence
<1> QED
  BY <1>1, <1>2, <1>3, PTL DEF Spec
=============================================================================
