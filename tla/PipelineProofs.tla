--------------------------- MODULE PipelineProofs ---------------------------
(***************************************************************************)
(* Proofs about Pipeline, for any number of channels, bytes and            *)
(* connections, and for consumers that stop or carry on.                   *)
(***************************************************************************)
EXTENDS Pipeline, TLAPS

(* Which actions change which variables.  Each invariant below reads a few *)
(* of the variables, and its proof looks at the actions that change them.  *)

HandlerVars == <<deviceVars, framerVars>>

HandlerAction ==
  \/ ReadByte \/ FileHandlerReturns \/ TakeByte \/ CutRest \/ FramerReturns
  \/ Receive \/ Connect

ChannelAction == SendToChannel \/ \E c \in Channels : ConsumerReceives(c)

ConsumerAction == \E c \in Channels : ConsumerStep(c) \/ WriteFails(c)

\* The actions that change each group of variables.
LEMMA WhoChanges ==
  [Next]_vars =>
    /\ HandlerAction \/ UNCHANGED HandlerVars
    /\ AppCoreStep \/ UNCHANGED <<appVars, programVars>>
    /\ ChannelAction \/ UNCHANGED channelVars
    /\ ConsumerAction \/ UNCHANGED consumerVars
<1> SUFFICES ASSUME [Next]_vars
             PROVE  /\ HandlerAction \/ UNCHANGED HandlerVars
                    /\ AppCoreStep \/ UNCHANGED <<appVars, programVars>>
                    /\ ChannelAction \/ UNCHANGED channelVars
                    /\ ConsumerAction \/ UNCHANGED consumerVars
  OBVIOUS
<1> USE DEF HandlerVars, HandlerAction, ChannelAction, ConsumerAction, programVars
<1>1. CASE ReadByte \/ FileHandlerReturns
  BY <1>1 DEF ReadByte, FileHandlerReturns
<1>2. CASE FramerStep
  BY <1>2 DEF FramerStep, TakeByte, CutRest, FramerReturns
<1>3. CASE AppCoreStep
  <2>1. CASE Receive
    BY <2>1, <1>3 DEF Receive
  <2>2. CASE SendToChannel
    BY <2>2, <1>3 DEF SendToChannel
  <2>3. CASE SessionEnds
    BY <2>3, <1>3 DEF SessionEnds
  <2>4. CASE Connect
    BY <2>4, <1>3 DEF Connect
  <2>5. CASE Exit
    BY <2>5, <1>3 DEF Exit
  <2> QED
    BY <1>3, <2>1, <2>2, <2>3, <2>4, <2>5 DEF AppCoreStep
<1>4. ASSUME NEW c \in Channels, ConsumerStep(c) \/ WriteFails(c)
      PROVE  /\ HandlerAction \/ UNCHANGED HandlerVars
             /\ AppCoreStep \/ UNCHANGED <<appVars, programVars>>
             /\ ChannelAction \/ UNCHANGED channelVars
             /\ ConsumerAction \/ UNCHANGED consumerVars
  <2>1. CASE ConsumerReceives(c)
    BY <1>4, <2>1 DEF ConsumerReceives
  <2>2. CASE Write(c)
    BY <1>4, <2>2 DEF Write
  <2>3. CASE ConsumerReturns(c)
    BY <1>4, <2>3 DEF ConsumerReturns, consumerVars
  <2>4. CASE WriteFails(c)
    BY <1>4, <2>4 DEF WriteFails
  <2> QED
    BY <1>4, <2>1, <2>2, <2>3, <2>4 DEF ConsumerStep
<1>5. CASE UNCHANGED vars
  BY <1>5 DEF vars
<1> QED
  BY <1>1, <1>2, <1>3, <1>4, <1>5 DEF Next, Running, Quiet
-----------------------------------------------------------------------------
(* Types, group by group.                                                  *)

\* The device, the file handler and the RTCM handler.
HandlerInv ==
  /\ bytesRead \in 0..NumBytes
  /\ starts \in Seq(1..(NumBytes + 1))
  /\ Len(starts) <= MaxSessions
  /\ fileHandler \in {"read", "send", "returned"}
  /\ framer \in {"read", "send", "returned"}
  /\ cut \in 0..bytesRead
  /\ message \in Messages \cup {NoMessage}
  /\ fileHandler = "send" => cut < bytesRead
  /\ framer = "send" => message \in Messages /\ message.last = cut
  /\ framer = "returned" => fileHandler = "returned" /\ cut = bytesRead

\* The initial state.
LEMMA InitHandler == Init => HandlerInv
<1> SUFFICES ASSUME Init PROVE HandlerInv
  OBVIOUS
<1>1. starts \in Seq(1..(NumBytes + 1)) /\ Len(starts) <= MaxSessions
  BY PipelineAssumption DEF Init
<1> QED
  BY <1>1, PipelineAssumption DEF Init, HandlerInv

\* The handlers' actions keep it.
LEMMA NextHandler == HandlerInv /\ [Next]_vars => HandlerInv'
<1> SUFFICES ASSUME HandlerInv, [Next]_vars PROVE HandlerInv'
  OBVIOUS
<1> USE PipelineAssumption DEF HandlerInv
<1>1. CASE ReadByte
  BY <1>1 DEF ReadByte, framerVars
<1>2. CASE FileHandlerReturns
  BY <1>2 DEF FileHandlerReturns, framerVars
<1>3. CASE TakeByte
  <2>1. CASE UNCHANGED framerVars
    BY <1>3, <2>1 DEF TakeByte, framerVars
  <2>2. ASSUME NEW rtcm \in BOOLEAN, Cut(bytesRead, rtcm) PROVE HandlerInv'
    BY <1>3, <2>2 DEF TakeByte, Cut, Messages, Bytes
  <2>3. CASE cut < bytesRead - 1 /\ Cut(bytesRead - 1, FALSE)
    BY <1>3, <2>3 DEF TakeByte, Cut, Messages, Bytes
  <2> QED
    BY <1>3, <2>1, <2>2, <2>3 DEF TakeByte
<1>4. CASE CutRest
  BY <1>4 DEF CutRest, Cut, Messages, Bytes, deviceVars
<1>5. CASE FramerReturns
  BY <1>5 DEF FramerReturns, deviceVars
<1>6. CASE Receive
  BY <1>6 DEF Receive, deviceVars
<1>7. CASE Connect
  <2>1. starts' \in Seq(1..(NumBytes + 1)) /\ Len(starts') <= MaxSessions
    BY <1>7 DEF Connect, Sessions
  <2> QED
    BY <1>7, <2>1 DEF Connect
<1>8. CASE UNCHANGED HandlerVars
  BY <1>8 DEF HandlerVars, deviceVars, framerVars
<1> QED
  BY <1>1, <1>2, <1>3, <1>4, <1>5, <1>6, <1>7, <1>8, WhoChanges DEF HandlerAction
-----------------------------------------------------------------------------
(* AppCore: the channels before the next one have been sent all messages,  *)
(* the others all but the last.                                            *)

AllButLast == SubSeq(sent, 1, Len(sent) - 1)

FanOutInv ==
  /\ appCore \in {"receive", "send", "connect", "returned"}
  /\ next \in Channels
  /\ sent \in Seq(Messages)
  /\ received \in [Channels -> Seq(Messages)]
  /\ appCore = "send" =>
       /\ sent # <<>>
       /\ \A c \in Channels : received[c] = IF c < next THEN sent ELSE AllButLast
  /\ appCore # "send" =>
       /\ next = 1
       /\ \A c \in Channels : received[c] = sent
  /\ appCore \in {"connect", "returned"} => framer = "returned"
  /\ reconnect \in Reconnects
  /\ exited \in BOOLEAN

\* The initial state.
LEMMA InitFanOut == Init => FanOutInv
<1> SUFFICES ASSUME Init PROVE FanOutInv
  OBVIOUS
<1>1. next \in Channels
  BY PipelineAssumption DEF Init, Channels
<1>2. sent \in Seq(Messages) /\ received \in [Channels -> Seq(Messages)]
  BY DEF Init
<1>3. \A c \in Channels : received[c] = sent
  BY DEF Init
<1> QED
  BY <1>1, <1>2, <1>3 DEF Init, FanOutInv

\* A message is appended to what a channel has been sent.
LEMMA SendOne ==
  ASSUME NEW s \in Seq(Messages), s # <<>>
  PROVE  /\ s[Len(s)] \in Messages
         /\ Append(SubSeq(s, 1, Len(s) - 1), s[Len(s)]) = s
  OBVIOUS

\* AppCore's actions keep it, and the RTCM handler's do not undo it.
LEMMA NextFanOut == HandlerInv /\ FanOutInv /\ [Next]_vars => FanOutInv'
<1> SUFFICES ASSUME HandlerInv, FanOutInv, [Next]_vars PROVE FanOutInv'
  OBVIOUS
<1> USE PipelineAssumption DEF FanOutInv, programVars
<1>1. CASE Receive
  <2>1. message \in Messages
    BY <1>1 DEF Receive, HandlerInv
  <2>2. /\ sent' \in Seq(Messages)
        /\ sent' # <<>>
        /\ SubSeq(sent', 1, Len(sent') - 1) = sent
    BY <1>1, <2>1 DEF Receive
  <2>3. next' = 1 /\ received' = received /\ appCore' = "send" /\ UNCHANGED programVars
    BY <1>1 DEF Receive, channelVars
  <2>4. \A c \in Channels : received'[c] = AllButLast' /\ ~(c < next')
    BY <1>1, <2>2, <2>3 DEF AllButLast, Channels, Receive
  <2>5. next' \in Channels
    BY <2>3 DEF Channels
  <2> QED
    BY <1>1, <2>2, <2>3, <2>4, <2>5
<1>2. CASE SendToChannel
  <2>1. /\ received' = [received EXCEPT ![next] = Append(@, sent[Len(sent)])]
        /\ sent' = sent /\ UNCHANGED programVars /\ framer' = framer
        /\ appCore = "send"
    BY <1>2 DEF SendToChannel, framerVars
  <2>2. sent[Len(sent)] \in Messages /\ Append(AllButLast, sent[Len(sent)]) = sent
    BY <2>1, SendOne DEF AllButLast
  <2> HIDE DEF AllButLast
  <2>3. received[next] = AllButLast
    BY <2>1 DEF Channels
  <2>4. received' = [received EXCEPT ![next] = sent]
    BY <2>1, <2>2, <2>3
  <2>5. received' \in [Channels -> Seq(Messages)]
    BY <2>4
  <2>6. \A c \in Channels : received'[c] = IF c < next + 1 THEN sent ELSE AllButLast
    <3> SUFFICES ASSUME NEW c \in Channels
                 PROVE  received'[c] = IF c < next + 1 THEN sent ELSE AllButLast
      OBVIOUS
    <3>1. received[c] = IF c < next THEN sent ELSE AllButLast
      BY <2>1
    <3>2. c \in Int /\ next \in Int
      BY DEF Channels
    <3>3. received'[c] = IF c = next THEN sent ELSE received[c]
      BY <2>4
    <3> HIDE DEF FanOutInv
    <3> QED
      BY <3>1, <3>2, <3>3
  <2>7. CASE next = NumChannels
    <3>1. next' = 1 /\ next' \in Channels /\ appCore' = "receive"
      BY <1>2, <2>7 DEF SendToChannel, Channels
    <3>2. \A c \in Channels : received'[c] = sent'
      <4>1. \A c \in Channels : c < next + 1
        BY <2>7 DEF Channels
      <4> QED
        BY <2>1, <2>6, <4>1
    <3> QED
      BY <2>1, <2>5, <3>1, <3>2
  <2>8. CASE next # NumChannels
    <3>1. next' = next + 1 /\ next' \in Channels /\ appCore' = "send"
      BY <1>2, <2>8 DEF SendToChannel, Channels
    <3>2. AllButLast' = AllButLast
      BY <2>1 DEF AllButLast
    <3> QED
      BY <2>1, <2>5, <2>6, <3>1, <3>2
  <2> QED
    BY <2>7, <2>8
<1>3. CASE SessionEnds
  BY <1>3 DEF SessionEnds, framerVars, channelVars
<1>4. CASE Connect
  BY <1>4 DEF Connect, channelVars
<1>5. CASE Exit
  BY <1>5 DEF Exit, framerVars, appVars, channelVars, AllButLast
<1>6. CASE UNCHANGED <<appVars, programVars>>
  <2>1. received' = received
    BY <1>6, WhoChanges
       DEF ChannelAction, SendToChannel, ConsumerReceives, channelVars, appVars,
           Channels
  <2>2. appCore \in {"connect", "returned"} => framer' = framer
    BY <1>6, WhoChanges
       DEF HandlerAction, HandlerVars, ReadByte, FileHandlerReturns, TakeByte,
           CutRest, FramerReturns, Receive, Connect, framerVars, deviceVars, appVars
  <2> QED
    BY <1>6, <2>1, <2>2 DEF appVars, AllButLast
<1> QED
  BY <1>1, <1>2, <1>3, <1>4, <1>5, <1>6, WhoChanges DEF AppCoreStep

\* Receive, SendToChannel and stuttering steps of AppCore's fan-out.
LEMMA FanOutStep ==
  HandlerInv /\ FanOutInv /\ [Next]_vars => [FanOut!Next]_(FanOut!vars)
<1> SUFFICES ASSUME HandlerInv, FanOutInv, [Next]_vars
             PROVE  FanOut!Next \/ UNCHANGED <<sent, received>>
  BY DEF FanOut!vars
<1>1. CASE Receive
  <2>1. message \in Messages /\ sent' = Append(sent, message)
    BY <1>1 DEF Receive, HandlerInv
  <2>2. UNCHANGED received /\ \A c \in Channels : received[c] = sent
    BY <1>1 DEF Receive, FanOutInv, channelVars
  <2>3. FanOut!Relay(message)
    BY <2>1, <2>2 DEF FanOut!Relay
  <2> QED
    BY <2>1, <2>3 DEF FanOut!Next
<1>2. CASE SendToChannel
  <2>1. sent # <<>> /\ sent \in Seq(Messages) /\ next \in Channels /\ UNCHANGED sent
    BY <1>2 DEF SendToChannel, FanOutInv
  <2>2. received[next] = AllButLast
    BY <1>2, PipelineAssumption DEF SendToChannel, FanOutInv, Channels
  <2>3. /\ received' = [received EXCEPT ![next] = Append(received[next], sent[Len(sent)])]
        /\ received[next] # sent
    BY <1>2, <2>1, <2>2 DEF SendToChannel, AllButLast
  <2>4. received' = [received EXCEPT ![next] = sent]
    BY <2>1, <2>2, <2>3, SendOne DEF AllButLast
  <2>5. FanOut!Deliver(next)
    BY <2>1, <2>3, <2>4 DEF FanOut!Deliver
  <2> QED
    BY <2>1, <2>5 DEF FanOut!Next
<1>3. CASE SessionEnds \/ Connect \/ Exit
  BY <1>3 DEF SessionEnds, Connect, Exit, appVars, channelVars
<1>4. CASE UNCHANGED <<appVars, programVars>>
  <2>1. UNCHANGED received
    BY <1>4, WhoChanges, PipelineAssumption
       DEF ChannelAction, SendToChannel, ConsumerReceives, channelVars, appVars,
           Channels, FanOutInv
  <2> QED
    BY <1>4, <2>1 DEF appVars
<1> QED
  BY <1>1, <1>2, <1>3, <1>4, WhoChanges DEF AppCoreStep

\* AppCore implements Broadcast: every channel gets every message, in order,
\* one message at a time (HandleMessagesUntilEOF).
THEOREM FanOutImplementsBroadcast == Spec => FanOutSpec
<1>1. Init => HandlerInv /\ FanOutInv
  BY InitHandler, InitFanOut
<1>2. HandlerInv /\ FanOutInv /\ [Next]_vars => (HandlerInv /\ FanOutInv)'
  BY NextHandler, NextFanOut
<1>3. Init => FanOut!Init
  BY DEF Init, FanOut!Init
<1> QED
  BY <1>1, <1>2, <1>3, FanOutStep, PTL DEF Spec, FanOutSpec, FanOut!Spec
-----------------------------------------------------------------------------
(* The messages made so far end where what the handler holds begins, and   *)
(* no connection began within one of them.                                 *)

Contiguous(made) ==
  /\ \A i \in 1..Len(made) :
       /\ made[i].first <= made[i].last
       /\ made[i].first = (IF i = 1 THEN 0 ELSE made[i - 1].last) + 1
       /\ made[i].last <= cut
  /\ cut = LastByte(made)

Separate(made) ==
  /\ \A s \in 1..Len(starts) : starts[s] <= cut + 1
  /\ \A i \in 1..Len(made), s \in 1..Len(starts) :
       ~(made[i].first < starts[s] /\ starts[s] <= made[i].last)

FlowInv == Contiguous(Made) /\ Separate(Made)

\* The messages made so far.
LEMMA MadeType == ASSUME HandlerInv, FanOutInv PROVE Made \in Seq(Messages)
  BY DEF HandlerInv, FanOutInv, Made

\* The initial state.
LEMMA InitFlow == Init => FlowInv
  BY DEF Init, FlowInv, Contiguous, Separate, Made, LastByte

\* One more message, of the bytes that follow.
LEMMA MakeOne ==
  ASSUME HandlerInv, FanOutInv, FlowInv, HandlerInv',
         NEW m \in Messages, Made' = Append(Made, m), m.first = cut + 1,
         m.last = cut', cut' > cut, starts' = starts
  PROVE  FlowInv'
<1> DEFINE made == Made
<1>1. /\ made \in Seq(Messages)
      /\ starts \in Seq(1..(NumBytes + 1))
      /\ cut \in Nat /\ cut' \in Nat /\ NumBytes \in Nat
  BY MadeType, PipelineAssumption DEF HandlerInv
<1>2. Made' = Append(made, m) /\ Len(Made') = Len(made) + 1
  BY <1>1
<1>3. Contiguous(made) /\ Separate(made)
  BY DEF FlowInv
<1>4. \A i \in 1..Len(made) : made[i] \in Messages /\ Made'[i] = made[i]
  BY <1>1, <1>2
<1>5. Made'[Len(made) + 1] = m
  BY <1>1, <1>2
<1>6. \A s \in 1..Len(starts) : starts[s] \in Nat /\ starts'[s] = starts[s]
  BY <1>1
<1>7. \A x \in Messages : x.first \in Nat /\ x.last \in Nat
  BY PipelineAssumption DEF Messages, Bytes
<1> HIDE DEF made
<1>8. Made' # <<>> /\ LastByte(Made') = cut'
  <2>1. Len(made) \in Nat /\ Len(Made') # 0
    BY <1>1, <1>2
  <2>2. Made' # <<>>
    BY <2>1
  <2>3. LastByte(Made') = Made'[Len(Made')].last
    BY <2>2 DEF LastByte
  <2> QED
    BY <1>2, <1>5, <2>2, <2>3
<1>9. cut = IF Len(made) = 0 THEN 0 ELSE made[Len(made)].last
  BY <1>1, <1>3 DEF Contiguous, LastByte
<1>10. ASSUME NEW i \in 1..Len(Made')
       PROVE  /\ Made'[i].first <= Made'[i].last
              /\ Made'[i].first = (IF i = 1 THEN 0 ELSE Made'[i - 1].last) + 1
              /\ Made'[i].last <= cut'
  <2>1. CASE i = Len(made) + 1
    <3>1. i # 1 => Made'[i - 1] = made[Len(made)]
      BY <1>1, <1>2, <1>4, <2>1
    <3>2. (IF i = 1 THEN 0 ELSE Made'[i - 1].last) = cut
      BY <1>1, <1>9, <2>1, <3>1
    <3>3. Made'[i] = m
      BY <1>5, <2>1
    <3>4. m.first <= m.last /\ m.last <= cut'
      BY <1>1
    <3> QED
      BY <3>2, <3>3, <3>4
  <2>2. CASE i \in 1..Len(made)
    <3>1. i # 1 => i - 1 \in 1..Len(made)
      BY <1>1, <2>2
    <3>2. i # 1 => Made'[i - 1] = made[i - 1]
      BY <1>4, <3>1
    <3>3. Made'[i] = made[i] /\ made[i] \in Messages
      BY <1>4, <2>2
    <3>4. /\ made[i].first <= made[i].last
          /\ made[i].first = (IF i = 1 THEN 0 ELSE made[i - 1].last) + 1
          /\ made[i].last <= cut
      BY <1>3, <2>2 DEF Contiguous
    <3>5. made[i].last <= cut'
      BY <1>1, <1>7, <3>3, <3>4
    <3> QED
      BY <3>2, <3>3, <3>4, <3>5
  <2> QED
    BY <1>1, <1>2, <2>1, <2>2
<1>11. \A s \in 1..Len(starts) : starts[s] <= cut + 1
  BY <1>3 DEF Separate
<1>12. ASSUME NEW i \in 1..Len(Made'), NEW s \in 1..Len(starts)
       PROVE  ~(Made'[i].first < starts[s] /\ starts[s] <= Made'[i].last)
  <2>1. CASE i = Len(made) + 1
    BY <1>1, <1>5, <1>6, <1>11, <2>1
  <2>2. CASE i \in 1..Len(made)
    BY <1>3, <1>4, <2>2 DEF Separate
  <2> QED
    BY <1>1, <1>2, <2>1, <2>2
<1>13. Contiguous(Made)'
  BY <1>8, <1>10 DEF Contiguous
<1>14. Separate(Made)'
  <2>1. \A s \in 1..Len(starts') : starts'[s] <= cut' + 1
    BY <1>1, <1>6, <1>11
  <2> QED
    BY <2>1, <1>12 DEF Separate
<1> QED
  BY <1>13, <1>14 DEF FlowInv

\* Every step keeps the messages in line.
LEMMA NextFlow ==
  HandlerInv /\ FanOutInv /\ FlowInv /\ [Next]_vars => FlowInv'
<1> SUFFICES ASSUME HandlerInv, FanOutInv, FlowInv, [Next]_vars PROVE FlowInv'
  OBVIOUS
<1>0. HandlerInv'
  BY NextHandler
<1>1. ASSUME Made' = Made, cut' = cut, starts' = starts PROVE FlowInv'
  BY <1>1 DEF FlowInv, Contiguous, Separate, LastByte
<1>2. ASSUME NEW last \in (cut + 1)..bytesRead, NEW rtcm, Cut(last, rtcm),
             UNCHANGED <<starts, sent>>, framer = "read"
      PROVE  FlowInv'
  <2>1. /\ message'.first = cut + 1 /\ message'.last = last
        /\ cut' = last /\ framer' = "send"
    BY <1>2 DEF Cut
  <2>2. message' \in Messages
    BY <1>0, <2>1 DEF HandlerInv
  <2>3. Made' = Append(Made, message')
    BY <1>2, <2>1 DEF Made
  <2>4. cut' > cut
    BY <2>1, <1>2 DEF HandlerInv
  <2> QED
    BY <1>0, <1>2, <2>1, <2>2, <2>3, <2>4, MakeOne
<1>3. CASE ReadByte
  BY <1>1, <1>3 DEF ReadByte, framerVars, appVars, Made
<1>4. CASE FileHandlerReturns
  BY <1>1, <1>4 DEF FileHandlerReturns, framerVars, appVars, Made
<1>5. CASE TakeByte
  <2>1. cut < bytesRead /\ cut \in Nat /\ bytesRead \in Nat
    BY <1>5, PipelineAssumption DEF TakeByte, HandlerInv
  <2>2. UNCHANGED <<starts, sent>> /\ framer = "read"
    BY <1>5 DEF TakeByte, appVars
  <2>3. CASE UNCHANGED framerVars
    BY <1>1, <2>2, <2>3 DEF framerVars, Made
  <2>4. ASSUME NEW rtcm \in BOOLEAN, Cut(bytesRead, rtcm) PROVE FlowInv'
    BY <1>2, <2>1, <2>2, <2>4
  <2>5. CASE cut < bytesRead - 1 /\ Cut(bytesRead - 1, FALSE)
    <3>1. bytesRead - 1 \in (cut + 1)..bytesRead
      BY <2>1, <2>5
    <3> QED
      BY <1>2, <2>2, <2>5, <3>1, Zenon
  <2> QED
    BY <1>5, <2>3, <2>4, <2>5 DEF TakeByte
<1>6. CASE CutRest
  <2>1. /\ bytesRead \in (cut + 1)..bytesRead
        /\ UNCHANGED <<starts, sent>> /\ framer = "read"
    BY <1>6, PipelineAssumption DEF CutRest, HandlerInv, deviceVars, appVars
  <2>2. Cut(bytesRead, FALSE)
    BY <1>6 DEF CutRest
  <2> QED
    BY <1>2, <2>1, <2>2, Zenon
<1>7. CASE FramerReturns
  BY <1>1, <1>7 DEF FramerReturns, deviceVars, appVars, Made
<1>8. CASE Receive
  BY <1>1, <1>8 DEF Receive, deviceVars, Made
<1>9. CASE Connect
  <2>1. /\ framer = "returned" /\ framer' = "read" /\ sent' = sent
        /\ cut' = cut /\ cut = bytesRead /\ starts' = Append(starts, cut + 1)
    BY <1>9 DEF Connect, FanOutInv, HandlerInv
  <2>2. Made' = Made /\ Made \in Seq(Messages)
    BY <2>1, MadeType DEF Made
  <2>3. \A x \in Messages : x.first \in Nat /\ x.last \in Nat
    BY PipelineAssumption DEF Messages, Bytes
  <2>4. starts \in Seq(1..(NumBytes + 1)) /\ cut \in Nat
    BY PipelineAssumption DEF HandlerInv
  <2>5. \A s \in 1..Len(starts') :
          IF s = Len(starts) + 1 THEN starts'[s] = cut + 1
          ELSE s \in 1..Len(starts) /\ starts'[s] = starts[s]
    BY <2>1, <2>4
  <2>6. Contiguous(Made)'
    BY <2>1, <2>2 DEF FlowInv, Contiguous, LastByte
  <2>7. Separate(Made)'
    <3> DEFINE made == Made
    <3>1. /\ made \in Seq(Messages) /\ made' = made
          /\ Contiguous(made) /\ Separate(made)
      BY <2>2 DEF FlowInv
    <3>2. \A i \in 1..Len(made) : made[i].last <= cut /\ made[i].last \in Nat
      BY <2>3, <3>1 DEF Contiguous
    <3> HIDE DEF made
    <3>3. \A s \in 1..Len(starts') : starts'[s] <= cut' + 1
      BY <2>1, <2>4, <2>5, <3>1 DEF Separate
    <3>4. ASSUME NEW i \in 1..Len(made), NEW s \in 1..Len(starts')
          PROVE  ~(made[i].first < starts'[s] /\ starts'[s] <= made[i].last)
      <4>1. CASE s = Len(starts) + 1
        BY <2>4, <2>5, <3>2, <4>1
      <4>2. CASE s # Len(starts) + 1
        BY <2>5, <3>1, <4>2 DEF Separate
      <4> QED
        BY <4>1, <4>2
    <3> QED
      BY <3>1, <3>3, <3>4 DEF Separate, made
  <2> QED
    BY <2>6, <2>7 DEF FlowInv
<1>10. CASE UNCHANGED HandlerVars
  <2>1. UNCHANGED sent
    BY <1>10, WhoChanges
       DEF HandlerVars, framerVars, deviceVars, AppCoreStep, Receive,
           SendToChannel, SessionEnds, Connect, Exit, appVars
  <2> QED
    BY <1>1, <1>10, <2>1 DEF HandlerVars, framerVars, deviceVars, Made
<1> QED
  BY <1>3, <1>4, <1>5, <1>6, <1>7, <1>8, <1>9, <1>10, WhoChanges DEF HandlerAction

\* The invariant of the flow of messages.
LEMMA FlowInvariant == Spec => [](HandlerInv /\ FanOutInv /\ FlowInv)
<1>1. Init => HandlerInv /\ FanOutInv /\ FlowInv
  BY InitHandler, InitFanOut, InitFlow
<1>2. HandlerInv /\ FanOutInv /\ FlowInv /\ [Next]_vars
        => (HandlerInv /\ FanOutInv /\ FlowInv)'
  BY NextHandler, NextFanOut, NextFlow
<1> QED
  BY <1>1, <1>2, PTL DEF Spec

\* No byte is lost or duplicated between the device and AppCore, however often
\* the connection breaks (Handle, HandleMessages, HandleMessagesUntilEOF).
THEOREM NoLossAtReconnect == Spec => []NothingLostAtReconnect
<1>1. FlowInv => NothingLostAtReconnect
  BY DEF FlowInv, Contiguous, NothingLostAtReconnect
<1> QED
  BY FlowInvariant, <1>1, PTL

\* No message joins bytes of two connections (HandleMessages).
THEOREM MessagesKeepToConnections == Spec => []NoMessageAcrossConnections
<1>1. HandlerInv /\ FanOutInv /\ FlowInv => NoMessageAcrossConnections
  <2> SUFFICES ASSUME HandlerInv, FanOutInv, FlowInv,
                      NEW i \in 1..Len(sent), NEW s \in 2..Sessions
               PROVE  ~(sent[i].first < starts[s] /\ starts[s] <= sent[i].last)
    BY DEF NoMessageAcrossConnections
  <2>1. sent \in Seq(Messages) /\ Made \in Seq(Messages)
    BY MadeType DEF FanOutInv
  <2>2. i \in 1..Len(Made) /\ Made[i] = sent[i]
    BY <2>1 DEF Made, HandlerInv
  <2>3. s \in 1..Len(starts)
    BY DEF Sessions, HandlerInv
  <2> QED
    BY <2>2, <2>3 DEF FlowInv, Separate
<1> QED
  BY FlowInvariant, <1>1, PTL

\* AppCore waits for the device, or returns, only when every channel has been
\* sent everything that was read (HandleMessagesUntilEOF).
THEOREM FlushBeforeConnect == Spec => []FlushedBeforeConnect
<1>1. HandlerInv /\ FanOutInv /\ FlowInv => FlushedBeforeConnect
  <2> SUFFICES ASSUME HandlerInv, FanOutInv, FlowInv,
                      appCore \in {"connect", "returned"}
               PROVE  /\ LastByte(sent) = bytesRead
                      /\ \A c \in Channels : received[c] = sent
    BY DEF FlushedBeforeConnect
  <2>1. framer = "returned" /\ \A c \in Channels : received[c] = sent
    BY DEF FanOutInv
  <2>2. cut = bytesRead /\ Made = sent
    BY <2>1 DEF HandlerInv, Made
  <2> QED
    BY <2>1, <2>2 DEF FlowInv, Contiguous
<1> QED
  BY FlowInvariant, <1>1, PTL
-----------------------------------------------------------------------------
(* The consumers.                                                          *)

InHand(c) == IF consumer[c] = "write" THEN 1 ELSE 0

ConsumerInv ==
  /\ buffer \in [Channels -> Seq(Messages)]
  /\ consumer \in [Channels -> {"receive", "write", "stopped"}]
  /\ written \in [Channels -> Nat]
  /\ \A c \in Channels :
       /\ Len(received[c]) = written[c] + Len(buffer[c]) + InHand(c)
       /\ Capacity[c] # 0 => Len(buffer[c]) <= Capacity[c]
       /\ Capacity[c] = 0 /\ buffer[c] # <<>> =>
            Len(buffer[c]) = 1 /\ consumer[c] = "receive"

\* The initial state.
LEMMA InitConsumer == Init => ConsumerInv
<1> SUFFICES ASSUME Init PROVE ConsumerInv
  OBVIOUS
<1>1. \A c \in Channels : Capacity[c] \in Nat
  BY PipelineAssumption
<1> QED
  BY <1>1 DEF Init, ConsumerInv, InHand

\* What ConsumerInv says of one channel.
Balanced(c) ==
  /\ Len(received[c]) = written[c] + Len(buffer[c]) + InHand(c)
  /\ Capacity[c] # 0 => Len(buffer[c]) <= Capacity[c]
  /\ Capacity[c] = 0 /\ buffer[c] # <<>> =>
       Len(buffer[c]) = 1 /\ consumer[c] = "receive"

\* A message on its way from the channel to the consumer is counted once.
LEMMA MoveOne ==
  ASSUME NEW w \in Nat, NEW b \in Nat
  PROVE  /\ (w + 1) + (b - 1) + 0 = w + b
         /\ w + (b - 1) + 1 = w + b
OBVIOUS

\* AppCore and the consumers keep it.
LEMMA NextConsumer ==
  HandlerInv /\ FanOutInv /\ ConsumerInv /\ [Next]_vars => ConsumerInv'
<1> SUFFICES ASSUME HandlerInv, FanOutInv, ConsumerInv, [Next]_vars
             PROVE  ConsumerInv'
  OBVIOUS
<1>1. /\ \A c \in Channels : Capacity[c] \in Nat
      /\ \A c \in Channels : Balanced(c)
      /\ received \in [Channels -> Seq(Messages)]
      /\ buffer \in [Channels -> Seq(Messages)]
      /\ consumer \in [Channels -> {"receive", "write", "stopped"}]
      /\ written \in [Channels -> Nat]
  BY PipelineAssumption DEF ConsumerInv, FanOutInv, Balanced
<1>2. SUFFICES ASSUME TRUE
      PROVE  /\ buffer' \in [Channels -> Seq(Messages)]
             /\ consumer' \in [Channels -> {"receive", "write", "stopped"}]
             /\ written' \in [Channels -> Nat]
             /\ \A c \in Channels : Balanced(c)'
  BY DEF ConsumerInv, Balanced
<1>3. CASE SendToChannel
  <2>1. next \in Channels /\ sent[Len(sent)] \in Messages
    BY <1>3, SendOne DEF SendToChannel, FanOutInv
  <2>2. /\ buffer' = [buffer EXCEPT ![next] = Append(buffer[next], sent[Len(sent)])]
        /\ received' = [received EXCEPT ![next] = Append(received[next], sent[Len(sent)])]
        /\ consumer' = consumer /\ written' = written
        /\ RoomFor(next)
    BY <1>3 DEF SendToChannel, consumerVars
  <2>3. buffer' \in [Channels -> Seq(Messages)]
    BY <1>1, <2>1, <2>2
  <2>4. ASSUME NEW c \in Channels PROVE Balanced(c)'
    <3>1. CASE c # next
      BY <1>1, <2>1, <2>2, <3>1 DEF Balanced, InHand
    <3>2. CASE c = next
      <4>1. /\ Len(buffer'[c]) = Len(buffer[c]) + 1
            /\ Len(received'[c]) = Len(received[c]) + 1
            /\ buffer[c] \in Seq(Messages)
        BY <1>1, <2>1, <2>2, <3>2
      <4>2. /\ Len(buffer[c]) \in Nat /\ Capacity[c] \in Nat /\ written[c] \in Nat
            /\ buffer[c] = <<>> => Len(buffer[c]) = 0
        BY <1>1, <4>1
      <4>3. Balanced(c) /\ RoomFor(c) /\ InHand(c)' = InHand(c) /\ InHand(c) \in Nat
        <5>1. Balanced(c)
          BY <1>1
        <5>2. RoomFor(c)
          BY <2>2, <3>2
        <5>3. InHand(c)' = InHand(c) /\ InHand(c) \in Nat
          BY <2>2 DEF InHand
        <5> QED
          BY <5>1, <5>2, <5>3
      <4>4. Len(received'[c]) = written'[c] + Len(buffer'[c]) + InHand(c)'
        <5>1. Len(received[c]) = written[c] + Len(buffer[c]) + InHand(c)
          BY <4>3 DEF Balanced
        <5>2. Len(received'[c]) = (written[c] + Len(buffer[c]) + InHand(c)) + 1
          BY <4>1, <5>1
        <5>3. Len(received'[c]) = written[c] + (Len(buffer[c]) + 1) + InHand(c)
          BY <4>2, <4>3, <5>2
        <5> QED
          BY <2>2, <4>1, <4>3, <5>3
      <4>5. Capacity[c] # 0 => Len(buffer'[c]) <= Capacity[c]
        BY <4>1, <4>2, <4>3 DEF RoomFor
      <4>6. Capacity[c] = 0 => Len(buffer'[c]) = 1 /\ consumer'[c] = "receive"
        BY <2>2, <4>1, <4>2, <4>3 DEF RoomFor
      <4> QED
        BY <4>4, <4>5, <4>6 DEF Balanced
    <3> QED
      BY <3>1, <3>2
  <2> QED
    BY <1>1, <2>2, <2>3, <2>4
<1>4. ASSUME NEW d \in Channels, ConsumerStep(d) \/ WriteFails(d)
      PROVE  /\ buffer' \in [Channels -> Seq(Messages)]
             /\ consumer' \in [Channels -> {"receive", "write", "stopped"}]
             /\ written' \in [Channels -> Nat]
             /\ \A c \in Channels : Balanced(c)'
  <2>1. CASE ConsumerReceives(d)
    <3>1. /\ buffer[d] \in Seq(Messages) /\ buffer[d] # <<>>
          /\ Tail(buffer[d]) \in Seq(Messages)
          /\ Len(Tail(buffer[d])) = Len(buffer[d]) - 1
          /\ buffer' = [buffer EXCEPT ![d] = Tail(buffer[d])]
          /\ received' = received /\ consumer[d] = "receive"
      BY <1>1, <2>1 DEF ConsumerReceives
    <3>2. \/ written' = [written EXCEPT ![d] = @ + 1] /\ consumer' = consumer
          \/ consumer' = [consumer EXCEPT ![d] = "write"] /\ written' = written
      BY <2>1 DEF ConsumerReceives
    <3>3. /\ buffer' \in [Channels -> Seq(Messages)]
          /\ consumer' \in [Channels -> {"receive", "write", "stopped"}]
          /\ written' \in [Channels -> Nat]
      <4>1. buffer' \in [Channels -> Seq(Messages)]
        BY <1>1, <3>1
      <4>2. CASE written' = [written EXCEPT ![d] = @ + 1] /\ consumer' = consumer
        BY <1>1, <4>1, <4>2
      <4>3. CASE consumer' = [consumer EXCEPT ![d] = "write"] /\ written' = written
        BY <1>1, <4>1, <4>3
      <4> QED
        BY <3>2, <4>2, <4>3
    <3>4. ASSUME NEW c \in Channels PROVE Balanced(c)'
      <4>1. CASE c # d
        BY <1>1, <3>1, <3>2, <4>1 DEF Balanced, InHand
      <4>2. CASE c = d
        <5>1. buffer'[c] = Tail(buffer[c])
          BY <1>1, <3>1, <4>2
        <5>2. Len(buffer'[c]) = Len(buffer[c]) - 1
          BY <3>1, <4>2, <5>1
        <5>3. buffer'[c] # <<>> => Len(buffer'[c]) # 0
          BY <3>1, <4>2, <5>1
        <5>4. /\ Len(buffer[c]) \in Nat /\ Len(buffer'[c]) \in Nat
              /\ Capacity[c] \in Nat /\ written[c] \in Nat
              /\ InHand(c) = 0
          BY <1>1, <3>1, <3>3, <4>2 DEF InHand
        <5>5. /\ Len(received'[c]) = written[c] + Len(buffer[c])
              /\ Capacity[c] # 0 => Len(buffer[c]) <= Capacity[c]
              /\ Capacity[c] = 0 => Len(buffer[c]) = 1
          <6>1. Balanced(c) /\ buffer[c] # <<>> /\ received' = received
            BY <1>1, <3>1, <4>2
          <6>2. Len(received'[c]) = written[c] + Len(buffer[c]) + 0
            BY <5>4, <6>1 DEF Balanced
          <6>3. /\ Capacity[c] # 0 => Len(buffer[c]) <= Capacity[c]
                /\ Capacity[c] = 0 => Len(buffer[c]) = 1
            BY <6>1 DEF Balanced
          <6> QED
            BY <5>4, <6>2, <6>3
        <5>6. Capacity[c] # 0 => Len(buffer'[c]) <= Capacity[c]
          BY <5>2, <5>4, <5>5
        <5>7. Capacity[c] = 0 => buffer'[c] = <<>>
          <6> SUFFICES ASSUME Capacity[c] = 0 PROVE buffer'[c] = <<>>
            OBVIOUS
          <6>1. Len(buffer'[c]) = 0
            BY <5>2, <5>5
          <6> QED
            BY <5>3, <6>1
        <5>8. /\ (written[c] + 1) + (Len(buffer[c]) - 1) + 0 = written[c] + Len(buffer[c])
              /\ written[c] + (Len(buffer[c]) - 1) + 1 = written[c] + Len(buffer[c])
          BY <5>4, MoveOne
        <5>9. Len(received'[c]) = written'[c] + Len(buffer'[c]) + InHand(c)'
          <6>1. CASE written' = [written EXCEPT ![d] = @ + 1] /\ consumer' = consumer
            <7>1. written'[c] = written[c] + 1 /\ InHand(c)' = 0
              BY <1>1, <3>1, <4>2, <6>1 DEF InHand
            <7>2. Len(buffer'[c]) = Len(buffer[c]) - 1 /\ InHand(c)' = 0
              BY <5>2, <7>1
            <7> QED
              BY <5>5, <5>8, <7>1, <7>2
          <6>2. CASE consumer' = [consumer EXCEPT ![d] = "write"] /\ written' = written
            <7>1. written'[c] = written[c] /\ InHand(c)' = 1
              BY <1>1, <4>2, <6>2 DEF InHand
            <7>2. Len(buffer'[c]) = Len(buffer[c]) - 1 /\ InHand(c)' = 1
              BY <5>2, <7>1
            <7> QED
              BY <5>5, <5>8, <7>1, <7>2
          <6> QED
            BY <3>2, <6>1, <6>2
        <5>10. ~(Capacity[c] = 0 /\ buffer'[c] # <<>>)
          BY <5>7
        <5> HIDE DEF InHand
        <5> QED
          BY <5>6, <5>9, <5>10 DEF Balanced
      <4> QED
        BY <4>1, <4>2
    <3> QED
      BY <3>3, <3>4
  <2>2. CASE Write(d)
    BY <1>1, <2>2 DEF Write, Balanced, InHand, channelVars
  <2>3. CASE WriteFails(d)
    BY <1>1, <2>3 DEF WriteFails, Balanced, InHand, channelVars
  <2>4. CASE ConsumerReturns(d)
    BY <1>1, <2>4 DEF ConsumerReturns, Balanced, InHand, channelVars
  <2> QED
    BY <1>4, <2>1, <2>2, <2>3, <2>4 DEF ConsumerStep
<1>5. CASE UNCHANGED <<channelVars, consumerVars>>
  BY <1>1, <1>5 DEF channelVars, consumerVars, Balanced, InHand
<1>6. \/ SendToChannel
      \/ \E d \in Channels : ConsumerStep(d) \/ WriteFails(d)
      \/ UNCHANGED <<channelVars, consumerVars>>
  BY WhoChanges DEF ChannelAction, ConsumerAction, ConsumerStep
<1> QED
  BY <1>3, <1>4, <1>5, <1>6

\* The invariant of the consumers.
LEMMA ConsumerInvariant == Spec => [](HandlerInv /\ FanOutInv /\ ConsumerInv)
<1>1. Init => HandlerInv /\ FanOutInv /\ ConsumerInv
  BY InitHandler, InitFanOut, InitConsumer
<1>2. HandlerInv /\ FanOutInv /\ ConsumerInv /\ [Next]_vars
        => (HandlerInv /\ FanOutInv /\ ConsumerInv)'
  BY NextHandler, NextFanOut, NextConsumer
<1> QED
  BY <1>1, <1>2, PTL DEF Spec

\* A consumer is never further behind than the room in its channel and the
\* message in its hands (DisplayMessages, writeRTCMMessages).
THEOREM BoundedLag == Spec => []UnwrittenBounded
<1>1. FanOutInv /\ ConsumerInv => UnwrittenBounded
  <2> SUFFICES ASSUME FanOutInv, ConsumerInv, NEW c \in Channels
               PROVE  Len(received[c]) - written[c] <= Capacity[c] + 1
    BY DEF UnwrittenBounded
  <2>1. /\ Capacity[c] \in Nat /\ written[c] \in Nat
        /\ buffer[c] \in Seq(Messages) /\ Balanced(c)
    BY PipelineAssumption DEF ConsumerInv, Balanced
  <2>2. Len(buffer[c]) \in Nat /\ (buffer[c] = <<>> => Len(buffer[c]) = 0)
    BY <2>1
  <2>3. /\ Len(received[c]) = written[c] + Len(buffer[c]) + InHand(c)
        /\ InHand(c) \in Nat /\ InHand(c) <= 1
    <3>1. Len(received[c]) = written[c] + Len(buffer[c]) + InHand(c)
      BY <2>1 DEF Balanced
    <3>2. InHand(c) \in Nat /\ InHand(c) <= 1
      BY DEF InHand
    <3> QED
      BY <3>1, <3>2
  <2>4. Len(received[c]) - written[c] = Len(buffer[c]) + InHand(c)
    <3>1. written[c] \in Nat /\ Len(buffer[c]) \in Nat /\ InHand(c) \in Nat
      BY <2>1, <2>2, <2>3
    <3> QED
      BY <2>3, <3>1
  <2>5. CASE Capacity[c] # 0
    <3>1. Len(buffer[c]) <= Capacity[c]
      BY <2>1, <2>5 DEF Balanced
    <3>2. /\ Capacity[c] \in Nat /\ Len(buffer[c]) \in Nat
          /\ InHand(c) \in Nat /\ InHand(c) <= 1
      BY <2>1, <2>2, <2>3
    <3>3. Len(buffer[c]) + InHand(c) <= Capacity[c] + 1
      BY <3>1, <3>2
    <3> QED
      BY <2>4, <3>3
  <2>6. CASE Capacity[c] = 0 /\ buffer[c] # <<>>
    <3>1. Len(buffer[c]) = 1 /\ consumer[c] = "receive"
      BY <2>1, <2>6 DEF Balanced
    <3>2. InHand(c) = 0
      BY <3>1 DEF InHand
    <3>3. Len(received[c]) - written[c] = 1
      BY <2>4, <3>1, <3>2
    <3> QED
      BY <2>6, <3>3
  <2>7. CASE Capacity[c] = 0 /\ buffer[c] = <<>>
    BY <2>2, <2>3, <2>4, <2>7
  <2> QED
    BY <2>5, <2>6, <2>7
<1> QED
  BY ConsumerInvariant, <1>1, PTL

\* Every variable keeps to its type.
THEOREM TypeCorrect == Spec => []TypeOK
<1>1. HandlerInv /\ FanOutInv /\ ConsumerInv => TypeOK
  BY DEF HandlerInv, FanOutInv, ConsumerInv, TypeOK, Sessions
<1> QED
  BY ConsumerInvariant, <1>1, PTL
=============================================================================
