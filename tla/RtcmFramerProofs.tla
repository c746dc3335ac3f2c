-------------------------- MODULE RtcmFramerProofs --------------------------
(***************************************************************************)
(* Theorems about RtcmFramer, for every set of streams and every hash.     *)
(***************************************************************************)
EXTENDS RtcmFramer, SequenceTheorems, TLAPS

\* The next byte is a byte, and taking it leaves a well-formed reader.
LEMMA NextByteType ==
  ASSUME TypeOK, ByteReady
  PROVE  /\ NextByte \in Byte
         /\ NextPos \in 0..Len(stream)
         /\ RestOfPushback = <<>>
         /\ stream \in Seq(Byte)
<1>1. stream \in Seq(Byte)
  BY StreamsAssumption DEF TypeOK
<1>2. CASE pushback = <<>>
  <2>1. pos + 1 \in 1..Len(stream)
    BY <1>1, <1>2 DEF TypeOK, ByteReady
  <2>2. stream[pos + 1] \in Byte
    BY <1>1, <2>1, ElementOfSeq
  <2>3. QED
    BY <1>1, <1>2, <2>1, <2>2 DEF NextByte, NextPos, RestOfPushback
<1>3. CASE pushback = <<StartOfMessageFrame>>
  <2>1. Head(pushback) = StartOfMessageFrame /\ Tail(pushback) = <<>> /\ pushback # <<>>
    BY <1>3
  <2>2. QED
    BY <1>1, <2>1 DEF NextByte, NextPos, RestOfPushback, TypeOK, Byte, StartOfMessageFrame
<1>4. QED
  BY <1>2, <1>3 DEF TypeOK

\* A message type computed from a frame of bytes is a number.
LEMMA MessageTypeIsInt ==
  ASSUME NEW f \in Seq(Byte), Len(f) >= LeaderAndMessageLength
  PROVE  /\ MessageType(f) \in Int
         /\ MessageLength(f) \in Nat
         /\ SanityCheck(f) \in Nat
         /\ FrameLength(f) \in Nat
<1>1. f[2] \in Byte /\ f[3] \in Byte /\ f[4] \in Byte /\ f[5] \in Byte
  BY ElementOfSeq DEF LeaderAndMessageLength, LeaderLengthBytes
<1>2. \A b \in Byte : b \div 4 \in Nat /\ b % 4 \in Nat /\ b \div 16 \in Nat /\ b \in Nat
  BY DEF Byte
<1>3. SanityCheck(f) \in Nat
  BY <1>1, <1>2 DEF SanityCheck
<1>4. MessageLength(f) \in Nat
  <2>1. f[2] % 4 \in Nat /\ f[3] \in Nat
    BY <1>1, <1>2
  <2>2. QED
    BY <2>1 DEF MessageLength
<1>5. MessageType(f) \in Int
  <2>1. f[4] \in Nat /\ f[5] \div 16 \in Nat
    BY <1>1, <1>2
  <2>2. QED
    BY <2>1 DEF MessageType
<1>6. FrameLength(f) \in Nat
  BY <1>4 DEF FrameLength, LeaderLengthBytes, CRCLengthBytes
<1>7. QED
  BY <1>3, <1>4, <1>5, <1>6

\* Bytes appended to a frame make a frame.
LEMMA AppendFrame ==
  ASSUME TypeOK, ByteReady
  PROVE  /\ Append(frame, NextByte) \in Seq(Byte)
         /\ Len(Append(frame, NextByte)) = Len(frame) + 1
         /\ Append(frame, NextByte) # <<>>
         /\ Len(frame) \in Nat
         /\ \A i \in 1..Len(frame) : Append(frame, NextByte)[i] = frame[i]
         /\ Append(frame, NextByte)[Len(frame) + 1] = NextByte
  BY NextByteType, AppendProperties, LenProperties DEF TypeOK

\* A complete frame's worth of bytes is read one at a time: the next byte
\* changes neither the leader nor the length it announces.
LEMMA BodyFrame ==
  ASSUME TypeOK, PhaseShape, phase = "body", ByteReady,
         NEW f, f = Append(frame, NextByte)
  PROVE  /\ f \in Seq(Byte)
         /\ Len(f) \in Nat
         /\ Len(f) = Len(frame) + 1
         /\ Len(f) > LeaderAndMessageLength
         /\ f[1] = StartOfMessageFrame
         /\ LeaderOK(f)
         /\ FrameLength(f) \in Nat
         /\ Len(f) <= FrameLength(f)
         /\ MessageType(f) \in Int
         /\ \A i \in 1..Len(frame) : f[i] = frame[i]
<1>1. /\ f \in Seq(Byte)
      /\ Len(f) = Len(frame) + 1
      /\ Len(frame) \in Nat
      /\ \A i \in 1..Len(frame) : f[i] = frame[i]
  BY AppendFrame
<1>2. Len(frame) >= 5 /\ Len(frame) < FrameLength(frame)
  BY DEF PhaseShape, LeaderAndMessageLength, LeaderLengthBytes
<1>3. f[1] = frame[1] /\ f[2] = frame[2] /\ f[3] = frame[3]
  BY <1>1, <1>2
<1>4. LeaderOK(f) /\ FrameLength(f) = FrameLength(frame) /\ f[1] = StartOfMessageFrame
  BY <1>3 DEF PhaseShape, LeaderOK, SanityCheck, FrameLength, MessageLength
<1>5. Len(f) > LeaderAndMessageLength
  BY <1>1, <1>2 DEF LeaderAndMessageLength, LeaderLengthBytes
<1>6. Len(f) >= LeaderAndMessageLength
  BY <1>1, <1>5 DEF LeaderAndMessageLength, LeaderLengthBytes
<1>7. FrameLength(f) \in Nat /\ MessageType(f) \in Int
  BY <1>1, <1>6, MessageTypeIsInt
<1>8. Len(f) <= FrameLength(f)
  BY <1>1, <1>2, <1>4, <1>7
<1>9. QED
  BY <1>1, <1>4, <1>5, <1>7, <1>8

\* A message of bytes is a message.
LEMMA ReturnType ==
  ASSUME NEW type \in Int, NEW raw \in Seq(Byte), Return(type, raw)
  PROVE  phase' \in Phases /\ frame' \in Seq(Byte) /\ message' \in Messages
  BY EmptySeq DEF Return, Phases, Messages

\* Returning a non-empty message gives the shape of the "send" phase.
LEMMA ReturnShape ==
  ASSUME NEW type, NEW raw, Return(type, raw), raw # <<>>
  PROVE  PhaseShape'
  BY DEF Return, PhaseShape

TypeAndShape == TypeOK /\ PhaseShape

\* Every variable keeps its type, and in every phase the buffers hold what
\* HandleMessages expects there: one step per action.
THEOREM TypeCorrect == Spec => []TypeAndShape
<1>1. Init => TypeAndShape
  <2> SUFFICES ASSUME Init PROVE TypeAndShape
    OBVIOUS
  <2>1. stream \in Seq(Byte)
    BY StreamsAssumption DEF Init
  <2>2. Len(stream) \in Nat
    BY <2>1, LenProperties
  <2>3. NoMessage \in Messages
    BY EmptySeq DEF NoMessage, Messages, NonRTCMMessage
  <2>4. <<>> \in Seq(Byte) /\ <<>> \in Seq(Messages)
    BY EmptySeq
  <2>5. TypeOK
    <3>1. pos \in 0..Len(stream)
      BY <2>2 DEF Init
    <3>2. closed \in BOOLEAN
      BY DEF Init
    <3>3. phase \in Phases
      BY DEF Init, Phases
    <3>4. QED
      BY <2>3, <2>4, <3>1, <3>2, <3>3, Zenon DEF Init, TypeOK
  <2>6. PhaseShape
    BY DEF Init, PhaseShape
  <2>7. QED
    BY <2>5, <2>6 DEF TypeAndShape
<1>2. TypeAndShape /\ [Next]_vars => TypeAndShape'
  <2> SUFFICES ASSUME TypeOK, PhaseShape, [Next]_vars
               PROVE  TypeOK' /\ PhaseShape'
    BY DEF TypeAndShape
  <2>1. CASE EatOther
    <3>1. TypeOK'
      BY <2>1, NextByteType, AppendFrame DEF EatOther, GetNextByte, TypeOK
    <3>2. PhaseShape'
      <4>1. pushback' = <<>> /\ phase' = "eat" /\ message' = NoMessage
        BY <2>1, NextByteType DEF EatOther, GetNextByte, PhaseShape
      <4>2. \A i \in 1..Len(frame') : frame'[i] # StartOfMessageFrame
        BY <2>1, AppendFrame DEF EatOther, GetNextByte, PhaseShape
      <4>3. QED
        BY <4>1, <4>2 DEF PhaseShape
    <3>3. QED
      BY <3>1, <3>2
  <2>2. CASE EatStart
    <3>1. <<NextByte>> \in Seq(Byte)
      BY <2>2, NextByteType DEF EatStart, GetNextByte
    <3>2. TypeOK'
      BY <2>2, <3>1, NextByteType DEF EatStart, GetNextByte, TypeOK, Phases
    <3>3. Len(frame') = 1 /\ frame'[1] = StartOfMessageFrame
      BY <2>2 DEF EatStart
    <3>4. pushback' = <<>> /\ phase' = "leader" /\ message' = NoMessage
      BY <2>2, NextByteType DEF EatStart, GetNextByte, PhaseShape
    <3>5. PhaseShape'
      BY <3>3, <3>4 DEF PhaseShape, LeaderAndMessageLength, LeaderLengthBytes
    <3>6. QED
      BY <3>2, <3>5
  <2>3. CASE EatStartAfterOther
    <3>1. pushback' = <<StartOfMessageFrame>> /\ pos' \in 0..Len(stream)
      BY <2>3, NextByteType DEF EatStartAfterOther, PushBack
    <3>2. phase' \in Phases /\ frame' \in Seq(Byte) /\ message' \in Messages
      BY <2>3, ReturnType DEF EatStartAfterOther, NonRTCMMessage, TypeOK
    <3>3. TypeOK'
      BY <2>3, <3>1, <3>2 DEF EatStartAfterOther, TypeOK
    <3>4. PhaseShape'
      BY <2>3, ReturnShape DEF EatStartAfterOther
    <3>5. QED
      BY <3>3, <3>4
  <2>4. CASE LeaderByte
    <3> DEFINE f == Append(frame, NextByte)
    <3>1. ByteReady /\ pos' = NextPos /\ pushback' = RestOfPushback
      BY <2>4 DEF LeaderByte, GetNextByte
    <3>2. /\ f \in Seq(Byte) /\ f # <<>> /\ Len(f) = Len(frame) + 1
          /\ Len(frame) \in 1..(LeaderAndMessageLength - 1)
          /\ \A i \in 1..Len(frame) : f[i] = frame[i]
      BY <2>4, <3>1, AppendFrame DEF LeaderByte, PhaseShape
    <3>3. f[1] = StartOfMessageFrame /\ pushback' = <<>> /\ message = NoMessage
      BY <2>4, <3>1, <3>2, NextByteType DEF LeaderByte, PhaseShape,
         LeaderAndMessageLength, LeaderLengthBytes
    <3>4. /\ phase' \in Phases /\ frame' \in Seq(Byte) /\ message' \in Messages
          /\ PhaseShape'
      <4>1. CASE Len(f) < LeaderAndMessageLength /\ frame' = f /\ UNCHANGED <<phase, message>>
        <5>1. phase' = "leader"
          BY <2>4, <4>1 DEF LeaderByte
        <5>2. PhaseShape'
          BY <4>1, <5>1, <3>2, <3>3 DEF PhaseShape, LeaderAndMessageLength, LeaderLengthBytes
        <5>3. QED
          BY <4>1, <5>2, <3>2 DEF TypeOK
      <4>2. CASE /\ Len(f) = LeaderAndMessageLength /\ LeaderOK(f)
                 /\ frame' = f /\ phase' = "body" /\ UNCHANGED message
        <5> HIDE DEF f
        <5>1. MessageLength(f) \in Nat /\ MessageLength(f) > 0
          BY <4>2, <3>2, MessageTypeIsInt DEF LeaderOK, LeaderAndMessageLength, LeaderLengthBytes
        <5>2. Len(f) < FrameLength(f)
          BY <4>2, <5>1 DEF FrameLength, LeaderAndMessageLength, LeaderLengthBytes, CRCLengthBytes
        <5>3. Len(f) >= LeaderAndMessageLength
          BY <4>2 DEF LeaderAndMessageLength, LeaderLengthBytes
        <5>4. PhaseShape'
          BY <4>2, <5>2, <5>3, <3>3 DEF PhaseShape
        <5>5. QED
          BY <4>2, <5>4, <3>2 DEF TypeOK, Phases
      <4>3. CASE Return(NonRTCMMessage, f)
        <5> HIDE DEF f
        <5>1. NonRTCMMessage \in Int
          BY DEF NonRTCMMessage
        <5>2. QED
          BY <4>3, <5>1, <3>2, ReturnType, ReturnShape
      <4>4. QED
        BY <2>4, <4>1, <4>2, <4>3 DEF LeaderByte
    <3>5. QED
      BY <2>4, <3>1, <3>4, NextByteType DEF LeaderByte, TypeOK
  <2>5. CASE BodyByte
    <3> DEFINE f == Append(frame, NextByte)
    <3>1. ByteReady /\ pos' = NextPos /\ pushback' = RestOfPushback /\ phase = "body"
      BY <2>5 DEF BodyByte, GetNextByte
    <3>2. \/ ~FrameComplete(f) /\ frame' = f /\ UNCHANGED <<phase, message>>
          \/ GetMessage(f)
      BY <2>5 DEF BodyByte
    <3> HIDE DEF f
    <3>3. /\ f \in Seq(Byte) /\ Len(f) \in Nat
          /\ Len(f) > LeaderAndMessageLength
          /\ f[1] = StartOfMessageFrame /\ LeaderOK(f)
          /\ FrameLength(f) \in Nat /\ Len(f) <= FrameLength(f)
          /\ MessageType(f) \in Int
      BY <3>1, BodyFrame DEF f
    <3>4. f # <<>> /\ pushback' = <<>> /\ message = NoMessage
      BY <3>1, AppendFrame, NextByteType DEF PhaseShape, f
    <3>5. /\ phase' \in Phases /\ frame' \in Seq(Byte) /\ message' \in Messages
          /\ PhaseShape'
      <4>1. CASE ~FrameComplete(f) /\ frame' = f /\ UNCHANGED <<phase, message>>
        <5>1. Len(f) < FrameLength(f) /\ Len(f) >= LeaderAndMessageLength
          BY <4>1, <3>3 DEF FrameComplete, LeaderAndMessageLength, LeaderLengthBytes
        <5>2. PhaseShape'
          BY <4>1, <5>1, <3>1, <3>3, <3>4 DEF PhaseShape
        <5>3. QED
          BY <4>1, <5>2, <3>3 DEF TypeOK
      <4>2. CASE Return(NonRTCMMessage, f)
        <5>1. NonRTCMMessage \in Int
          BY DEF NonRTCMMessage
        <5>2. QED
          BY <4>2, <5>1, <3>3, <3>4, ReturnType, ReturnShape
      <4>3. CASE Return(MessageType(f), f)
        BY <4>3, <3>3, <3>4, ReturnType, ReturnShape
      <4>4. CASE frame' = f /\ phase' = "panic" /\ UNCHANGED message
        BY <4>4, <3>3, <3>4 DEF TypeOK, Phases, PhaseShape
      <4>5. QED
        BY <3>2, <4>1, <4>2, <4>3, <4>4 DEF GetMessage
    <3>6. QED
      BY <2>5, <3>1, <3>5, NextByteType DEF BodyByte, TypeOK
  <2>6. CASE EndWithData
    <3>1. TypeOK'
      BY <2>6, ReturnType DEF EndWithData, NonRTCMMessage, TypeOK
    <3>2. PhaseShape'
      BY <2>6, ReturnShape DEF EndWithData
    <3>3. QED
      BY <3>1, <3>2
  <2>7. CASE EndWithoutData
    BY <2>7 DEF EndWithoutData, EndOfInput, TypeOK, Phases, PhaseShape
  <2>8. CASE Send
    <3>1. message.raw \in Seq(Byte)
      BY DEF TypeOK, Messages
    <3>2. emitted \o message.raw \in Seq(Byte)
      BY <3>1, ConcatProperties DEF TypeOK
    <3>3. Append(out, message) \in Seq(Messages)
      BY AppendProperties DEF TypeOK
    <3>4. NoMessage \in Messages
      BY EmptySeq DEF NoMessage, Messages, NonRTCMMessage
    <3>5. frame' = <<>> /\ phase' = "eat"
      BY <2>8 DEF Send, PhaseShape
    <3>6. TypeOK'
      BY <2>8, <3>2, <3>3, <3>4 DEF Send, TypeOK, Phases
    <3>7. PhaseShape'
      BY <2>8, <3>5 DEF Send, PhaseShape
    <3>8. QED
      BY <3>6, <3>7
  <2>9. CASE CloseByteChan
    BY <2>9 DEF CloseByteChan, TypeOK, PhaseShape
  <2>10. CASE UNCHANGED vars
    BY <2>10 DEF vars, TypeOK, PhaseShape
  <2>11. QED
    BY <2>1, <2>2, <2>3, <2>4, <2>5, <2>6, <2>7, <2>8, <2>9, <2>10
    DEF Next, HandlerStep, Terminated
<1>3. QED
  BY <1>1, <1>2, PTL DEF Spec
-----------------------------------------------------------------------------
\* Taking a byte, from the channel or from the pushback buffer, keeps the
\* account: what has been sent, the frame and the byte make what was received.
LEMMA TakeByte ==
  ASSUME TypeOK, PhaseShape, ByteConservation,
         phase \in {"eat", "leader", "body"},
         ByteReady, pos' = NextPos, stream' = stream
  PROVE  emitted \o Append(frame, NextByte) = Taken'
<1> DEFINE b == NextByte
<1>1. /\ stream \in Seq(Byte) /\ b \in Byte /\ frame \in Seq(Byte)
      /\ emitted \in Seq(Byte) /\ <<>> \in Seq(Byte)
  BY NextByteType, EmptySeq DEF TypeOK
<1>2. Residue = frame \o pushback
  <2>1. message.raw = <<>>
    BY DEF PhaseShape, NoMessage
  <2>2. <<>> \o frame = frame
    BY <1>1, ConcatEmptySeq
  <2>3. QED
    BY <2>1, <2>2 DEF Residue
<1>3. CASE pushback = <<>>
  <2>1. emitted \o frame = Taken
    <3>1. frame \o <<>> = frame
      BY <1>1, ConcatEmptySeq
    <3>2. QED
      BY <1>2, <1>3, <3>1 DEF ByteConservation
  <2>2. pos + 1 \in 1..Len(stream) /\ b = stream[pos + 1] /\ pos' = pos + 1
        /\ pos \in Nat /\ Len(stream) \in Nat
    BY <1>1, <1>3, LenProperties DEF TypeOK, ByteReady, NextByte, NextPos
  <2>3. Taken' = SubSeq(stream, 1, pos + 1)
    BY <2>2 DEF Taken
  <2>4. SubSeq(stream, 1, pos + 1) = SubSeq(stream, 1, (pos + 1) - 1) \o <<stream[pos + 1]>>
    <3>1. 1 \in 1..Len(stream)
      BY <2>2
    <3>2. QED
      BY <1>1, <2>2, <3>1, SubSeqRecursiveSecond
  <2>5. (pos + 1) - 1 = pos
    BY <2>2
  <2>6. Taken' = Taken \o <<b>>
    BY <2>2, <2>3, <2>4, <2>5 DEF Taken
  <2>7. <<b>> \in Seq(Byte) /\ Append(frame, b) = frame \o <<b>>
    BY <1>1, AppendIsConcat
  <2>8. (emitted \o frame) \o <<b>> = emitted \o (frame \o <<b>>)
    BY SMTT(60), <1>1, <2>7, ConcatAssociative
  <2>9. QED
    BY <2>1, <2>6, <2>7, <2>8
<1>4. CASE pushback = <<StartOfMessageFrame>>
  <2>1. frame = <<>> /\ pushback # <<>> /\ b = StartOfMessageFrame /\ pos' = pos
    BY <1>4 DEF PhaseShape, NextByte, NextPos
  <2>2. Append(frame, b) = <<b>> /\ pushback = <<b>>
    BY <1>4, <2>1
  <2>3. <<>> \o <<b>> = <<b>>
    BY <1>1, <2>2, ConcatEmptySeq
  <2>4. Taken' = Taken
    BY <2>1 DEF Taken
  <2>5. QED
    BY <1>2, <2>1, <2>2, <2>3, <2>4 DEF ByteConservation
<1>5. QED
  BY <1>3, <1>4 DEF TypeOK

\* What is held after a step that leaves the byte in the frame.
LEMMA ResidueInFrame ==
  ASSUME NEW f \in Seq(Byte), frame' = f, message' = NoMessage, pushback' = <<>>
  PROVE  Residue' = f
<1>1. <<>> \o f = f /\ f \o <<>> = f
  BY ConcatEmptySeq
<1>2. QED
  BY <1>1 DEF Residue, NoMessage

\* What is held after a step that returns a message.
LEMMA ResidueInMessage ==
  ASSUME NEW type, NEW f \in Seq(Byte), Return(type, f), NEW rest \in Seq(Byte),
         pushback' = rest
  PROVE  Residue' = f \o rest
<1>1. f \o <<>> = f
  BY ConcatEmptySeq
<1>2. QED
  BY <1>1 DEF Residue, Return

\* No byte is lost, duplicated or reordered between the byte channel and the
\* message channel, whatever the input and wherever it ends.
THEOREM Conservation == Spec => []ByteConservation
<1>1. Init => ByteConservation
  <2> SUFFICES ASSUME Init PROVE ByteConservation
    OBVIOUS
  <2>1. Taken = <<>>
    BY SubSeqEmpty DEF Init, Taken
  <2>2. <<>> \o <<>> = <<>>
    BY EmptySeq, ConcatEmptySeq
  <2>3. QED
    BY <2>1, <2>2 DEF Init, ByteConservation, Residue, NoMessage
<1>2. TypeAndShape /\ ByteConservation /\ [Next]_vars => ByteConservation'
  <2> SUFFICES ASSUME TypeOK, PhaseShape, ByteConservation, [Next]_vars
               PROVE  ByteConservation'
    BY DEF TypeAndShape
  <2> DEFINE f == Append(frame, NextByte)
  <2>0. frame \in Seq(Byte) /\ emitted \in Seq(Byte) /\ <<>> \in Seq(Byte)
    BY EmptySeq DEF TypeOK
  <2>1. CASE EatOther
    <3>1. ByteReady /\ emitted \o f = Taken'
      BY <2>1, TakeByte DEF EatOther, GetNextByte
    <3>2. Residue' = f
      <4>1. f \in Seq(Byte) /\ frame' = f /\ message' = NoMessage /\ pushback' = <<>>
        BY <2>1, <3>1, AppendFrame, NextByteType DEF EatOther, GetNextByte, PhaseShape
      <4>2. QED
        BY <4>1, ResidueInFrame
    <3>3. QED
      BY <2>1, <3>1, <3>2 DEF EatOther, ByteConservation
  <2>2. CASE EatStart
    <3>1. ByteReady /\ emitted \o f = Taken'
      BY <2>2, TakeByte DEF EatStart, GetNextByte
    <3>2. Residue' = f
      <4>1. f \in Seq(Byte) /\ message' = NoMessage /\ pushback' = <<>>
        BY <2>2, <3>1, AppendFrame, NextByteType DEF EatStart, GetNextByte, PhaseShape
      <4>2. frame' = f
        BY <2>2 DEF EatStart
      <4>3. QED
        BY <4>1, <4>2, ResidueInFrame
    <3>3. QED
      BY <2>2, <3>1, <3>2 DEF EatStart, ByteConservation
  <2>3. CASE EatStartAfterOther
    <3>1. ByteReady /\ emitted \o f = Taken'
      BY <2>3, TakeByte DEF EatStartAfterOther
    <3>2. Residue' = frame \o <<StartOfMessageFrame>>
      <4>1. /\ <<StartOfMessageFrame>> \in Seq(Byte)
            /\ Return(NonRTCMMessage, frame)
            /\ pushback' = <<StartOfMessageFrame>>
        <5>1. StartOfMessageFrame \in Byte
          BY DEF StartOfMessageFrame, Byte
        <5>2. pushback' = <<StartOfMessageFrame>>
          BY <2>3, <3>1, NextByteType DEF EatStartAfterOther, PushBack
        <5>3. QED
          BY <2>3, <5>1, <5>2 DEF EatStartAfterOther
      <4>2. QED
        BY <2>0, <4>1, ResidueInMessage
    <3>3. f = frame \o <<StartOfMessageFrame>>
      <4>1. NextByte = StartOfMessageFrame /\ NextByte \in Byte
        BY <2>3, <3>1, NextByteType DEF EatStartAfterOther
      <4>2. QED
        BY <2>0, <4>1, AppendIsConcat
    <3>4. QED
      BY <2>3, <3>1, <3>2, <3>3 DEF EatStartAfterOther, ByteConservation
  <2>4. CASE LeaderByte
    <3>1. /\ ByteReady /\ emitted \o f = Taken' /\ f \in Seq(Byte)
          /\ pushback' = <<>> /\ message = NoMessage
      BY <2>4, TakeByte, AppendFrame, NextByteType DEF LeaderByte, GetNextByte, PhaseShape
    <3>2. \/ frame' = f /\ message' = message
          \/ Return(NonRTCMMessage, f)
      BY <2>4 DEF LeaderByte
    <3>3. emitted' = emitted
      BY <2>4 DEF LeaderByte
    <3> HIDE DEF f
    <3>4. Residue' = f
      <4>1. f \o <<>> = f
        BY <3>1, ConcatEmptySeq
      <4>2. QED
        BY <2>0, <3>1, <3>2, <4>1, ResidueInFrame, ResidueInMessage
    <3>5. QED
      BY <3>1, <3>3, <3>4 DEF ByteConservation
  <2>5. CASE BodyByte
    <3>1. /\ ByteReady /\ emitted \o f = Taken' /\ f \in Seq(Byte)
          /\ pushback' = <<>> /\ message = NoMessage
      BY <2>5, TakeByte, AppendFrame, NextByteType DEF BodyByte, GetNextByte, PhaseShape
    <3>2. \/ frame' = f /\ message' = message
          \/ Return(NonRTCMMessage, f)
          \/ Return(MessageType(f), f)
      BY <2>5 DEF BodyByte, GetMessage
    <3>3. emitted' = emitted
      BY <2>5 DEF BodyByte
    <3> HIDE DEF f
    <3>4. Residue' = f
      <4>1. f \o <<>> = f
        BY <3>1, ConcatEmptySeq
      <4>2. QED
        BY <2>0, <3>1, <3>2, <4>1, ResidueInFrame, ResidueInMessage
    <3>5. QED
      BY <3>1, <3>3, <3>4 DEF ByteConservation
  <2>6. CASE EndWithData
    <3>1. /\ Return(NonRTCMMessage, frame) /\ pushback = <<>> /\ pushback' = <<>>
          /\ message = NoMessage /\ UNCHANGED <<emitted, stream, pos>>
      BY <2>6 DEF EndWithData, EndOfInput, PhaseShape
    <3>2. Residue' = frame \o <<>>
      BY <2>0, <3>1, ResidueInMessage
    <3>3. Residue = frame \o <<>>
      BY <2>0, <3>1, ConcatEmptySeq DEF Residue, NoMessage
    <3>4. QED
      BY <3>1, <3>2, <3>3 DEF ByteConservation, Taken
  <2>7. CASE EndWithoutData
    BY <2>7 DEF EndWithoutData, ByteConservation, Residue, Taken
  <2>8. CASE Send
    <3>1. /\ frame = <<>> /\ frame' = <<>> /\ pushback' = pushback
          /\ emitted' = emitted \o message.raw /\ message' = NoMessage
          /\ UNCHANGED <<stream, pos>>
      BY <2>8 DEF Send, PhaseShape
    <3>2. message.raw \in Seq(Byte) /\ pushback \in Seq(Byte)
      <4>1. StartOfMessageFrame \in Byte
        BY DEF StartOfMessageFrame, Byte
      <4>2. <<StartOfMessageFrame>> \in Seq(Byte)
        BY <4>1
      <4>3. message.raw \in Seq(Byte)
        BY DEF TypeOK, Messages
      <4>4. QED
        BY <2>0, <4>2, <4>3 DEF TypeOK
    <3>3. Residue = message.raw \o pushback /\ Residue' = pushback
      BY <2>0, <3>1, <3>2, ConcatEmptySeq DEF Residue, NoMessage
    <3>4. emitted \o (message.raw \o pushback) = (emitted \o message.raw) \o pushback
      <4>1. \A a, b, c \in Seq(Byte) : a \o (b \o c) = (a \o b) \o c
        BY ConcatAssociative
      <4>2. QED
        BY ZenonT(60), <2>0, <3>2, <4>1
    <3>5. QED
      BY <3>1, <3>3, <3>4 DEF ByteConservation, Taken
  <2>9. CASE CloseByteChan
    BY <2>9 DEF CloseByteChan, ByteConservation, Residue, Taken
  <2>10. CASE UNCHANGED vars
    BY <2>10 DEF vars, ByteConservation, Residue, Taken
  <2>11. QED
    BY <2>1, <2>2, <2>3, <2>4, <2>5, <2>6, <2>7, <2>8, <2>9, <2>10
    DEF Next, HandlerStep, Terminated
<1>3. QED
  BY <1>1, <1>2, TypeCorrect, PTL DEF Spec
-----------------------------------------------------------------------------
\* A message about to be sent with an RTCM type is a valid frame of that type.
SendTyped ==
  phase = "send" /\ message.type # NonRTCMMessage =>
    ValidFrame(message.raw) /\ message.type = MessageType(message.raw)

LEMMA TypedThroughout == Spec => [](SendTyped /\ TypedOnlyIfValid)
<1>1. Init => SendTyped /\ TypedOnlyIfValid
  BY DEF Init, SendTyped, TypedOnlyIfValid
<1>2. TypeAndShape /\ SendTyped /\ TypedOnlyIfValid /\ [Next]_vars
        => (SendTyped /\ TypedOnlyIfValid)'
  <2> SUFFICES ASSUME TypeOK, PhaseShape, SendTyped, TypedOnlyIfValid, [Next]_vars
               PROVE  SendTyped' /\ TypedOnlyIfValid'
    BY DEF TypeAndShape
  <2>1. CASE phase' # "send" /\ UNCHANGED out
    BY <2>1 DEF SendTyped, TypedOnlyIfValid
  <2>2. ASSUME NEW raw, Return(NonRTCMMessage, raw), UNCHANGED out
        PROVE  SendTyped' /\ TypedOnlyIfValid'
    BY <2>2 DEF Return, SendTyped, TypedOnlyIfValid
  <2>3. CASE BodyByte
    <3> DEFINE f == Append(frame, NextByte)
    <3>1. ByteReady /\ phase = "body" /\ UNCHANGED out
      BY <2>3 DEF BodyByte, GetNextByte
    <3>2. \/ phase' # "send"
          \/ Return(NonRTCMMessage, f)
          \/ FrameComplete(f) /\ CheckCRC(f) /\ Return(MessageType(f), f)
      BY <2>3 DEF BodyByte, GetMessage
    <3> HIDE DEF f
    <3>3. /\ f[1] = StartOfMessageFrame /\ LeaderOK(f)
          /\ Len(f) > LeaderAndMessageLength /\ Len(f) \in Nat
      BY <3>1, BodyFrame DEF f
    <3>4. CASE FrameComplete(f) /\ CheckCRC(f) /\ Return(MessageType(f), f)
      <4>1. Len(f) >= LeaderAndMessageLength
        BY <3>3 DEF LeaderAndMessageLength, LeaderLengthBytes
      <4>2. ValidFrame(f)
        BY <3>3, <3>4, <4>1 DEF ValidFrame, FrameComplete
      <4>3. message' = [type |-> MessageType(f), raw |-> f]
        BY <3>4 DEF Return
      <4>4. SendTyped'
        BY <4>2, <4>3 DEF SendTyped
      <4>5. QED
        BY <3>1, <4>4 DEF TypedOnlyIfValid
    <3>5. QED
      BY <2>1, <2>2, <3>1, <3>2, <3>4
  <2>4. CASE LeaderByte
    <3>1. /\ UNCHANGED out
          /\ \/ phase' # "send"
             \/ Return(NonRTCMMessage, Append(frame, NextByte))
      BY <2>4 DEF LeaderByte
    <3>2. QED
      BY <2>1, <2>2, <3>1
  <2>5. CASE Send
    <3>1. out' = Append(out, message) /\ phase' = "eat" /\ phase = "send"
      BY <2>5 DEF Send
    <3>2. /\ Len(out') = Len(out) + 1 /\ Len(out) \in Nat
          /\ \A i \in 1..Len(out) : out'[i] = out[i]
          /\ out'[Len(out) + 1] = message
      BY <3>1, AppendProperties, LenProperties DEF TypeOK
    <3>3. ASSUME NEW i \in 1..Len(out'), out'[i].type # NonRTCMMessage
          PROVE  ValidFrame(out'[i].raw) /\ out'[i].type = MessageType(out'[i].raw)
      <4>1. CASE i \in 1..Len(out)
        BY <3>2, <3>3, <4>1 DEF TypedOnlyIfValid
      <4>2. CASE i = Len(out) + 1
        <5>1. out'[i] = message
          BY <3>2, <4>2
        <5>2. QED
          BY <3>1, <3>3, <5>1 DEF SendTyped
      <4>3. QED
        BY <3>2, <4>1, <4>2
    <3>4. QED
      BY <3>1, <3>3 DEF SendTyped, TypedOnlyIfValid
  <2>6. CASE EatOther \/ EatStart
    BY <2>1, <2>6 DEF EatOther, EatStart
  <2>7. CASE EatStartAfterOther \/ EndWithData
    BY <2>2, <2>7 DEF EatStartAfterOther, EndWithData
  <2>8. CASE EndWithoutData
    BY <2>1, <2>8 DEF EndWithoutData
  <2>9. CASE UNCHANGED <<phase, message, out>>
    BY <2>9 DEF SendTyped, TypedOnlyIfValid
  <2>10. QED
    BY <2>3, <2>4, <2>5, <2>6, <2>7, <2>8, <2>9
    DEF Next, HandlerStep, Terminated, CloseByteChan, vars
<1>3. QED
  BY <1>1, <1>2, TypeCorrect, PTL DEF Spec

\* Only a complete frame with a correct leader, length and CRC is given an
\* RTCM type, and it is the type in the frame.
THEOREM OnlyValidFramesTyped == Spec => []TypedOnlyIfValid
  BY TypedThroughout, PTL
-----------------------------------------------------------------------------
\* Bytes that complete a prefix of a stream are the stream's bytes there.
LEMMA Placed ==
  ASSUME NEW e \in Seq(Byte), NEW r \in Seq(Byte), NEW s \in Seq(Byte),
         NEW p \in 0..Len(s), e \o r = SubSeq(s, 1, p)
  PROVE  /\ p = Len(e) + Len(r)
         /\ \A i \in 1..Len(r) : s[Len(e) + i] = r[i]
<1>1. Len(e) \in Nat /\ Len(r) \in Nat /\ Len(s) \in Nat /\ p \in Nat
  BY LenProperties
<1>2. /\ Len(e \o r) = Len(e) + Len(r)
      /\ \A i \in 1..(Len(e) + Len(r)) :
           (e \o r)[i] = IF i <= Len(e) THEN e[i] ELSE r[i - Len(e)]
  BY ConcatProperties
<1>3. /\ Len(SubSeq(s, 1, p)) = p
      /\ \A i \in 1..p : SubSeq(s, 1, p)[i] = s[i]
  BY <1>1
<1>4. p = Len(e) + Len(r)
  BY <1>2, <1>3
<1>5. ASSUME NEW i \in 1..Len(r) PROVE s[Len(e) + i] = r[i]
  <2>1. /\ Len(e) + i \in 1..p
        /\ ~(Len(e) + i <= Len(e))
        /\ (Len(e) + i) - Len(e) = i
    BY <1>1, <1>4
  <2>2. SubSeq(s, 1, p)[Len(e) + i] = s[Len(e) + i]
    BY <1>3, <2>1
  <2>3. (e \o r)[Len(e) + i] = r[i]
    BY <1>2, <1>4, <2>1
  <2>4. QED
    BY <2>2, <2>3
<1>6. QED
  BY <1>4, <1>5

\* The bytes ahead are a sequence of n bytes of the stream.
LEMMA AheadProperties ==
  ASSUME TypeOK, NEW n \in Nat, Len(emitted) + n <= Len(stream)
  PROVE  /\ Ahead(n) \in Seq(Byte)
         /\ Len(Ahead(n)) = n
         /\ \A i \in 1..n : Ahead(n)[i] = stream[Len(emitted) + i]
<1>1. stream \in Seq(Byte) /\ Len(stream) \in Nat /\ Len(emitted) \in Nat
  BY StreamsAssumption, LenProperties DEF TypeOK
<1>2. \A i \in (Len(emitted) + 1)..(Len(emitted) + n) : stream[i] \in Byte
  BY <1>1, ElementOfSeq
<1>3. QED
  BY <1>1, <1>2, SubSeqProperties DEF Ahead

\* Frames that agree on their first bytes announce the same length.
LEMMA SameLeader ==
  ASSUME NEW f, NEW g, f[2] = g[2], f[3] = g[3]
  PROVE  LeaderOK(f) = LeaderOK(g) /\ FrameLength(f) = FrameLength(g)
  BY DEF LeaderOK, SanityCheck, FrameLength, MessageLength

\* A valid frame ahead and the bytes read from the same place agree.
LEMMA FrameAhead ==
  ASSUME TypeOK, NEW n \in LeaderAndMessageLength..(Len(stream) - Len(emitted)),
         ValidFrame(Ahead(n)),
         NEW f \in Seq(Byte), f # <<>>, NEW p \in 0..Len(stream),
         emitted \o f = SubSeq(stream, 1, p)
  PROVE  /\ f[1] = StartOfMessageFrame
         /\ p = Len(emitted) + Len(f)
         /\ Len(f) >= LeaderAndMessageLength => LeaderOK(f) /\ FrameLength(f) = n
         /\ Len(f) = n => f = Ahead(n)
<1>1. /\ stream \in Seq(Byte) /\ emitted \in Seq(Byte)
      /\ Len(stream) \in Nat /\ Len(emitted) \in Nat /\ Len(f) \in Nat /\ Len(f) > 0
  BY StreamsAssumption, LenProperties, EmptySeq DEF TypeOK
<1>2. n \in Nat /\ n >= 5 /\ Len(emitted) + n <= Len(stream)
  BY <1>1 DEF LeaderAndMessageLength, LeaderLengthBytes
<1>3. /\ p = Len(emitted) + Len(f)
      /\ \A i \in 1..Len(f) : stream[Len(emitted) + i] = f[i]
  BY <1>1, Placed
<1>4. /\ Ahead(n) \in Seq(Byte) /\ Len(Ahead(n)) = n
      /\ \A i \in 1..n : Ahead(n)[i] = stream[Len(emitted) + i]
  BY <1>2, AheadProperties
<1>5. /\ Ahead(n)[1] = StartOfMessageFrame /\ LeaderOK(Ahead(n))
      /\ Len(Ahead(n)) = FrameLength(Ahead(n))
  BY DEF ValidFrame
<1>6. f[1] = StartOfMessageFrame
  BY SMTT(60), <1>1, <1>2, <1>3, <1>4, <1>5
<1>7. ASSUME Len(f) >= LeaderAndMessageLength
      PROVE  LeaderOK(f) /\ FrameLength(f) = n
  <2>1. Len(f) >= 5
    BY <1>7 DEF LeaderAndMessageLength, LeaderLengthBytes
  <2>2. f[2] = Ahead(n)[2] /\ f[3] = Ahead(n)[3]
    <3>1. 2 \in 1..Len(f) /\ 3 \in 1..Len(f) /\ 2 \in 1..n /\ 3 \in 1..n
      BY <1>1, <1>2, <2>1
    <3>2. f[2] = stream[Len(emitted) + 2] /\ f[3] = stream[Len(emitted) + 3]
      BY <1>3, <3>1
    <3>3. QED
      BY <1>4, <3>1, <3>2
  <2>3. QED
    BY <1>4, <1>5, <2>2, SameLeader
<1>8. ASSUME Len(f) = n PROVE f = Ahead(n)
  <2>1. \A i \in 1..Len(f) : f[i] = Ahead(n)[i]
    BY <1>3, <1>4, <1>8
  <2>2. QED
    BY <1>4, <1>8, <2>1, SeqEqual
<1>9. QED
  BY <1>3, <1>6, <1>7, <1>8

\* While a frame is being read, or at the end of the input, the bytes held
\* are the frame.
LEMMA HeldInFrame ==
  ASSUME TypeOK, PhaseShape, ByteConservation, phase # "send", pushback = <<>>
  PROVE  emitted \o frame = Taken
<1>1. frame \in Seq(Byte) /\ message.raw = <<>>
  BY DEF TypeOK, PhaseShape, NoMessage
<1>2. Residue = frame
  BY <1>1, ConcatEmptySeq DEF Residue
<1>3. QED
  BY <1>2 DEF ByteConservation

\* A valid frame that starts where the previous message ended is sent whole
\* and typed: no frame at a message boundary is split, cut short or swallowed.
THEOREM AlignedFramesSentWhole == Spec => []AlignedFrameSentWhole
<1>1. Init => AlignedFrameSentWhole
  BY DEF Init, AlignedFrameSentWhole
<1>2. TypeAndShape /\ TypeAndShape' /\ ByteConservation /\ AlignedFrameSentWhole /\ [Next]_vars
        => AlignedFrameSentWhole'
  <2> SUFFICES ASSUME TypeOK, TypeOK', PhaseShape, ByteConservation,
                      AlignedFrameSentWhole, [Next]_vars
               PROVE  AlignedFrameSentWhole'
    BY DEF TypeAndShape
  <2>1. CASE phase' # "send"
    BY <2>1 DEF AlignedFrameSentWhole
  <2>2. ASSUME phase' = "send", UNCHANGED <<stream, emitted>>,
               NEW n \in LeaderAndMessageLength..(Len(stream) - Len(emitted)),
               Len(emitted) + n <= pos' \/ ~closed',
               ValidFrame(Ahead(n))
        PROVE  message' = [type |-> MessageType(Ahead(n)), raw |-> Ahead(n)]
    <3> DEFINE f == Append(frame, NextByte)
    <3>1. /\ n \in Nat /\ n >= 5 /\ pos \in 0..Len(stream) /\ pos' \in 0..Len(stream)
          /\ Len(emitted) \in Nat /\ Len(frame) \in Nat /\ frame \in Seq(Byte)
      BY <2>2, LenProperties, StreamsAssumption
         DEF TypeOK, LeaderAndMessageLength, LeaderLengthBytes
    <3>2. CASE EatStartAfterOther
      <4>1. /\ ByteReady /\ pos' = NextPos /\ phase = "eat" /\ frame # <<>>
            /\ NextByte = StartOfMessageFrame
        BY <3>2 DEF EatStartAfterOther
      <4>2. emitted \o f = SubSeq(stream, 1, pos') /\ f \in Seq(Byte) /\ f # <<>>
            /\ f[1] = frame[1]
        <5>1. emitted \o f = Taken' /\ f \in Seq(Byte) /\ f # <<>>
          BY <2>2, <4>1, TakeByte, AppendFrame
        <5>2. 1 \in 1..Len(frame)
          BY <3>1, <4>1, EmptySeq
        <5>3. f[1] = frame[1]
          BY <4>1, <5>2, AppendFrame
        <5>4. QED
          BY <2>2, <5>1, <5>3 DEF Taken
      <4>3. frame[1] # StartOfMessageFrame
        BY <3>1, <4>1, EmptySeq DEF PhaseShape
      <4> HIDE DEF f
      <4>4. f[1] = StartOfMessageFrame
        BY <2>2, <3>1, <4>2, FrameAhead
      <4>5. QED
        BY <4>2, <4>3, <4>4
    <3>3. CASE LeaderByte
      <4>1. /\ ByteReady /\ pos' = NextPos /\ phase = "leader"
            /\ Len(f) = LeaderAndMessageLength /\ ~LeaderOK(f)
        BY <2>2, <3>3 DEF LeaderByte, GetNextByte
      <4>2. emitted \o f = SubSeq(stream, 1, pos') /\ f \in Seq(Byte) /\ f # <<>>
        BY <2>2, <4>1, TakeByte, AppendFrame DEF Taken
      <4> HIDE DEF f
      <4>3. Len(f) >= LeaderAndMessageLength
        BY <4>1 DEF LeaderAndMessageLength, LeaderLengthBytes
      <4>4. LeaderOK(f)
        BY <2>2, <3>1, <4>2, <4>3, FrameAhead
      <4>5. QED
        BY <4>1, <4>4
    <3>4. CASE BodyByte
      <4>1. /\ ByteReady /\ pos' = NextPos /\ phase = "body"
            /\ FrameComplete(f)
            /\ \/ ~CheckCRC(f)
               \/ Return(MessageType(f), f)
        BY <2>2, <3>4 DEF BodyByte, GetNextByte, GetMessage
      <4>2. emitted \o f = SubSeq(stream, 1, pos') /\ f \in Seq(Byte) /\ f # <<>>
        BY <2>2, <4>1, TakeByte, AppendFrame DEF Taken
      <4> HIDE DEF f
      <4>3. Len(f) >= LeaderAndMessageLength
        <5>1. Len(f) > LeaderAndMessageLength /\ Len(f) \in Nat
          BY <4>1, BodyFrame DEF f
        <5>2. QED
          BY <5>1 DEF LeaderAndMessageLength, LeaderLengthBytes
      <4>4. FrameLength(f) = n
        BY <2>2, <3>1, <4>2, <4>3, FrameAhead
      <4>5. Len(f) = n
        BY <4>1, <4>4 DEF FrameComplete
      <4>6. f = Ahead(n)
        BY <2>2, <3>1, <4>2, <4>5, FrameAhead
      <4>7. CheckCRC(f)
        BY <2>2, <4>6 DEF ValidFrame
      <4>8. QED
        BY <4>1, <4>6, <4>7 DEF Return
    <3>5. CASE EndWithData
      <4>1. /\ closed /\ closed' = closed /\ pos' = pos /\ frame # <<>> /\ pushback = <<>>
            /\ phase \in {"eat", "leader", "body"}
        BY <3>5 DEF EndWithData, EndOfInput
      <4>2. emitted \o frame = SubSeq(stream, 1, pos)
        BY <4>1, HeldInFrame DEF Taken
      <4>3. Len(emitted) + n <= pos
        BY <2>2, <4>1
      <4>4. /\ frame[1] = StartOfMessageFrame
            /\ pos = Len(emitted) + Len(frame)
            /\ Len(frame) >= LeaderAndMessageLength => FrameLength(frame) = n
        BY <2>2, <3>1, <4>1, <4>2, FrameAhead
      <4>5. Len(frame) >= n
        BY <3>1, <4>3, <4>4
      <4>6. Len(frame) >= LeaderAndMessageLength
        BY <3>1, <4>5 DEF LeaderAndMessageLength, LeaderLengthBytes
      <4>7. phase # "eat"
        BY <3>1, <4>1, <4>4, EmptySeq DEF PhaseShape
      <4>8. phase # "leader"
        <5>1. phase = "leader" => Len(frame) \in 1..(LeaderAndMessageLength - 1)
          BY DEF PhaseShape
        <5>2. ~(Len(frame) \in 1..(LeaderAndMessageLength - 1))
          <6>1. Len(frame) >= 5
            BY <3>1, <4>5
          <6>2. LeaderAndMessageLength - 1 = 4
            BY DEF LeaderAndMessageLength, LeaderLengthBytes
          <6>3. QED
            BY <3>1, <6>1, <6>2
        <5>3. QED
          BY <5>1, <5>2
      <4>9. Len(frame) < FrameLength(frame)
        BY <4>1, <4>7, <4>8 DEF PhaseShape
      <4>10. QED
        BY <3>1, <4>4, <4>5, <4>6, <4>9
    <3>6. CASE UNCHANGED <<phase, message, pos>> /\ (closed => closed')
      BY <2>2, <3>6 DEF AlignedFrameSentWhole
    <3>7. QED
      BY <2>2, <3>2, <3>3, <3>4, <3>5, <3>6
      DEF Next, HandlerStep, EatOther, EatStart, EndWithoutData, Send,
          CloseByteChan, Terminated, vars
  <2>3. UNCHANGED stream /\ (phase' = "send" => UNCHANGED emitted)
    BY DEF Next, HandlerStep, EatOther, EatStart, EatStartAfterOther, LeaderByte, BodyByte,
       EndWithData, EndWithoutData, Send, CloseByteChan, Terminated, vars
  <2>4. CASE phase' = "send"
    BY <2>2, <2>3, <2>4 DEF AlignedFrameSentWhole, Ahead
  <2>5. QED
    BY <2>1, <2>4
<1>3. QED
  BY <1>1, <1>2, TypeCorrect, Conservation, PTL DEF Spec

\* Data in another format comes out up to the next start byte, which is left
\* for the next message, or up to the end of the input.
THEOREM OtherDataSentUpToStartByte == Spec => []OtherDataUpToStartByte
<1>1. Init => OtherDataUpToStartByte
  BY DEF Init, OtherDataUpToStartByte
<1>2. TypeAndShape /\ TypeAndShape' /\ ByteConservation /\ OtherDataUpToStartByte /\ [Next]_vars
        => OtherDataUpToStartByte'
  <2> SUFFICES ASSUME TypeOK, TypeOK', PhaseShape, ByteConservation,
                      OtherDataUpToStartByte, [Next]_vars
               PROVE  OtherDataUpToStartByte'
    BY DEF TypeAndShape
  <2> DEFINE f == Append(frame, NextByte)
  <2>1. CASE phase' # "send"
    BY <2>1 DEF OtherDataUpToStartByte
  <2>2. ASSUME NEW type, NEW raw, Return(type, raw), raw[1] = StartOfMessageFrame
        PROVE  OtherDataUpToStartByte'
    BY <2>2 DEF Return, OtherDataUpToStartByte
  <2>3. CASE EatStartAfterOther
    <3>1. /\ ByteReady /\ pos' = NextPos /\ phase = "eat" /\ frame # <<>>
          /\ NextByte = StartOfMessageFrame /\ UNCHANGED <<stream, emitted>>
          /\ message' = [type |-> NonRTCMMessage, raw |-> frame]
      BY <2>3 DEF EatStartAfterOther, Return
    <3>2. emitted \o f = SubSeq(stream, 1, pos')
      BY <3>1, TakeByte DEF Taken
    <3>3. /\ f \in Seq(Byte) /\ Len(f) = Len(frame) + 1 /\ Len(frame) \in Nat
          /\ f[Len(frame) + 1] = StartOfMessageFrame
      BY <3>1, AppendFrame
    <3>4. /\ stream \in Seq(Byte) /\ emitted \in Seq(Byte) /\ pos' \in 0..Len(stream)
          /\ Len(emitted) \in Nat
      BY <3>1, StreamsAssumption, LenProperties DEF TypeOK
    <3> HIDE DEF f
    <3>5. /\ pos' = Len(emitted) + Len(f)
          /\ \A i \in 1..Len(f) : stream[Len(emitted) + i] = f[i]
      BY <3>2, <3>3, <3>4, Placed
    <3>6. /\ Len(emitted) + Len(frame) + 1 <= pos'
          /\ stream[Len(emitted) + Len(frame) + 1] = StartOfMessageFrame
      <4>1. Len(frame) + 1 \in 1..Len(f)
        BY <3>3
      <4>2. Len(emitted) + (Len(frame) + 1) = Len(emitted) + Len(frame) + 1
        BY <3>3, <3>4
      <4>3. stream[Len(emitted) + (Len(frame) + 1)] = StartOfMessageFrame
        BY <3>3, <3>5, <4>1
      <4>4. QED
        BY <3>3, <3>4, <3>5, <4>2, <4>3
    <3>7. \A i \in 1..Len(frame) : frame[i] # StartOfMessageFrame
      BY <3>1 DEF PhaseShape
    <3>8. QED
      BY <3>1, <3>6, <3>7 DEF OtherDataUpToStartByte
  <2>4. CASE LeaderByte
    <3>1. \/ phase' # "send"
          \/ Return(NonRTCMMessage, f)
      BY <2>4 DEF LeaderByte
    <3>2. f[1] = StartOfMessageFrame
      <4>1. phase = "leader" /\ ByteReady
        BY <2>4 DEF LeaderByte, GetNextByte
      <4>2. 1 \in 1..Len(frame) /\ frame[1] = StartOfMessageFrame
        BY <4>1, AppendFrame DEF PhaseShape
      <4>3. QED
        BY <4>1, <4>2, AppendFrame
    <3>3. QED
      BY <2>1, <2>2, <3>1, <3>2
  <2>5. CASE BodyByte
    <3>1. \/ phase' # "send"
          \/ Return(NonRTCMMessage, f)
          \/ Return(MessageType(f), f)
      BY <2>5 DEF BodyByte, GetMessage
    <3> HIDE DEF f
    <3>2. f[1] = StartOfMessageFrame
      BY <2>5, BodyFrame DEF BodyByte, GetNextByte, f
    <3>3. QED
      BY <2>1, <2>2, <3>1, <3>2
  <2>6. CASE EndWithData
    <3>1. /\ closed /\ closed' /\ message' = [type |-> NonRTCMMessage, raw |-> frame]
          /\ phase \in {"eat", "leader", "body"}
      BY <2>6 DEF EndWithData, EndOfInput, Return
    <3>2. CASE phase = "eat"
      BY <3>1, <3>2 DEF PhaseShape, OtherDataUpToStartByte
    <3>3. CASE phase # "eat"
      <4>1. frame[1] = StartOfMessageFrame
        BY <3>1, <3>3 DEF PhaseShape
      <4>2. QED
        BY <2>2, <2>6, <4>1 DEF EndWithData
    <3>4. QED
      BY <3>2, <3>3
  <2>7. CASE UNCHANGED <<stream, pos, phase, message, emitted>> /\ (closed => closed')
    BY <2>7 DEF OtherDataUpToStartByte
  <2>8. QED
    BY <2>1, <2>3, <2>4, <2>5, <2>6, <2>7
    DEF Next, HandlerStep, EatOther, EatStart, EndWithoutData, Send,
        CloseByteChan, Terminated, vars
<1>3. QED
  BY <1>1, <1>2, TypeCorrect, Conservation, PTL DEF Spec
-----------------------------------------------------------------------------
(* The framer implements MessageStream.                                    *)

\* The state keeps its types: part of TypeCorrect.
THEOREM TypesKept == Spec => []TypeOK
<1>1. TypeAndShape => TypeOK
  BY DEF TypeAndShape
<1>2. QED
  BY <1>1, TypeCorrect, PTL

LEMMA InitSegments == Init => Segments!Init
<1>1. <<>> \o <<>> = <<>>
  BY EmptySeq, ConcatEmptySeq
<1>2. QED
  BY <1>1 DEF Init, Segments!Init, Residue, NoMessage

\* A byte that comes back from the pushback buffer changes nothing that the
\* reader of the messages can see; any other is taken from the stream.
LEMMA TakesOrStutters ==
  ASSUME TypeOK, PhaseShape, phase \in {"eat", "leader", "body"}, ByteReady,
         pos' = NextPos, Residue' = Append(frame, NextByte), phase' # "done",
         UNCHANGED <<stream, closed, out>>
  PROVE  Segments!Take \/ UNCHANGED Segments!vars
<1>1. /\ frame \in Seq(Byte) /\ stream \in Seq(Byte) /\ message = NoMessage /\ phase # "done"
      /\ NextByte \in Byte
  BY NextByteType DEF TypeOK, PhaseShape
<1>2. Residue = frame \o pushback
  <2>1. <<>> \o frame = frame
    BY <1>1, ConcatEmptySeq
  <2>2. QED
    BY <1>1, <2>1 DEF Residue, NoMessage
<1>3. CASE pushback = <<>>
  <2>1. Residue = frame
    BY <1>1, <1>2, <1>3, ConcatEmptySeq
  <2>2. /\ ~closed /\ pos < Len(stream) /\ pos' = pos + 1
        /\ Residue' = Append(Residue, stream[pos + 1])
    BY <1>3, <2>1 DEF ByteReady, NextPos, NextByte
  <2>3. QED
    BY <1>1, <2>2 DEF Segments!Take
<1>4. CASE pushback = <<StartOfMessageFrame>>
  <2>1. pos' = pos /\ NextByte = StartOfMessageFrame
    BY <1>4 DEF NextPos, NextByte
  <2>2. Append(frame, NextByte) = frame \o <<NextByte>>
    BY <1>1, AppendIsConcat
  <2>3. QED
    BY <1>1, <1>2, <1>4, <2>1, <2>2 DEF Segments!vars
<1>5. QED
  BY <1>3, <1>4 DEF TypeOK

\* The two parts of a sequence.
LEMMA Parts ==
  ASSUME NEW S, NEW p \in Seq(S), NEW q \in Seq(S), p # <<>>
  PROVE  /\ SubSeq(p \o q, 1, Len(p)) = p
         /\ SubSeq(p \o q, Len(p) + 1, Len(p \o q)) = q
<1>1. /\ Len(p) \in Nat /\ Len(q) \in Nat /\ Len(p) \in 1..Len(p) /\ 1 \in 1..Len(p)
      /\ p \o q \in Seq(S) /\ Len(p \o q) = Len(p) + Len(q)
  BY EmptySeq, LenProperties, ConcatProperties
<1>2. SubSeq(p \o q, 1, Len(p)) = p
  <2>1. SubSeq(p \o q, 1, Len(p)) = SubSeq(p, 1, Len(p))
    BY <1>1, SubSeqOfConcat1
  <2>2. SubSeq(p, 1, Len(p)) = p
    BY SubSeqFull
  <2>3. QED
    BY <2>1, <2>2
<1>3. SubSeq(p \o q, Len(p) + 1, Len(p \o q)) = q
  <2> DEFINE first == Len(p) + 1
             last == Len(p) + Len(q)
  <2>1. CASE Len(q) = 0
    <3>1. q = <<>>
      BY <2>1, EmptySeq
    <3>2. last < first /\ first \in Int /\ last \in Int
      BY <1>1, <2>1
    <3>3. SubSeq(p \o q, first, last) = <<>>
      BY <3>2, SubSeqEmpty
    <3>4. QED
      BY <1>1, <3>1, <3>3
  <2>2. CASE Len(q) # 0
    <3>1. first \in first..last /\ last \in first..last
      BY <1>1, <2>2
    <3>2. SubSeq(p \o q, first, last) = SubSeq(q, first - Len(p), last - Len(p))
      BY <3>1, SubSeqOfConcat2
    <3>3. first - Len(p) = 1 /\ last - Len(p) = Len(q)
      BY <1>1
    <3>4. SubSeq(q, 1, Len(q)) = q
      BY SubSeqFull
    <3>5. QED
      BY <1>1, <3>2, <3>3, <3>4
  <2>3. QED
    BY <2>1, <2>2
<1>4. QED
  BY <1>2, <1>3

\* Every step of the framer is one of MessageStream, or one that it does not see.
LEMMA NextSegments ==
  ASSUME TypeOK, PhaseShape, SendTyped, [Next]_vars
  PROVE  [Segments!Next]_(Segments!vars)
<1> DEFINE f == Append(frame, NextByte)
<1>0. frame \in Seq(Byte) /\ <<>> \in Seq(Byte)
  BY EmptySeq DEF TypeOK
<1>1. ASSUME Segments!Take \/ UNCHANGED Segments!vars PROVE [Segments!Next]_(Segments!vars)
  BY <1>1 DEF Segments!Next
<1>2. CASE EatOther \/ EatStart
  <2>1. /\ ByteReady /\ pos' = NextPos /\ phase = "eat" /\ phase' # "done"
        /\ UNCHANGED <<stream, closed, out, message>> /\ pushback' = RestOfPushback
    BY <1>2 DEF EatOther, EatStart, GetNextByte
  <2>4. f \in Seq(Byte) /\ pushback' = <<>> /\ message' = NoMessage
    BY <2>1, AppendFrame, NextByteType DEF PhaseShape
  <2>5. frame' = f
    <3>1. EatStart => frame' = <<NextByte>> /\ frame = <<>>
      BY DEF EatStart
    <3>2. Append(<<>>, NextByte) = <<NextByte>>
      OBVIOUS
    <3>3. EatOther => frame' = f
      BY DEF EatOther
    <3>4. QED
      BY <1>2, <3>1, <3>2, <3>3
  <2>2. Residue' = f
    BY <2>4, <2>5, ResidueInFrame
  <2>3. QED
    BY <1>1, <2>1, <2>2, TakesOrStutters
<1>3. CASE EatStartAfterOther
  <2>1. /\ ByteReady /\ pos' = NextPos /\ phase = "eat" /\ phase' # "done"
        /\ Return(NonRTCMMessage, frame) /\ UNCHANGED <<stream, closed, out>>
        /\ pushback' = <<NextByte>> /\ NextByte \in Byte
    BY <1>3, NextByteType DEF EatStartAfterOther, PushBack, Return
  <2>2. Residue' = frame \o <<NextByte>>
    <3>1. <<NextByte>> \in Seq(Byte)
      BY <2>1
    <3>2. QED
      BY <1>0, <2>1, <3>1, ResidueInMessage
  <2>3. Residue' = f
    BY <1>0, <2>1, <2>2, AppendIsConcat
  <2>4. QED
    BY <1>1, <2>1, <2>3, TakesOrStutters
<1>4. CASE LeaderByte \/ BodyByte
  <2>1. /\ ByteReady /\ pos' = NextPos /\ phase \in {"leader", "body"}
        /\ UNCHANGED <<stream, closed, out>> /\ pushback' = <<>> /\ f \in Seq(Byte)
        /\ message = NoMessage
    BY <1>4, AppendFrame, NextByteType DEF LeaderByte, BodyByte, GetNextByte, PhaseShape
  <2>2. /\ phase' # "done"
        /\ \/ frame' = f /\ message' = message
           \/ Return(NonRTCMMessage, f)
           \/ Return(MessageType(f), f)
    BY <1>4 DEF LeaderByte, BodyByte, GetMessage, Return
  <2> HIDE DEF f
  <2>3. Residue' = f
    <3>1. f \o <<>> = f
      BY <2>1, ConcatEmptySeq
    <3>2. QED
      BY <1>0, <2>1, <2>2, <3>1, ResidueInFrame, ResidueInMessage
  <2>4. QED
    BY <1>1, <2>1, <2>2, <2>3, TakesOrStutters DEF f
<1>5. CASE EndWithData
  <2>1. /\ Return(NonRTCMMessage, frame) /\ pushback = <<>> /\ pushback' = <<>>
        /\ message = NoMessage /\ phase # "done" /\ phase' # "done"
        /\ UNCHANGED <<stream, pos, closed, out>>
    BY <1>5 DEF EndWithData, EndOfInput, PhaseShape, Return
  <2>2. Residue' = frame \o <<>>
    BY <1>0, <2>1, ResidueInMessage
  <2>3. Residue = frame \o <<>>
    BY <1>0, <2>1, ConcatEmptySeq DEF Residue, NoMessage
  <2>4. QED
    BY <2>1, <2>2, <2>3 DEF Segments!vars
<1>6. CASE EndWithoutData
  <2>1. /\ closed /\ phase # "done" /\ phase' = "done" /\ Residue = <<>> /\ Residue' = Residue
        /\ UNCHANGED <<stream, pos, closed, out>>
    BY <1>0, <1>6, ConcatEmptySeq DEF EndWithoutData, EndOfInput, PhaseShape, Residue, NoMessage
  <2>2. Segments!Finish
    BY <2>1 DEF Segments!Finish
  <2>3. QED
    BY <2>2 DEF Segments!Next
<1>7. CASE Send
  <2> DEFINE raw == message.raw
             n == Len(raw)
  <2>1. /\ phase = "send" /\ phase' = "eat" /\ frame = <<>> /\ frame' = <<>> /\ raw # <<>>
        /\ pushback' = pushback /\ message' = NoMessage /\ out' = Append(out, message)
        /\ UNCHANGED <<stream, pos, closed>>
    BY <1>7 DEF Send, PhaseShape
  <2>2. raw \in Seq(Byte) /\ pushback \in Seq(Byte)
    <3>1. StartOfMessageFrame \in Byte
      BY DEF StartOfMessageFrame, Byte
    <3>2. <<StartOfMessageFrame>> \in Seq(Byte)
      BY <3>1
    <3>3. raw \in Seq(Byte)
      BY DEF TypeOK, Messages
    <3>4. QED
      BY <1>0, <3>2, <3>3 DEF TypeOK
  <2>3. Residue = raw \o pushback /\ Residue' = pushback
    BY <1>0, <2>1, <2>2, ConcatEmptySeq DEF Residue, NoMessage
  <2>4. message = [type |-> message.type, raw |-> raw]
    BY DEF TypeOK, Messages
  <2> HIDE DEF raw
  <2>5. n \in 1..Len(raw \o pushback)
    BY <2>1, <2>2, EmptySeq, LenProperties, ConcatProperties
  <2>6. /\ SubSeq(raw \o pushback, 1, n) = raw
        /\ SubSeq(raw \o pushback, n + 1, Len(raw \o pushback)) = pushback
    BY <2>1, <2>2, Parts
  <2>7. \/ message.type = NonRTCMMessage
        \/ ValidFrame(raw) /\ message.type = MessageType(raw)
    BY <2>1 DEF SendTyped, raw
  <2>8. Segments!Emit(n)
    BY <2>1, <2>3, <2>4, <2>6, <2>7 DEF Segments!Emit
  <2>9. n \in 1..Len(Residue)
    BY <2>3, <2>5
  <2>10. QED
    BY <2>8, <2>9 DEF Segments!Next
<1>8. CASE CloseByteChan
  <2>1. Segments!Close
    BY <1>8 DEF CloseByteChan, Segments!Close, Residue
  <2>2. QED
    BY <2>1 DEF Segments!Next
<1>9. CASE UNCHANGED vars
  BY <1>9 DEF vars, Segments!vars, Residue
<1>10. QED
  BY <1>2, <1>3, <1>4, <1>5, <1>6, <1>7, <1>8, <1>9 DEF Next, HandlerStep, Terminated

\* The framer cuts every stream into messages, with nothing lost, doubled or
\* out of order, and gives a type only to valid frames.
THEOREM FramerImplementsMessageStream == Spec => SegmentsSpec
<1>1. Spec => []TypeAndShape
  BY TypeCorrect
<1>2. TypeAndShape /\ SendTyped /\ [Next]_vars => [Segments!Next]_(Segments!vars)
  BY NextSegments DEF TypeAndShape
<1>3. QED
  BY <1>1, <1>2, InitSegments, TypedThroughout, PTL DEF Spec, SegmentsSpec, Segments!Spec
=============================================================================
