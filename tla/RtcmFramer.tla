----------------------------- MODULE RtcmFramer -----------------------------
(***************************************************************************)
(* The RTCM handler goroutine: Handler.HandleMessages takes bytes from an  *)
(* unbuffered channel, through the pushback channel, cuts them into        *)
(* messages with FetchNextMessageFrame and GetMessage and sends each one   *)
(* to the message channel.                                                 *)
(*                                                                         *)
(* A step is what the goroutine does between two operations on a channel.  *)
(* Bytes are numbers, so a frame's leader, length and message type are     *)
(* computed as the code computes them.  The CRC (package crc24q) is an     *)
(* uninterpreted function, Hash.                                           *)
(***************************************************************************)
EXTENDS Integers, Sequences

CONSTANTS Streams,   \* the byte sequences that may arrive on the byte channel
          Hash(_)    \* crc24q.Hash: the three CRC bytes of a byte sequence

Byte == 0..255

ASSUME StreamsAssumption == Streams \subseteq Seq(Byte)

StartOfMessageFrame == 211            \* 0xd3
NonRTCMMessage      == -1
LeaderLengthBytes   == 3
CRCLengthBytes      == 3

\* The leader and the first two bytes of the embedded message.
LeaderAndMessageLength == LeaderLengthBytes + 2

\* An MSM timestamp is bits 48 to 77 of the frame: it ends in the tenth byte.
TimestampBytes == 10

VARIABLES
  stream,     \* what the file handler sends on the byte channel
  pos,        \* the number of bytes received from it so far
  closed,     \* the byte channel has been closed
  pushback,   \* ByteChannel.pushBackBuffer
  phase,      \* where HandleMessages is
  frame,      \* the frame buffer of FetchNextMessageFrame
  message,    \* the message being sent (when phase = "send")
  out,        \* history: the messages received from the message channel
  emitted     \* history: the raw data of the messages in out, concatenated

vars == <<stream, pos, closed, pushback, phase, frame, message, out, emitted>>

Messages == [type : Int, raw : Seq(Byte)]

NoMessage == [type |-> NonRTCMMessage, raw |-> <<>>]

Phases == {"eat", "leader", "body", "send", "done", "panic"}
-----------------------------------------------------------------------------
(* getMessageLengthAndType: six zero bits, ten bits of length, then the    *)
(* 12-bit message type.                                                    *)

SanityCheck(f)   == f[2] \div 4
MessageLength(f) == (f[2] % 4) * 256 + f[3]
MessageType(f)   == f[4] * 16 + f[5] \div 16

LeaderOK(f) == SanityCheck(f) = 0 /\ MessageLength(f) > 0

FrameLength(f) == LeaderLengthBytes + MessageLength(f) + CRCLengthBytes

\* CheckCRC.
CheckCRC(f) ==
  SubSeq(f, Len(f) - CRCLengthBytes + 1, Len(f))
    = Hash(SubSeq(f, 1, Len(f) - CRCLengthBytes))

\* utils.MSM: the MSM4 and MSM7 types of the seven constellations.
MSM(type) == type \in 1074..1137 /\ type % 10 \in {4, 7}
-----------------------------------------------------------------------------
(* ByteChannel.GetNextByte takes a pushed back byte first, otherwise it    *)
(* waits for the channel and fails once the channel is closed.             *)

ByteReady == pushback # <<>> \/ (~closed /\ pos < Len(stream))

NextByte == IF pushback # <<>> THEN Head(pushback) ELSE stream[pos + 1]

\* Mutant of NextPos: a pushed back byte is counted twice.
NextPosAlwaysOn == pos + 1

NextPos == IF pushback # <<>> THEN pos ELSE pos + 1

RestOfPushback == IF pushback # <<>> THEN Tail(pushback) ELSE <<>>

\* Mutant of PushBack: the byte is dropped.
PushBackNothing(buffer) == buffer

\* ByteChannel.PushBack of the start byte.
PushBack(buffer) == Append(buffer, StartOfMessageFrame)

EndOfInput == pushback = <<>> /\ closed

GetNextByte ==
  /\ ByteReady
  /\ pos' = NextPos
  /\ pushback' = RestOfPushback

\* FetchNextMessageFrame returns: HandleMessages is about to send the message.
Return(type, raw) ==
  /\ phase' = "send"
  /\ message' = [type |-> type, raw |-> raw]
  /\ frame' = <<>>
-----------------------------------------------------------------------------
Init ==
  /\ stream \in Streams
  /\ pos = 0
  /\ closed = FALSE
  /\ pushback = <<>>
  /\ phase = "eat"
  /\ frame = <<>>
  /\ message = NoMessage
  /\ out = <<>>
  /\ emitted = <<>>

\* Phase 1, eatUntilStartOfFrame: a byte that starts no frame.
EatOther ==
  /\ phase = "eat"
  /\ GetNextByte
  /\ NextByte # StartOfMessageFrame
  /\ frame' = Append(frame, NextByte)
  /\ UNCHANGED <<stream, closed, phase, message, out, emitted>>

\* Phase 1: the start byte is the first byte eaten.
EatStart ==
  /\ phase = "eat"
  /\ GetNextByte
  /\ NextByte = StartOfMessageFrame
  /\ frame = <<>>
  /\ frame' = <<NextByte>>
  /\ phase' = "leader"
  /\ UNCHANGED <<stream, closed, message, out, emitted>>

\* Phase 1: the start byte follows other data.  Push it back and return
\* the other data.
EatStartAfterOther ==
  /\ phase = "eat"
  /\ ByteReady
  /\ NextByte = StartOfMessageFrame
  /\ frame # <<>>
  /\ pos' = NextPos
  /\ pushback' = PushBack(RestOfPushback)
  /\ Return(NonRTCMMessage, frame)
  /\ UNCHANGED <<stream, closed, out, emitted>>

\* Phase 2: one of the four bytes after the start byte.  With the last of
\* them the leader is checked.
LeaderByte ==
  LET f == Append(frame, NextByte) IN
  /\ phase = "leader"
  /\ GetNextByte
  /\ \/ /\ Len(f) < LeaderAndMessageLength
        /\ frame' = f
        /\ UNCHANGED <<phase, message>>
     \/ /\ Len(f) = LeaderAndMessageLength
        /\ LeaderOK(f)
        /\ frame' = f
        /\ phase' = "body"
        /\ UNCHANGED message
     \/ /\ Len(f) = LeaderAndMessageLength
        /\ ~LeaderOK(f)
        /\ Return(NonRTCMMessage, f)
  /\ UNCHANGED <<stream, closed, out, emitted>>

\* Mutant of GetMessage: the CRC is not checked.
GetMessageNoCRC(f) ==
  IF MSM(MessageType(f)) /\ Len(f) < TimestampBytes
  THEN frame' = f /\ phase' = "panic" /\ UNCHANGED message
  ELSE Return(MessageType(f), f)

\* GetMessage on a complete frame.  The timestamp of an MSM is read without
\* a check of the frame's length.
GetMessage(f) ==
  \/ /\ ~CheckCRC(f)
     /\ Return(NonRTCMMessage, f)
  \/ /\ CheckCRC(f)
     /\ MSM(MessageType(f)) => Len(f) >= TimestampBytes
     /\ Return(MessageType(f), f)
  \/ /\ CheckCRC(f)
     /\ MSM(MessageType(f))
     /\ Len(f) < TimestampBytes
     /\ frame' = f
     /\ phase' = "panic"
     /\ UNCHANGED message

\* Mutant of FrameComplete: the CRC bytes are not counted.
FrameCompleteNoCRC(f) == Len(f) >= LeaderLengthBytes + MessageLength(f)

\* wantBytes have been read.
FrameComplete(f) == Len(f) = FrameLength(f)

\* Phase 3: a byte of the rest of the frame.  Phase 4 follows the last one.
BodyByte ==
  LET f == Append(frame, NextByte) IN
  /\ phase = "body"
  /\ GetNextByte
  /\ \/ /\ ~FrameComplete(f)
        /\ frame' = f
        /\ UNCHANGED <<phase, message>>
     \/ /\ FrameComplete(f)
        /\ GetMessage(f)
  /\ UNCHANGED <<stream, closed, out, emitted>>

\* Mutant of EndWithData: the end of the input stops the handler at once.
EndDropsData ==
  /\ phase \in {"eat", "leader", "body"}
  /\ EndOfInput
  /\ frame # <<>>
  /\ phase' = "done"
  /\ UNCHANGED <<stream, pos, closed, pushback, frame, message, out, emitted>>

\* The input ends within a frame or after other data: return what there is.
EndWithData ==
  /\ phase \in {"eat", "leader", "body"}
  /\ EndOfInput
  /\ frame # <<>>
  /\ Return(NonRTCMMessage, frame)
  /\ UNCHANGED <<stream, pos, closed, pushback, out, emitted>>

\* Mutant of EndWithoutData: an idle input is taken for the end of it.
EndWhenIdle ==
  /\ phase = "eat"
  /\ ~ByteReady
  /\ frame = <<>>
  /\ phase' = "done"
  /\ UNCHANGED <<stream, pos, closed, pushback, frame, message, out, emitted>>

\* The input ends and nothing has been read: HandleMessages closes the
\* message channel and returns.
EndWithoutData ==
  /\ phase = "eat"
  /\ EndOfInput
  /\ frame = <<>>
  /\ phase' = "done"
  /\ UNCHANGED <<stream, pos, closed, pushback, frame, message, out, emitted>>

\* The reader of the message channel takes the message.
Send ==
  /\ phase = "send"
  /\ out' = Append(out, message)
  /\ emitted' = emitted \o message.raw
  /\ message' = NoMessage
  /\ phase' = "eat"
  /\ UNCHANGED <<stream, pos, closed, pushback, frame>>

\* The file handler returns and closes the byte channel.  It may do so
\* anywhere in the stream (a read error, or a timeout).
CloseByteChan ==
  /\ ~closed
  /\ closed' = TRUE
  /\ UNCHANGED <<stream, pos, pushback, phase, frame, message, out, emitted>>

Terminated == phase \in {"done", "panic"} /\ UNCHANGED vars

HandlerStep ==
  \/ EatOther \/ EatStart \/ EatStartAfterOther
  \/ LeaderByte \/ BodyByte
  \/ EndWithData \/ EndWithoutData
  \/ Send

Next == HandlerStep \/ CloseByteChan \/ Terminated

Spec == Init /\ [][Next]_vars

\* The goroutine is scheduled and the reader of the message channel reads.
FairSpec == Spec /\ WF_vars(HandlerStep)
-----------------------------------------------------------------------------
TypeOK ==
  /\ stream \in Streams
  /\ pos \in 0..Len(stream)
  /\ closed \in BOOLEAN
  /\ pushback \in {<<>>, <<StartOfMessageFrame>>}
  /\ phase \in Phases
  /\ frame \in Seq(Byte)
  /\ message \in Messages
  /\ out \in Seq(Messages)
  /\ emitted \in Seq(Byte)

\* What the phase says of the buffers.
PhaseShape ==
  /\ phase = "eat" => /\ \A i \in 1..Len(frame) : frame[i] # StartOfMessageFrame
                      /\ frame = <<>> \/ pushback = <<>>
  /\ phase = "leader" => /\ Len(frame) \in 1..(LeaderAndMessageLength - 1)
                         /\ frame[1] = StartOfMessageFrame
  /\ phase = "body" => /\ Len(frame) >= LeaderAndMessageLength
                       /\ frame[1] = StartOfMessageFrame
                       /\ LeaderOK(frame)
                       /\ Len(frame) < FrameLength(frame)
  /\ phase = "send" => frame = <<>> /\ message.raw # <<>>
  /\ phase # "send" => message = NoMessage
  /\ phase = "done" => frame = <<>> /\ closed
  /\ phase \notin {"eat", "send"} => pushback = <<>>

Taken == SubSeq(stream, 1, pos)

\* What has been received and not yet sent on.
Residue == message.raw \o frame \o pushback

\* No byte is lost, duplicated or reordered: the messages sent so far, then
\* what the handler still holds, are the bytes received so far
\* (FetchNextMessageFrame and PushBack).
ByteConservation == emitted \o Residue = Taken

ValidFrame(f) ==
  /\ Len(f) >= LeaderAndMessageLength
  /\ f[1] = StartOfMessageFrame
  /\ LeaderOK(f)
  /\ Len(f) = FrameLength(f)
  /\ CheckCRC(f)

\* A message that carries an RTCM type is one complete frame with a correct
\* leader, length and CRC, and the type is the one in the frame (GetMessage).
TypedOnlyIfValid ==
  \A i \in 1..Len(out) :
    out[i].type # NonRTCMMessage =>
      ValidFrame(out[i].raw) /\ out[i].type = MessageType(out[i].raw)

\* The n bytes of the stream that follow what has been sent.
Ahead(n) == SubSeq(stream, Len(emitted) + 1, Len(emitted) + n)

\* A valid frame that starts where the previous message ended is sent whole,
\* as one message of its own type, unless the byte channel was closed before
\* its last byte (FetchNextMessageFrame, phases 2 to 4).
AlignedFrameSentWhole ==
  phase = "send" =>
    \A n \in LeaderAndMessageLength..(Len(stream) - Len(emitted)) :
      /\ Len(emitted) + n <= pos \/ ~closed
      /\ ValidFrame(Ahead(n))
      => message = [type |-> MessageType(Ahead(n)), raw |-> Ahead(n)]

\* Data in another format is not cut before the next start byte and never
\* swallows one: such a message holds no start byte, and the byte after it is
\* a start byte unless the input ended (eatUntilStartOfFrame, PushBack).
OtherDataUpToStartByte ==
  LET after == Len(emitted) + Len(message.raw) + 1 IN
  phase = "send" /\ message.raw[1] # StartOfMessageFrame =>
    /\ message.type = NonRTCMMessage
    /\ \A i \in 1..Len(message.raw) : message.raw[i] # StartOfMessageFrame
    /\ closed \/ (after <= pos /\ stream[after] = StartOfMessageFrame)

\* The CRC is checked before the timestamp is read, so the frame is intact,
\* but "the message contains at least a complete header" (GetMessage) also
\* says that it is long enough to have one.
CompleteHeader == phase # "panic"

\* Once the byte channel is closed the handler sends what it holds and closes
\* the message channel (HandleMessages), if no frame has stopped it.
InputEndReachesOutput ==
  closed ~> \/ phase = "panic"
            \/ phase = "done" /\ emitted = Taken
-----------------------------------------------------------------------------
\* What the handler promises of any stream, whatever its framing.
Segments == INSTANCE MessageStream WITH
  residue <- Residue,
  finished <- phase = "done",
  IsFrame <- ValidFrame,
  TypeOf <- MessageType

SegmentsSpec == Segments!Spec
=============================================================================
