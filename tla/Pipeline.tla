------------------------------ MODULE Pipeline ------------------------------
(***************************************************************************)
(* The goroutines between a device and the outputs of rtcmfilter and       *)
(* displayrtcm3: the file handler, the RTCM handler, AppCore and one       *)
(* consumer per channel.                                                   *)
(*                                                                         *)
(* The bytes of the device are numbered 1, 2, 3 ... in the order in which  *)
(* they come, and a message is the first and the last of its bytes.        *)
(* How the RTCM handler finds messages is the business of RtcmFramer; here *)
(* each byte may complete a message or end what is not one.  A send on an  *)
(* unbuffered channel is one step of the sender and the receiver.          *)
(*                                                                         *)
(* AppCore's stop message is left out: no RTCM handler can produce it (a   *)
(* message type is a 12-bit number or NonRTCMMessage).                     *)
(***************************************************************************)
EXTENDS Integers, Sequences

CONSTANTS
  NumChannels,    \* AppCore has the channels 1 to NumChannels
  Capacity,       \* the buffer size of each channel
  OnlyRTCM,       \* the channels whose consumer writes RTCM messages only
  StopOnError,    \* the channels whose consumer stops after a failed write
  ClosedAtExit,   \* the channels that the application closes when it ends
  Reconnects,     \* the values of reconnect
  WritesFail,     \* can a write fail?
  NumBytes,       \* bound: the bytes that come
  MaxSessions     \* bound: connections to the device

Channels == 1..NumChannels

ASSUME PipelineAssumption ==
  /\ NumChannels \in Nat \ {0}
  /\ Capacity \in [Channels -> Nat]
  /\ OnlyRTCM \subseteq Channels
  /\ StopOnError \subseteq Channels
  /\ ClosedAtExit \subseteq Channels
  /\ Reconnects \subseteq BOOLEAN
  /\ WritesFail \in BOOLEAN
  /\ NumBytes \in Nat
  /\ MaxSessions \in Nat \ {0}

VARIABLES
  bytesRead,     \* the bytes that file handlers have read
  starts,        \* history: the bytes with which a connection began
  fileHandler,   \* "read", "send" (the last byte read) or "returned"
  framer,        \* the RTCM handler: "read", "send" or "returned"
  cut,           \* the RTCM handler holds the bytes after this one
  message,       \* the message that it is sending
  appCore,       \* "receive", "send", "connect" or "returned"
  next,          \* the channel that AppCore sends the message to next
  sent,          \* history: the messages that AppCore has received
  buffer,        \* the messages in each channel
  received,      \* history: the messages that went into each channel
  consumer,      \* "receive", "write" or "stopped", for each channel
  written,       \* history: how many of its messages each consumer has dealt with
  reconnect,     \* AppCore.HandleMessages, not only HandleMessagesUntilEOF
  exited         \* the program has ended

appVars == <<appCore, next, sent>>
consumerVars == <<consumer, written>>
channelVars == <<buffer, received>>
framerVars == <<framer, cut, message>>
deviceVars == <<bytesRead, starts, fileHandler>>
programVars == <<reconnect, exited>>
vars == <<deviceVars, framerVars, appVars, channelVars, consumerVars,
          programVars>>

Bytes == 1..NumBytes

Messages == [rtcm : BOOLEAN, first : Bytes, last : Bytes]

NoMessage == [rtcm |-> FALSE, first |-> 0, last |-> 0]

Sessions == Len(starts)

Init ==
  /\ bytesRead = 0
  /\ starts = <<1>>
  /\ fileHandler = "read"
  /\ framer = "read"
  /\ cut = 0
  /\ message = NoMessage
  /\ appCore = "receive"
  /\ next = 1
  /\ sent = <<>>
  /\ buffer = [c \in Channels |-> <<>>]
  /\ received = [c \in Channels |-> <<>>]
  /\ consumer = [c \in Channels |-> "receive"]
  /\ written = [c \in Channels |-> 0]
  /\ reconnect \in Reconnects
  /\ exited = FALSE
-----------------------------------------------------------------------------
(* The file handler.                                                       *)

ReadByte ==
  /\ fileHandler = "read"
  /\ bytesRead < NumBytes
  /\ bytesRead' = bytesRead + 1
  /\ fileHandler' = "send"
  /\ UNCHANGED <<starts, framerVars, appVars, channelVars, consumerVars,
                 programVars>>

\* A read error or a timeout: Handle returns and closes the byte channel.
FileHandlerReturns ==
  /\ fileHandler = "read"
  /\ fileHandler' = "returned"
  /\ UNCHANGED <<bytesRead, starts, framerVars, appVars, channelVars,
                 consumerVars, programVars>>
-----------------------------------------------------------------------------
(* The RTCM handler.                                                       *)

\* FetchNextMessageFrame returns the bytes up to last.
Cut(last, rtcm) ==
  /\ message' = [rtcm |-> rtcm, first |-> cut + 1, last |-> last]
  /\ cut' = last
  /\ framer' = "send"

\* A byte may complete a message, or be a start byte that ends what is not a
\* message and is pushed back.
TakeByte ==
  /\ framer = "read"
  /\ fileHandler = "send"
  /\ fileHandler' = "read"
  /\ \/ UNCHANGED framerVars
     \/ \E rtcm \in BOOLEAN : Cut(bytesRead, rtcm)
     \/ /\ cut < bytesRead - 1
        /\ Cut(bytesRead - 1, FALSE)
  /\ UNCHANGED <<bytesRead, starts, appVars, channelVars, consumerVars,
                 programVars>>

\* The input has ended: what is held is returned.
CutRest ==
  /\ framer = "read"
  /\ fileHandler = "returned"
  /\ cut < bytesRead
  /\ Cut(bytesRead, FALSE)
  /\ UNCHANGED <<deviceVars, appVars, channelVars, consumerVars, programVars>>

\* Mutant of FramerReturns: HandleMessages closes the message channel as soon
\* as the byte channel is closed.
FramerReturnsAtOnce ==
  /\ framer = "read"
  /\ fileHandler = "returned"
  /\ framer' = "returned"
  /\ UNCHANGED <<deviceVars, cut, message, appVars, channelVars, consumerVars,
                 programVars>>

\* Nothing is left: HandleMessages closes the message channel.
FramerReturns ==
  /\ framer = "read"
  /\ fileHandler = "returned"
  /\ cut = bytesRead
  /\ framer' = "returned"
  /\ UNCHANGED <<deviceVars, cut, message, appVars, channelVars, consumerVars,
                 programVars>>
-----------------------------------------------------------------------------
(* AppCore.                                                                *)

\* A message from the message channel.
Receive ==
  /\ appCore = "receive"
  /\ framer = "send"
  /\ sent' = Append(sent, message)
  /\ message' = NoMessage
  /\ framer' = "read"
  /\ appCore' = "send"
  /\ UNCHANGED <<deviceVars, cut, next, channelVars, consumerVars, programVars>>

\* Mutant of RoomFor: a full channel takes one more message.
RoomForOneMore(c) ==
  \/ Len(buffer[c]) <= Capacity[c]
  \/ Capacity[c] = 0 /\ consumer[c] = "receive" /\ buffer[c] = <<>>

\* The receiver of the channel takes the message, or there is room for it.  In
\* the model a message handed to a waiting receiver passes through the buffer.
RoomFor(c) ==
  \/ Len(buffer[c]) < Capacity[c]
  \/ Capacity[c] = 0 /\ consumer[c] = "receive" /\ buffer[c] = <<>>

\* Mutant of SendToChannel: a channel that has no room is passed over.
SendOrSkip ==
  /\ appCore = "send"
  /\ IF RoomFor(next)
     THEN /\ buffer' = [buffer EXCEPT ![next] = Append(@, sent[Len(sent)])]
          /\ received' = [received EXCEPT ![next] = Append(@, sent[Len(sent)])]
     ELSE UNCHANGED channelVars
  /\ next' = IF next = NumChannels THEN 1 ELSE next + 1
  /\ appCore' = IF next = NumChannels THEN "receive" ELSE "send"
  /\ UNCHANGED <<deviceVars, framerVars, sent, consumerVars, programVars>>

\* Mutant of SendToChannel: the next message goes on from the last channel.
SendToChannelNoReset ==
  /\ appCore = "send"
  /\ RoomFor(next)
  /\ buffer' = [buffer EXCEPT ![next] = Append(@, sent[Len(sent)])]
  /\ received' = [received EXCEPT ![next] = Append(@, sent[Len(sent)])]
  /\ next' = next + 1
  /\ appCore' = IF next = NumChannels THEN "receive" ELSE "send"
  /\ UNCHANGED <<deviceVars, framerVars, sent, consumerVars, programVars>>

\* Send the message to the next channel, and wait until it is sent.
SendToChannel ==
  /\ appCore = "send"
  /\ RoomFor(next)
  /\ buffer' = [buffer EXCEPT ![next] = Append(@, sent[Len(sent)])]
  /\ received' = [received EXCEPT ![next] = Append(@, sent[Len(sent)])]
  /\ next' = IF next = NumChannels THEN 1 ELSE next + 1
  /\ appCore' = IF next = NumChannels THEN "receive" ELSE "send"
  /\ UNCHANGED <<deviceVars, framerVars, sent, consumerVars, programVars>>

\* Mutant of SessionEnds: AppCore watches the file handler, not the channel.
SessionEndsWithInput ==
  /\ appCore = "receive"
  /\ fileHandler = "returned"
  /\ appCore' = IF reconnect THEN "connect" ELSE "returned"
  /\ UNCHANGED <<deviceVars, framerVars, next, sent, channelVars, consumerVars,
                 programVars>>

\* Mutant of SessionEnds: the break does not leave the loop.
SessionGoesOn ==
  /\ appCore = "receive"
  /\ framer = "returned"
  /\ UNCHANGED vars

\* The message channel is closed.
SessionEnds ==
  /\ appCore = "receive"
  /\ framer = "returned"
  /\ appCore' = IF reconnect THEN "connect" ELSE "returned"
  /\ UNCHANGED <<deviceVars, framerVars, next, sent, channelVars, consumerVars,
                 programVars>>

\* Mutant of Connect: the device may be opened again for the old RTCM handler.
ConnectForFramer ==
  /\ \/ appCore = "connect" /\ appCore' = "receive"
     \/ fileHandler = "returned" /\ framer = "read" /\ UNCHANGED appCore
  /\ Sessions < MaxSessions
  /\ starts' = Append(starts, bytesRead + 1)
  /\ fileHandler' = "read"
  /\ framer' = "read"
  /\ UNCHANGED <<bytesRead, cut, message, next, sent, channelVars, consumerVars,
                 programVars>>

\* WaitAndConnectToInput opens the device: a new file handler, with a new RTCM
\* handler and new channels between them.
Connect ==
  /\ appCore = "connect"
  /\ Sessions < MaxSessions
  /\ starts' = Append(starts, bytesRead + 1)
  /\ fileHandler' = "read"
  /\ framer' = "read"
  /\ cut' = bytesRead
  /\ message' = NoMessage
  /\ appCore' = "receive"
  /\ UNCHANGED <<bytesRead, next, sent, channelVars, consumerVars, programVars>>

\* The application closes some channels and main returns.
Exit ==
  /\ appCore = "returned"
  /\ exited' = TRUE
  /\ UNCHANGED <<deviceVars, framerVars, appVars, channelVars, consumerVars,
                 reconnect>>
-----------------------------------------------------------------------------
(* The consumers: writeRTCMMessages, writeReadableMessages, DisplayMessages. *)

\* A message that is not written is dealt with at once.
ConsumerReceives(c) ==
  /\ consumer[c] = "receive"
  /\ buffer[c] # <<>>
  /\ buffer' = [buffer EXCEPT ![c] = Tail(@)]
  /\ IF c \in OnlyRTCM /\ ~Head(buffer[c]).rtcm
     THEN /\ written' = [written EXCEPT ![c] = @ + 1]
          /\ UNCHANGED consumer
     ELSE /\ consumer' = [consumer EXCEPT ![c] = "write"]
          /\ UNCHANGED written
  /\ UNCHANGED <<deviceVars, framerVars, appVars, received, programVars>>

Write(c) ==
  /\ consumer[c] = "write"
  /\ consumer' = [consumer EXCEPT ![c] = "receive"]
  /\ written' = [written EXCEPT ![c] = @ + 1]
  /\ UNCHANGED <<deviceVars, framerVars, appVars, channelVars, programVars>>

\* The write fails or is incomplete: some consumers stop, others carry on.
WriteFails(c) ==
  /\ WritesFail
  /\ consumer[c] = "write"
  /\ consumer' = [consumer EXCEPT ![c] =
       IF c \in StopOnError THEN "stopped" ELSE "receive"]
  /\ written' = [written EXCEPT ![c] = @ + 1]
  /\ UNCHANGED <<deviceVars, framerVars, appVars, channelVars, programVars>>

\* The channel is closed and empty: the consumer returns.
ConsumerReturns(c) ==
  /\ appCore = "returned"
  /\ c \in ClosedAtExit
  /\ consumer[c] = "receive"
  /\ buffer[c] = <<>>
  /\ consumer' = [consumer EXCEPT ![c] = "stopped"]
  /\ UNCHANGED <<deviceVars, framerVars, appVars, channelVars, written,
                 programVars>>

ConsumerStep(c) == ConsumerReceives(c) \/ Write(c) \/ ConsumerReturns(c)

FramerStep == TakeByte \/ CutRest \/ FramerReturns

AppCoreStep == Receive \/ SendToChannel \/ SessionEnds \/ Connect \/ Exit

Running ==
  \/ ReadByte \/ FileHandlerReturns
  \/ FramerStep
  \/ AppCoreStep
  \/ \E c \in Channels : ConsumerStep(c) \/ WriteFails(c)

\* The program has ended, or waits for a device that does not come back.
Quiet ==
  /\ \/ exited
     \/ appCore = "connect" /\ Sessions = MaxSessions
  /\ UNCHANGED vars

Next == (~exited /\ Running) \/ Quiet

Spec == Init /\ [][Next]_vars

\* Every goroutine is scheduled and every write returns; the device may stay
\* silent or connected for ever.
FairSpec ==
  /\ Spec
  /\ WF_vars(~exited /\ FramerStep)
  /\ WF_vars(~exited /\ AppCoreStep)
  /\ \A c \in Channels : WF_vars(~exited /\ ConsumerStep(c))
-----------------------------------------------------------------------------
TypeOK ==
  /\ bytesRead \in 0..NumBytes
  /\ starts \in Seq(1..(NumBytes + 1))
  /\ Sessions <= MaxSessions
  /\ fileHandler \in {"read", "send", "returned"}
  /\ framer \in {"read", "send", "returned"}
  /\ cut \in 0..bytesRead
  /\ message \in Messages \cup {NoMessage}
  /\ appCore \in {"receive", "send", "connect", "returned"}
  /\ next \in Channels
  /\ sent \in Seq(Messages)
  /\ buffer \in [Channels -> Seq(Messages)]
  /\ received \in [Channels -> Seq(Messages)]
  /\ consumer \in [Channels -> {"receive", "write", "stopped"}]
  /\ written \in [Channels -> Nat]
  /\ reconnect \in Reconnects
  /\ exited \in BOOLEAN

\* The messages that the RTCM handlers have made.
Made == IF framer = "send" THEN Append(sent, message) ELSE sent

LastByte(messages) == IF messages = <<>> THEN 0 ELSE messages[Len(messages)].last

\* The messages made from the bytes of the device, over all connections to it,
\* follow each other without a gap or an overlap, up to what the handler still
\* holds (Handle, HandleMessages, HandleMessagesUntilEOF).
NothingLostAtReconnect ==
  /\ \A i \in 1..Len(Made) :
       /\ Made[i].first <= Made[i].last
       /\ Made[i].first = (IF i = 1 THEN 0 ELSE Made[i - 1].last) + 1
  /\ cut = LastByte(Made)

\* No message joins bytes of two connections to the device (HandleMessages).
NoMessageAcrossConnections ==
  \A i \in 1..Len(sent) : \A s \in 2..Sessions :
    ~(sent[i].first < starts[s] /\ starts[s] <= sent[i].last)

\* When AppCore waits for the device again, or returns, every channel has been
\* sent every byte of the connections that ended (HandleMessagesUntilEOF).
FlushedBeforeConnect ==
  appCore \in {"connect", "returned"} =>
    /\ LastByte(sent) = bytesRead
    /\ \A c \in Channels : received[c] = sent

\* Once the input ends, AppCore comes to wait for the next device or returns:
\* the closing of the byte channel gets through the handlers.
InputEndGetsThrough ==
  fileHandler = "returned" ~> appCore \in {"connect", "returned"}

\* No consumer falls further behind than the room in its channel and the
\* message in its hands, so that is all that the end of the program can cost
\* it (DisplayMessages, writeRTCMMessages).
UnwrittenBounded ==
  \A c \in Channels : Len(received[c]) - written[c] <= Capacity[c] + 1

\* An application that does not connect again ends when its input does, as long
\* as none of its consumers stops at a failed write: the end of the input gets
\* through all its goroutines to main (rtcmfilter and displayrtcm3,
\* HandleMessagesUntilEOF).
EndsWithInput == ~reconnect /\ fileHandler = "returned" ~> exited

\* "If the channel is closed or there is an error while writing, it
\* terminates" (rtcmfilter, writeRTCMMessages): nothing else ends a consumer,
\* so what it was sent is dealt with before the program ends.
WrittenBeforeExit ==
  exited =>
    \A c \in Channels : \A i \in (written[c] + 1)..Len(received[c]) :
      \/ c \in OnlyRTCM /\ ~received[c][i].rtcm
      \/ consumer[c] = "stopped"
-----------------------------------------------------------------------------
\* AppCore's fan-out.
FanOut == INSTANCE Broadcast

FanOutSpec == FanOut!Spec
=============================================================================
