----------------------------- MODULE FileHandler -----------------------------
(***************************************************************************)
(* The file handler goroutine, Handler.Handle: it reads a device byte by   *)
(* byte through a buffered reader, sends each byte to the RTCM handler and *)
(* decides, when reads fail, whether to try again or to give up.           *)
(*                                                                         *)
(* Time passes in ticks, at any point.  A clock value is kept as the time  *)
(* since it was taken, cut off just above the longest interval that the    *)
(* code compares it with, so that the handler may run for ever.            *)
(***************************************************************************)
EXTENDS Integers

CONSTANTS
  MaxWaiting,   \* bound: bytes that wait in the device to be read
  WaitTimes,    \* values of Config.WaitTimeOnEOF
  Timeouts,     \* values of Config.TimeoutOnEOF
  Deadlines     \* ticks from opening the device to its read deadline

\* A nil pointer; a device that takes no deadline.
None == -1

ASSUME FileHandlerAssumption ==
  /\ MaxWaiting \in Nat \ {0}
  /\ WaitTimes \subseteq Nat
  /\ Timeouts \subseteq Nat
  /\ Deadlines \subseteq Nat \cup {None}

VARIABLES
  config,          \* [wait, timeout]
  deadline,        \* ticks left until the device's read deadline, or None
  waiting,         \* bytes in the device
  buffered,        \* bytes in the bufio.Reader
  unsent,          \* history: bytes taken from the device and not sent on
  phase,           \* where Handle is
  sleepLeft,       \* ticks left of time.Sleep
  sinceFirstEOF,   \* ticks since timeOfFirstEOF, or None
  silence,         \* history: ticks since a byte came or was read
  result           \* why Handle returned

vars == <<config, deadline, waiting, buffered, unsent, phase, sleepLeft,
          sinceFirstEOF, silence, result>>

Configs == [wait : WaitTimes, timeout : Timeouts]

\* The last value of a clock that the code can tell from later ones.
Later(ticks) == IF ticks > config.timeout THEN ticks ELSE ticks + 1

Init ==
  /\ config \in Configs
  /\ deadline \in Deadlines
  /\ waiting = 0
  /\ buffered = 0
  /\ unsent = 0
  /\ phase = "read"
  /\ sleepLeft = 0
  /\ sinceFirstEOF = None
  /\ silence = 0
  /\ result = "none"
-----------------------------------------------------------------------------
\* A byte arrives at the device.  One that comes between a failed read and
\* what the handler makes of it does not count as heard.
ByteArrives ==
  /\ waiting < MaxWaiting
  /\ waiting' = waiting + 1
  /\ silence' = IF phase \in {"failed", "returned"} THEN silence ELSE 0
  /\ UNCHANGED <<config, deadline, buffered, unsent, phase, sleepLeft,
                 sinceFirstEOF, result>>

Tick ==
  /\ deadline' = IF deadline \in {None, 0} THEN deadline ELSE deadline - 1
  /\ sleepLeft' = IF sleepLeft = 0 THEN 0 ELSE sleepLeft - 1
  /\ sinceFirstEOF' = IF sinceFirstEOF = None THEN None ELSE Later(sinceFirstEOF)
  /\ silence' = Later(silence)
  /\ UNCHANGED <<config, waiting, buffered, unsent, phase, result>>

\* Mutant of ByteRead: the next EOF is not taken for the first of a run.
ByteReadKeepsTimeout ==
  /\ phase' = "send"
  /\ silence' = 0
  /\ UNCHANGED <<config, deadline, sleepLeft, sinceFirstEOF, result>>

\* A byte has been read: reset the timeout, then send the byte.
ByteRead ==
  /\ phase' = "send"
  /\ sinceFirstEOF' = None
  /\ silence' = 0
  /\ UNCHANGED <<config, deadline, sleepLeft, result>>

ReadBuffered ==
  /\ phase = "read"
  /\ buffered > 0
  /\ buffered' = buffered - 1
  /\ ByteRead
  /\ UNCHANGED <<waiting, unsent>>

\* The buffered reader is empty: it takes some of what waits in the device.
ReadDevice ==
  /\ phase = "read"
  /\ buffered = 0
  /\ deadline # 0
  /\ \E n \in 1..waiting :
       /\ waiting' = waiting - n
       /\ buffered' = n - 1
       /\ unsent' = unsent + n
  /\ ByteRead

\* EOF, or the i/o timeout of a read deadline.
ReadFails ==
  /\ phase = "read"
  /\ buffered = 0
  /\ waiting = 0 \/ deadline = 0
  /\ phase' = "failed"
  /\ UNCHANGED <<config, deadline, waiting, buffered, unsent, sleepLeft,
                 sinceFirstEOF, silence, result>>

\* Handle returns: the deferred call closes the byte channel.
Return(why) ==
  /\ phase' = "returned"
  /\ result' = why
  /\ UNCHANGED <<config, deadline, waiting, buffered, unsent, sleepLeft,
                 sinceFirstEOF, silence>>

\* Any other read error.
ReadError ==
  /\ phase = "read"
  /\ buffered = 0
  /\ Return("error")

\* No timeout, so don't retry.
ReturnOnEOF ==
  /\ phase = "failed"
  /\ config.timeout = 0
  /\ Return("eof")

Sleep(ticks) ==
  /\ sleepLeft' = ticks
  /\ phase' = "sleep"

\* Mutant of FirstEOF: each EOF starts the timeout again.
EveryEOF ==
  /\ phase = "failed"
  /\ config.timeout # 0
  /\ sinceFirstEOF' = 0
  /\ Sleep(config.wait)
  /\ UNCHANGED <<config, deadline, waiting, buffered, unsent, silence, result>>

\* The read before this one succeeded.
FirstEOF ==
  /\ phase = "failed"
  /\ config.timeout # 0
  /\ sinceFirstEOF = None
  /\ sinceFirstEOF' = 0
  /\ Sleep(config.wait)
  /\ UNCHANGED <<config, deadline, waiting, buffered, unsent, silence, result>>

\* The timeout has not elapsed: the pause is TimeoutOnEOF.
LaterEOF ==
  /\ phase = "failed"
  /\ config.timeout # 0
  /\ sinceFirstEOF \in 0..config.timeout
  /\ Sleep(config.timeout)
  /\ UNCHANGED <<config, deadline, waiting, buffered, unsent, sinceFirstEOF,
                 silence, result>>

\* The timeout has elapsed.
GiveUp ==
  /\ phase = "failed"
  /\ config.timeout # 0
  /\ sinceFirstEOF > config.timeout
  /\ Return("timeout")

Wake ==
  /\ phase = "sleep"
  /\ sleepLeft = 0
  /\ phase' = "read"
  /\ UNCHANGED <<config, deadline, waiting, buffered, unsent, sleepLeft,
                 sinceFirstEOF, silence, result>>

\* Mutant of Send: the last byte of the buffer is sent again.
SendAgain ==
  /\ phase = "send"
  /\ phase' = IF buffered = 0 THEN "send" ELSE "read"
  /\ unsent' = unsent - 1
  /\ UNCHANGED <<config, deadline, waiting, buffered, sleepLeft, sinceFirstEOF,
                 silence, result>>

\* Mutant of Send: each byte gets a buffered reader of its own.
SendDropsBuffer ==
  /\ phase = "send"
  /\ phase' = "read"
  /\ unsent' = unsent - 1
  /\ buffered' = 0
  /\ UNCHANGED <<config, deadline, waiting, sleepLeft, sinceFirstEOF, silence,
                 result>>

\* The RTCM handler takes the byte from the unbuffered channel.
Send ==
  /\ phase = "send"
  /\ phase' = "read"
  /\ unsent' = unsent - 1
  /\ UNCHANGED <<config, deadline, waiting, buffered, sleepLeft, sinceFirstEOF,
                 silence, result>>

\* What Handle does of itself.
HandlerStep ==
  \/ ReadBuffered \/ ReadDevice \/ ReadFails
  \/ ReturnOnEOF \/ FirstEOF \/ LaterEOF \/ GiveUp
  \/ Wake \/ Send

Next == HandlerStep \/ ReadError \/ ByteArrives \/ Tick

Spec == Init /\ [][Next]_vars

\* Handle is scheduled, its reads return, the RTCM handler takes its bytes
\* and time passes.
FairSpec == Spec /\ WF_vars(HandlerStep) /\ WF_vars(Tick)
-----------------------------------------------------------------------------
Phases == {"read", "failed", "sleep", "send", "returned"}

Results == {"none", "error", "eof", "timeout"}

TypeOK ==
  /\ config \in Configs
  /\ deadline \in Nat \cup {None}
  /\ waiting \in 0..MaxWaiting
  /\ buffered \in 0..MaxWaiting
  /\ unsent \in 0..MaxWaiting
  /\ phase \in Phases
  /\ sleepLeft \in Nat
  /\ sinceFirstEOF \in {None} \cup 0..(config.timeout + 1)
  /\ silence \in 0..(config.timeout + 1)
  /\ result \in Results
  /\ (phase = "returned") <=> (result # "none")

\* Handle never returns with bytes that it has taken from the device and not
\* sent to the RTCM handler, whatever read fails and when (Handle).
ReturnsEmptyHanded == phase = "returned" => unsent = 0

\* "It will only expire if the host machine loses its connection to the
\* device" (the comment in Handle): when the timeout makes Handle return,
\* nothing has come from the device for longer than TimeoutOnEOF.  The read
\* deadline, which getInputFile sets once and nobody moves, makes it false.
GivesUpInSilence == result = "timeout" => silence > config.timeout

\* What is true for every deadline: when the timeout makes Handle return, the
\* device has been silent for longer than TimeoutOnEOF, or its read deadline
\* has passed.  A pause between two bursts is never taken for a loss, however
\* the bytes, the pauses of Handle and the clock come between each other.
GivesUpForAReason ==
  result = "timeout" => silence > config.timeout \/ deadline = 0

\* A device that stays silent makes Handle return, which is what closes the
\* byte channel and lets the caller connect again.
SilenceEndsIt == <>[](waiting = 0) => <>(phase = "returned")
=============================================================================
