----------------------------- MODULE MessageTime -----------------------------
(***************************************************************************)
(* The times of messages.  An MSM carries a timestamp, the time since its  *)
(* constellation's week began; the RTCM handler keeps, per constellation,  *)
(* the start of a week and the timestamp of the message before, and makes  *)
(* a UTC time of them.                                                     *)
(*                                                                         *)
(* Times are integers, in ticks; 0 is a midnight at the start of a Sunday  *)
(* in UTC.  A timestamp in milliseconds is a number of ticks, and that of  *)
(* GLONASS a pair of bit fields, the day and the ticks since it began.     *)
(***************************************************************************)
EXTENDS Integers

CONSTANTS
  DayLength,    \* ticks per day
  Lead,         \* how long before Sunday in UTC each week begins
  StartTimes,   \* the start times that a handler may be given
  Early,        \* how long before the start time the first message was sent
  MaxAge        \* bound: the time that the handler runs

\* GPSLeapSeconds, BeidouLeapSeconds and GlonassTimeOffset; Galileo keeps GPS
\* time.  The handlers of other constellations know no time.
Constellations == {"GPS", "Galileo", "Beidou", "Glonass"}

Week == 7 * DayLength

ASSUME MessageTimeAssumption ==
  /\ DayLength \in Nat \ {0}
  /\ Lead \in [Constellations -> 0..(DayLength - 1)]
  /\ Lead["Galileo"] = Lead["GPS"]
  /\ StartTimes \subseteq 0..(Week - 1)
  /\ Early \subseteq 0..(Week - 1)
  /\ MaxAge \in Nat

VARIABLES
  startTime,   \* the start time given to New
  now,         \* the time
  weekBegan,   \* when each constellation's current week began
  handler,     \* the handler's starts of weeks and previous timestamps
  message      \* the last message, and when and in which week it was sent

vars == <<startTime, now, weekBegan, handler, message>>

None == [constellation |-> "none"]
-----------------------------------------------------------------------------
(* New.                                                                    *)

\* getStartOfLastSundayUTC, of a time in this week or the next.
StartOfLastSunday(t) == IF t >= Week THEN Week ELSE 0

\* Mutant of StartOfWeek: the time is not shifted before Sunday is looked for.
StartOfWeekUnshifted(c, t) == StartOfLastSunday(t) - Lead[c]

\* Shift the time to the constellation's, find Sunday, and shift back.
StartOfWeek(c, t) == StartOfLastSunday(t + Lead[c]) - Lead[c]

\* The timestamp of the start time; for Glonass a day, which is not set.
New(t) ==
  [week |-> [c \in Constellations |-> StartOfWeek(c, t)],
   previous |-> [c \in Constellations |->
     IF c = "Glonass" THEN 0 ELSE t - StartOfWeek(c, t)]]
-----------------------------------------------------------------------------
(* From timestamps to times.                                               *)

Moved(h, c, week, previous) ==
  [week |-> [h.week EXCEPT ![c] = week],
   previous |-> [h.previous EXCEPT ![c] = previous]]

\* Mutant of RolledOver: the same timestamp again is a rollover.
RolledOverAtSame(previous, timestamp) == previous >= timestamp

RolledOver(previous, timestamp) == previous > timestamp

\* getUTCFromTimestamp with its callers, getUTCFromGPSTime and the others.
FromTimestamp(h, c, timestamp) ==
  LET base == h.week[IF c = "Galileo" THEN "GPS" ELSE c]
      week == IF RolledOver(h.previous[c], timestamp) THEN base + Week ELSE base
  IN [time |-> week + timestamp, handler |-> Moved(h, c, week, timestamp)]

\* getUTCFromGlonassTime.
FromGlonassTimestamp(h, day, ticks) ==
  LET base == h.week["Glonass"]
      week == IF RolledOver(h.previous["Glonass"], day) THEN base + Week ELSE base
  IN [time |-> week + day * DayLength + ticks,
      handler |-> Moved(h, "Glonass", week, day)]

\* The time since the constellation's week began, as its MSM carry it.
SinceWeekBegan(c) == now - weekBegan[c]

\* getTimeFromTimeStamp of the timestamp that is sent now.
TimeFromTimestamp(c) ==
  IF c = "Glonass"
  THEN FromGlonassTimestamp(handler, SinceWeekBegan(c) \div DayLength,
                            SinceWeekBegan(c) % DayLength)
  ELSE FromTimestamp(handler, c, SinceWeekBegan(c))
-----------------------------------------------------------------------------
\* When the constellation's week began, in which the first message was sent.
BeginOfWeek(c, t) ==
  CHOOSE s \in {k * Week - Lead[c] : k \in {-1, 0, 1}} : s <= t /\ t < s + Week

Init ==
  /\ startTime \in StartTimes
  /\ \E early \in Early : now = startTime - early
  /\ weekBegan = [c \in Constellations |-> BeginOfWeek(c, now)]
  /\ handler = New(startTime)
  /\ message = None

Tick ==
  /\ now < startTime + MaxAge
  /\ now' = now + 1
  /\ weekBegan' = [c \in Constellations |->
       IF now + 1 = weekBegan[c] + Week THEN now + 1 ELSE weekBegan[c]]
  /\ UNCHANGED <<startTime, handler, message>>

\* Mutant of GetMessage: what the conversion sets in the handler stays set.
GetMessageKept(c) ==
  /\ message' = [constellation |-> c, sent |-> now, sentIn |-> weekBegan[c],
                 sentAt |-> TimeFromTimestamp(c).time,
                 startOfWeek |-> TimeFromTimestamp(c).handler.week[c]]
  /\ handler' = TimeFromTimestamp(c).handler
  /\ UNCHANGED <<startTime, now, weekBegan>>

\* GetMessage of an MSM.  getTimeDisplayFromTimestamp has a copy of the
\* handler, and what the conversion sets in it is gone when it returns.
GetMessage(c) ==
  /\ message' = [constellation |-> c, sent |-> now, sentIn |-> weekBegan[c],
                 sentAt |-> TimeFromTimestamp(c).time,
                 startOfWeek |-> handler.week[c]]
  /\ UNCHANGED <<startTime, now, weekBegan, handler>>

\* A timestamp out of range, or a constellation without a converter: the
\* message has no time.
GetMessageWithoutTime ==
  /\ message' = None
  /\ UNCHANGED <<startTime, now, weekBegan, handler>>

Next ==
  \/ Tick
  \/ \E c \in Constellations : GetMessage(c)
  \/ GetMessageWithoutTime

Spec == Init /\ [][Next]_vars
-----------------------------------------------------------------------------
Messages == [constellation : Constellations, sent : Int, sentIn : Int,
             sentAt : Int, startOfWeek : Int]

TypeOK ==
  /\ startTime \in StartTimes
  /\ now \in Int
  /\ weekBegan \in [Constellations -> Int]
  /\ handler \in [week : [Constellations -> Int],
                  previous : [Constellations -> 0..(Week - 1)]]
  /\ message \in Messages \cup {None}

\* For a week after the start time, GPS, Galileo and Beidou messages get the
\* time at which they were sent, though their weeks roll over in it, each at
\* its own moment (New, getUTCFromTimestamp).
RightForAWeek ==
  message # None /\ message.constellation # "Glonass"
    /\ startTime <= message.sent /\ message.sent < startTime + Week
      => message.sentAt = message.sent

\* Until Moscow's week ends, GLONASS messages get theirs, and those that were
\* sent in that week before the start time as well (getUTCFromGlonassTime).
GlonassRightInItsWeek ==
  message # None /\ message.constellation = "Glonass"
    /\ message.sentIn <= startTime /\ startTime < message.sentIn + Week
      => message.sentAt = message.sent

\* A message that was sent in the week of the start time shows when that week
\* began, for its constellation (New, getStartTimeDisplay).
OwnWeekShown ==
  message # None
    /\ message.sentIn <= startTime /\ startTime < message.sentIn + Week
      => message.startOfWeek = message.sentIn

\* However long the handler runs and whatever week it has come to believe in,
\* it never dates a message into the future.
NeverInTheFuture ==
  message # None /\ startTime <= message.sent => message.sentAt <= message.sent

\* "If the tool runs for many days, it handles the week rolling over into the
\* next week, and the next, and so on" (displayrtcm3/main.go).
RightWeekAfterWeek == message # None => message.sentAt = message.sent
=============================================================================
