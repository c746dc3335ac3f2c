-------------------------- MODULE MessageTimeProofs --------------------------
(***************************************************************************)
(* Proofs about the times of messages, for every length of the day, every  *)
(* lead of the constellations and every start time.                        *)
(*                                                                         *)
(* The invariant says that the handler stays as New made it, and where     *)
(* each constellation's week is from the week that New found: the one      *)
(* before, that one, the next, or later.                                   *)
(***************************************************************************)
EXTENDS MessageTime, TLAPS

\* The week that New finds for the constellation.
Home(c) == StartOfWeek(c, startTime)

Clock ==
  /\ startTime \in StartTimes
  /\ now \in Int
  /\ weekBegan \in [Constellations -> Int]
  /\ handler = New(startTime)
  /\ \A c \in Constellations :
       /\ weekBegan[c] <= now /\ now < weekBegan[c] + Week
       /\ \/ weekBegan[c] \in {Home(c) - Week, Home(c), Home(c) + Week}
          \/ weekBegan[c] >= Home(c) + Week + Week

-----------------------------------------------------------------------------
\* A week is a positive number of ticks, and each lead is shorter.
LEMMA WeekAndLead ==
  ASSUME NEW c \in Constellations
  PROVE  /\ Week \in Nat \ {0}
         /\ Lead[c] \in Nat
         /\ Lead[c] < Week
<1>1. Lead[c] \in 0..(DayLength - 1) /\ DayLength \in Nat \ {0}
  BY MessageTimeAssumption
<1> QED
  BY <1>1 DEF Week

\* New finds the week in which the start time lies.
LEMMA HomeWeek ==
  ASSUME NEW c \in Constellations, startTime \in StartTimes
  PROVE  /\ Home(c) \in Int
         /\ Home(c) \in {-Lead[c], Week - Lead[c]}
         /\ Home(c) <= startTime
         /\ startTime < Home(c) + Week
<1>1. startTime \in Nat /\ startTime < Week
  BY MessageTimeAssumption, WeekAndLead
<1> QED
  BY <1>1, WeekAndLead DEF Home, StartOfWeek, StartOfLastSunday

\* The device's week, when the first message is sent.
LEMMA BeginOfWeekProperties ==
  ASSUME NEW c \in Constellations, NEW t \in Int, -Week < t, t < Week
  PROVE  /\ BeginOfWeek(c, t) \in Int
         /\ BeginOfWeek(c, t) \in {-Week - Lead[c], -Lead[c], Week - Lead[c]}
         /\ BeginOfWeek(c, t) <= t
         /\ t < BeginOfWeek(c, t) + Week
<1> DEFINE S == {k * Week - Lead[c] : k \in {-1, 0, 1}}
<1>1. S = {-Week - Lead[c], -Lead[c], Week - Lead[c]}
  <2>1. /\ (-1) * Week - Lead[c] = -Week - Lead[c]
        /\ 0 * Week - Lead[c] = -Lead[c]
        /\ 1 * Week - Lead[c] = Week - Lead[c]
    BY WeekAndLead
  <2> QED
    BY <2>1
<1>2. \E s \in S : s <= t /\ t < s + Week
  <2>1. /\ Week \in Int /\ 0 < Week /\ Lead[c] \in Int
        /\ 0 <= Lead[c] /\ Lead[c] < Week
    BY WeekAndLead
  <2>2. CASE t < -Lead[c]
    <3>1. -Week - Lead[c] <= t /\ t < (-Week - Lead[c]) + Week
      BY <2>1, <2>2
    <3> QED
      BY <1>1, <3>1
  <2>3. CASE -Lead[c] <= t /\ t < Week - Lead[c]
    <3>1. -Lead[c] <= t /\ t < (-Lead[c]) + Week
      BY <2>1, <2>3
    <3> QED
      BY <1>1, <3>1
  <2>4. CASE Week - Lead[c] <= t
    <3>1. Week - Lead[c] <= t /\ t < (Week - Lead[c]) + Week
      BY <2>1, <2>4
    <3> QED
      BY <1>1, <3>1
  <2> QED
    BY <2>1, <2>2, <2>3, <2>4
<1>3. BeginOfWeek(c, t) = CHOOSE s \in S : s <= t /\ t < s + Week
  BY DEF BeginOfWeek
<1>4. BeginOfWeek(c, t) \in S /\ BeginOfWeek(c, t) <= t /\ t < BeginOfWeek(c, t) + Week
  BY <1>2, <1>3
<1> QED
  BY <1>1, <1>4, WeekAndLead

LEMMA InitClock == Init => Clock
<1> SUFFICES ASSUME Init PROVE Clock
  OBVIOUS
<1>1. startTime \in StartTimes /\ startTime \in Nat /\ startTime < Week
  BY MessageTimeAssumption, WeekAndLead DEF Init, Constellations
<1>2. now \in Int /\ -Week < now /\ now < Week /\ now <= startTime
        /\ startTime < now + Week
  <2>1. PICK early \in Early : now = startTime - early
    BY DEF Init
  <2>2. early \in Nat /\ early < Week
    BY MessageTimeAssumption, WeekAndLead DEF Constellations
  <2> QED
    BY <1>1, <2>1, <2>2, WeekAndLead DEF Constellations
<1>3. ASSUME NEW c \in Constellations
      PROVE  /\ weekBegan[c] \in Int
             /\ weekBegan[c] <= now /\ now < weekBegan[c] + Week
             /\ weekBegan[c] \in {Home(c) - Week, Home(c)}
  <2>1. weekBegan[c] = BeginOfWeek(c, now)
    BY DEF Init
  <2> QED
    BY <1>1, <1>2, <2>1, BeginOfWeekProperties, HomeWeek, WeekAndLead
<1>4. weekBegan \in [Constellations -> Int]
  BY <1>3 DEF Init
<1> QED
  BY <1>1, <1>2, <1>3, <1>4 DEF Clock, Init

\* A message changes nothing that the clock speaks of.
LEMMA NextClock == Clock /\ [Next]_vars => Clock'
<1> SUFFICES ASSUME Clock, [Next]_vars PROVE Clock'
  OBVIOUS
<1>1. CASE Tick
  <2>1. startTime' = startTime /\ handler' = handler /\ now' = now + 1
    BY <1>1 DEF Tick
  <2>2. ASSUME NEW c \in Constellations
        PROVE  /\ weekBegan'[c] \in Int
               /\ weekBegan'[c] <= now' /\ now' < weekBegan'[c] + Week
               /\ \/ weekBegan'[c] \in {Home(c) - Week, Home(c), Home(c) + Week}
                  \/ weekBegan'[c] >= Home(c) + Week + Week
    <3>1. weekBegan'[c] =
            IF now + 1 = weekBegan[c] + Week THEN now + 1 ELSE weekBegan[c]
      BY <1>1 DEF Tick
    <3>2. /\ now \in Int /\ weekBegan[c] \in Int
          /\ weekBegan[c] <= now /\ now < weekBegan[c] + Week
          /\ \/ weekBegan[c] \in {Home(c) - Week, Home(c), Home(c) + Week}
             \/ weekBegan[c] >= Home(c) + Week + Week
      BY DEF Clock
    <3>3. Home(c) \in Int /\ Week \in Int /\ 0 < Week
      BY HomeWeek, WeekAndLead DEF Clock
    <3>4. CASE now + 1 = weekBegan[c] + Week
      <4>1. weekBegan'[c] = weekBegan[c] + Week
        BY <3>1, <3>4
      <4>2. weekBegan'[c] = Home(c) + Week \/ weekBegan'[c] >= Home(c) + Week + Week
              \/ weekBegan'[c] = Home(c)
        BY <3>2, <3>3, <4>1
      <4> QED
        BY <2>1, <3>2, <3>3, <3>4, <4>1, <4>2
    <3>5. CASE now + 1 # weekBegan[c] + Week
      <4>1. weekBegan'[c] = weekBegan[c]
        BY <3>1, <3>5
      <4> QED
        BY <2>1, <3>2, <3>3, <3>5, <4>1
    <3> QED
      BY <3>4, <3>5
  <2>3. weekBegan' \in [Constellations -> Int]
    BY <1>1, <2>2 DEF Tick
  <2>4. now' \in Int
    BY <2>1 DEF Clock
  <2>5. ASSUME NEW c \in Constellations PROVE Home(c)' = Home(c)
    BY <2>1 DEF Home
  <2> QED
    BY <2>1, <2>2, <2>3, <2>4, <2>5 DEF Clock
<1>2. CASE UNCHANGED <<startTime, now, weekBegan, handler>>
  BY <1>2 DEF Clock, Home
<1> QED
  BY <1>1, <1>2 DEF Next, GetMessage, GetMessageWithoutTime, vars

LEMMA ClockInvariant == Spec => []Clock
BY InitClock, NextClock, PTL DEF Spec

\* A week in which the start time lies is the week that New finds.
LEMMA BeganAtHome ==
  ASSUME Clock, NEW c \in Constellations,
         weekBegan[c] <= startTime, startTime < weekBegan[c] + Week
  PROVE  weekBegan[c] = Home(c)
<1>1. /\ weekBegan[c] \in Int
      /\ \/ weekBegan[c] \in {Home(c) - Week, Home(c), Home(c) + Week}
         \/ weekBegan[c] >= Home(c) + Week + Week
      /\ startTime \in StartTimes
  BY DEF Clock
<1>2. startTime \in Int /\ Week \in Int /\ 0 < Week
  BY <1>1, MessageTimeAssumption, WeekAndLead
<1>3. Home(c) \in Int /\ Home(c) <= startTime /\ startTime < Home(c) + Week
  BY <1>1, HomeWeek
<1> QED
  BY <1>1, <1>2, <1>3
-----------------------------------------------------------------------------
(* The times that the handler gives.                                       *)

\* The handler sees a rollover when the timestamp is less than the start
\* time's, and takes Galileo's week from GPS, whose lead is the same.
LEMMA TimeGiven ==
  ASSUME Clock, NEW c \in Constellations, c # "Glonass"
  PROVE  TimeFromTimestamp(c).time =
           (IF startTime - Home(c) > now - weekBegan[c]
            THEN Home(c) + Week ELSE Home(c)) + (now - weekBegan[c])
<1>1. handler.week["GPS"] = Home("GPS") /\ handler.week[c] = Home(c)
  BY DEF Clock, New, Home, Constellations
<1>2. Home("Galileo") = Home("GPS")
  BY MessageTimeAssumption DEF Home, StartOfWeek
<1>3. handler.previous[c] = startTime - Home(c)
  BY DEF Clock, New, Home
<1> QED
  BY <1>1, <1>2, <1>3 DEF TimeFromTimestamp, FromTimestamp, RolledOver, SinceWeekBegan

\* A day since the beginning of the week is never less than 0, the day that
\* New left.
LEMMA GlonassTimeGiven ==
  ASSUME Clock
  PROVE  TimeFromTimestamp("Glonass").time =
           Home("Glonass") + (now - weekBegan["Glonass"])
<1> DEFINE c == "Glonass"
           x == SinceWeekBegan(c)
<1>1. c \in Constellations
  BY DEF Constellations
<1>2. x \in Nat /\ x = now - weekBegan[c]
  BY <1>1, WeekAndLead DEF Clock, SinceWeekBegan
<1>3. DayLength \in Nat \ {0}
  BY MessageTimeAssumption
<1>4. x \div DayLength \in Nat /\ x = (x \div DayLength) * DayLength + (x % DayLength)
  <2> HIDE DEF x
  <2> QED
    BY <1>2, <1>3
<1>5. handler.week[c] = Home(c) /\ handler.previous[c] = 0
  BY <1>1 DEF Clock, New, Home
<1>6. ~RolledOver(handler.previous[c], x \div DayLength)
  BY <1>4, <1>5 DEF RolledOver
<1>7. TimeFromTimestamp(c).time =
        Home(c) + (x \div DayLength) * DayLength + (x % DayLength)
  BY <1>5, <1>6 DEF TimeFromTimestamp, FromGlonassTimestamp
<1>8. (x \div DayLength) * DayLength \in Int /\ x % DayLength \in Int
  <2> HIDE DEF x
  <2> QED
    BY <1>2, <1>3, <1>4
<1>9. Home(c) \in Int
  BY <1>1, HomeWeek DEF Clock
<1> HIDE DEF c
<1>10. TimeFromTimestamp(c).time = Home(c) + x
  BY <1>4, <1>7, <1>8, <1>9, <1>2
<1> QED
  BY <1>2, <1>10 DEF c

\* What every GetMessage gives.
LEMMA MessageGiven ==
  ASSUME NEW c \in Constellations, GetMessage(c)
  PROVE  /\ message' # None
         /\ message'.constellation = c
         /\ message'.sent = now
         /\ message'.sentIn = weekBegan[c]
         /\ message'.sentAt = TimeFromTimestamp(c).time
         /\ startTime' = startTime
BY DEF GetMessage, None, Constellations
-----------------------------------------------------------------------------
\* What a step does to the last message.
LEMMA WhoseMessage ==
  ASSUME [Next]_vars
  PROVE  \/ \E c \in Constellations : GetMessage(c)
         \/ message' = None
         \/ message' = message /\ startTime' = startTime
BY DEF Next, Tick, GetMessageWithoutTime, vars

\* The state always has its types, whatever the days, leads and start times
\* are (New, getTimeFromTimeStamp).
THEOREM TypeCorrect == Spec => []TypeOK
<1> DEFINE MessageOK == message \in Messages \cup {None}
<1>1. Init => MessageOK
  BY DEF Init
<1>2. Clock /\ MessageOK /\ [Next]_vars => MessageOK'
  <2> SUFFICES ASSUME Clock, MessageOK, [Next]_vars
               PROVE  message' \in Messages \cup {None}
    OBVIOUS
  <2>1. ASSUME NEW c \in Constellations, GetMessage(c)
        PROVE  message' \in Messages
    <3>1. now \in Int /\ weekBegan[c] \in Int /\ startTime \in Int
      BY MessageTimeAssumption, WeekAndLead DEF Clock
    <3>2. \A d \in Constellations : Home(d) \in Int /\ Week \in Int
      BY HomeWeek, WeekAndLead DEF Clock
    <3>3. TimeFromTimestamp(c).time \in Int
      <4>1. CASE c # "Glonass"
        BY <3>1, <3>2, <4>1, TimeGiven
      <4>2. CASE c = "Glonass"
        BY <3>1, <3>2, <4>2, GlonassTimeGiven
      <4> QED
        BY <4>1, <4>2
    <3>4. handler.week[c] \in Int
      BY <3>2 DEF Clock, New, Home
    <3> QED
      BY <2>1, <3>1, <3>3, <3>4 DEF GetMessage, Messages
  <2> QED
    BY <2>1, WhoseMessage
<1>3. Clock /\ MessageOK => TypeOK
  <2> SUFFICES ASSUME Clock, MessageOK PROVE TypeOK
    OBVIOUS
  <2>1. ASSUME NEW c \in Constellations
        PROVE  /\ StartOfWeek(c, startTime) \in Int
               /\ startTime - StartOfWeek(c, startTime) \in 0..(Week - 1)
    <3>1. startTime \in Int
      BY MessageTimeAssumption, WeekAndLead DEF Clock
    <3> QED
      BY <3>1, HomeWeek, WeekAndLead DEF Clock, Home
  <2>2. 0 \in 0..(Week - 1)
    BY WeekAndLead DEF Constellations
  <2>3. New(startTime) \in [week : [Constellations -> Int],
                            previous : [Constellations -> 0..(Week - 1)]]
    BY <2>1, <2>2 DEF New
  <2>4. handler = New(startTime)
    BY DEF Clock
  <2> HIDE DEF New
  <2> QED
    BY <2>3, <2>4 DEF TypeOK, Clock
<1> HIDE DEF MessageOK
<1> QED
  BY <1>1, <1>2, <1>3, ClockInvariant, PTL DEF Spec

\* For a week after the start time GPS, Galileo and Beidou messages get the
\* time at which they were sent (New, getUTCFromTimestamp): in the week of the
\* start time no timestamp is less than the start time's, and in the next week
\* each of them is.
THEOREM RightTimesForAWeek == Spec => []RightForAWeek
<1>1. Init => RightForAWeek
  BY DEF Init, RightForAWeek
<1>2. Clock /\ RightForAWeek /\ [Next]_vars => RightForAWeek'
  <2> SUFFICES ASSUME Clock, RightForAWeek, [Next]_vars PROVE RightForAWeek'
    OBVIOUS
  <2>1. ASSUME NEW c \in Constellations, GetMessage(c), c # "Glonass",
               startTime <= now, now < startTime + Week
        PROVE  TimeFromTimestamp(c).time = now
    <3>1. /\ now \in Int /\ weekBegan[c] \in Int
          /\ weekBegan[c] <= now /\ now < weekBegan[c] + Week
          /\ \/ weekBegan[c] \in {Home(c) - Week, Home(c), Home(c) + Week}
             \/ weekBegan[c] >= Home(c) + Week + Week
          /\ startTime \in StartTimes
      BY DEF Clock
    <3>2. startTime \in Int /\ Week \in Int /\ 0 < Week
      BY <3>1, MessageTimeAssumption, WeekAndLead
    <3>3. Home(c) \in Int /\ Home(c) <= startTime /\ startTime < Home(c) + Week
      BY <3>1, HomeWeek
    <3>4. CASE weekBegan[c] = Home(c)
      BY <2>1, <3>1, <3>2, <3>3, <3>4, TimeGiven
    <3>5. CASE weekBegan[c] = Home(c) + Week
      <4>1. startTime - Home(c) > now - weekBegan[c]
        BY <2>1, <3>1, <3>2, <3>3, <3>5
      <4> QED
        BY <2>1, <3>1, <3>2, <3>3, <3>5, <4>1, TimeGiven
    <3> QED
      BY <2>1, <3>1, <3>2, <3>3, <3>4, <3>5
  <2> QED
    BY <2>1, WhoseMessage, MessageGiven DEF RightForAWeek
<1> QED
  BY <1>1, <1>2, ClockInvariant, PTL DEF Spec

\* Until the week of the start time ends GLONASS messages get theirs, those
\* from before the start time too (getUTCFromGlonassTime): the handler begins
\* with day 0, which no day of the week is before.
THEOREM GlonassRightTimes == Spec => []GlonassRightInItsWeek
<1>1. Init => GlonassRightInItsWeek
  BY DEF Init, GlonassRightInItsWeek
<1>2. Clock /\ GlonassRightInItsWeek /\ [Next]_vars => GlonassRightInItsWeek'
  <2> SUFFICES ASSUME Clock, GlonassRightInItsWeek, [Next]_vars
               PROVE  GlonassRightInItsWeek'
    OBVIOUS
  <2>1. ASSUME weekBegan["Glonass"] <= startTime,
               startTime < weekBegan["Glonass"] + Week
        PROVE  TimeFromTimestamp("Glonass").time = now
    <3> DEFINE c == "Glonass"
    <3>1. c \in Constellations
      BY DEF Constellations
    <3>2. weekBegan[c] = Home(c)
      BY <2>1, <3>1, BeganAtHome
    <3>3. now \in Int /\ Home(c) \in Int
      BY <3>1, HomeWeek DEF Clock
    <3> QED
      BY <3>2, <3>3, GlonassTimeGiven
  <2> QED
    BY <2>1, WhoseMessage, MessageGiven DEF GlonassRightInItsWeek
<1> QED
  BY <1>1, <1>2, ClockInvariant, PTL DEF Spec

\* A message sent in the week of the start time shows when that week began
\* (New, getStartTimeDisplay): it is the week that New found.
THEOREM WeekShown == Spec => []OwnWeekShown
<1>1. Init => OwnWeekShown
  BY DEF Init, OwnWeekShown
<1>2. Clock /\ OwnWeekShown /\ [Next]_vars => OwnWeekShown'
  <2> SUFFICES ASSUME Clock, OwnWeekShown, [Next]_vars PROVE OwnWeekShown'
    OBVIOUS
  <2>1. ASSUME NEW c \in Constellations, GetMessage(c),
               weekBegan[c] <= startTime, startTime < weekBegan[c] + Week
        PROVE  message'.startOfWeek = weekBegan[c]
    <3>1. weekBegan[c] = Home(c)
      BY <2>1, BeganAtHome
    <3>2. message'.startOfWeek = handler.week[c]
      BY <2>1 DEF GetMessage
    <3> QED
      BY <3>1, <3>2 DEF Clock, New, Home
  <2> QED
    BY <2>1, WhoseMessage, MessageGiven DEF OwnWeekShown
<1> QED
  BY <1>1, <1>2, ClockInvariant, PTL DEF Spec

\* However long the handler runs, no message that was sent after the start
\* time is dated later than it was sent (getUTCFromTimestamp): the week that
\* the handler believes in is never ahead of the device's.
THEOREM NoTimeInTheFuture == Spec => []NeverInTheFuture
<1>1. Init => NeverInTheFuture
  BY DEF Init, NeverInTheFuture
<1>2. Clock /\ NeverInTheFuture /\ [Next]_vars => NeverInTheFuture'
  <2> SUFFICES ASSUME Clock, NeverInTheFuture, [Next]_vars
               PROVE  NeverInTheFuture'
    OBVIOUS
  <2>1. ASSUME NEW c \in Constellations, startTime <= now
        PROVE  TimeFromTimestamp(c).time <= now
    <3>1. /\ now \in Int /\ weekBegan[c] \in Int
          /\ weekBegan[c] <= now /\ now < weekBegan[c] + Week
          /\ \/ weekBegan[c] \in {Home(c) - Week, Home(c), Home(c) + Week}
             \/ weekBegan[c] >= Home(c) + Week + Week
          /\ startTime \in StartTimes
      BY DEF Clock
    <3>2. startTime \in Int /\ Week \in Int /\ 0 < Week
      BY <3>1, MessageTimeAssumption, WeekAndLead
    <3>3. Home(c) \in Int /\ Home(c) <= startTime /\ startTime < Home(c) + Week
      BY <3>1, HomeWeek
    <3>4. weekBegan[c] = Home(c) \/ weekBegan[c] >= Home(c) + Week
      BY <2>1, <3>1, <3>2, <3>3
    <3>5. CASE c = "Glonass"
      <4>1. TimeFromTimestamp(c).time = Home(c) + (now - weekBegan[c])
        BY <3>5, GlonassTimeGiven
      <4> QED
        BY <3>1, <3>2, <3>3, <3>4, <4>1
    <3>6. CASE c # "Glonass" /\ weekBegan[c] = Home(c)
      <4>1. TimeFromTimestamp(c).time = Home(c) + (now - weekBegan[c])
        BY <2>1, <3>1, <3>2, <3>3, <3>6, TimeGiven
      <4> QED
        BY <3>1, <3>3, <3>6, <4>1
    <3>7. CASE c # "Glonass" /\ weekBegan[c] >= Home(c) + Week
      <4>1. TimeFromTimestamp(c).time \in
              {Home(c) + Week + (now - weekBegan[c]), Home(c) + (now - weekBegan[c])}
        BY <3>7, TimeGiven
      <4> QED
        BY <3>1, <3>2, <3>3, <3>7, <4>1
    <3> QED
      BY <3>4, <3>5, <3>6, <3>7
  <2> QED
    BY <2>1, WhoseMessage, MessageGiven DEF NeverInTheFuture
<1> QED
  BY <1>1, <1>2, ClockInvariant, PTL DEF Spec
=============================================================================
