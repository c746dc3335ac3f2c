----------------------------- MODULE RtklibProofs -----------------------------
(***************************************************************************)
(* What the helpers of the RTCM 3 codec guarantee, for every value: a time *)
(* of week or of day, a week number and a carrier phase that were cut to   *)
(* their fields are found again, lock times tell a slip, and the buffer    *)
(* holds one epoch and each satellite once.  Then both ends: the encoder   *)
(* makes of each type a well formed message or none, the decoder leaves a  *)
(* sound structure whatever message comes, and between them the link keeps *)
(* its types, the times of epochs and the issues of corrections.           *)
(***************************************************************************)
EXTENDS RtklibLink, SequenceTheorems, FiniteSetTheorems, TLAPS

-----------------------------------------------------------------------------
(* Times.                                                                  *)

\* The time the receiver starts from: its last, or else that of its clock.
Known(rtcm) == IF rtcm.time = 0 THEN utc2gpst(rtcm.clock) ELSE rtcm.time
Within(a, b, period) == 2 * (a - b) < period /\ 2 * (b - a) < period

\* t is x after the start of the period m.
Cut(t, D, m, x) == t = m * D + x /\ 0 <= x /\ x < D

\* What adjweek and adjday_glot need of the structure.
HasTime(rtcm) ==
  /\ rtcm = [f \in DOMAIN rtcm |-> rtcm[f]]
  /\ "time" \in DOMAIN rtcm
  /\ rtcm.time \in Int /\ rtcm.clock \in Int

\* A field that is set has its value.
LEMMA TimeSet ==
  ASSUME NEW rtcm, HasTime(rtcm), NEW t
  PROVE  [rtcm EXCEPT !.time = t].time = t
BY Zenon DEF HasTime

\* StartClock makes the known time the time.
LEMMA StartClockTime ==
  ASSUME NEW rtcm, HasTime(rtcm)
  PROVE  /\ Known(rtcm) \in Int
         /\ \A t : [StartClock(rtcm) EXCEPT !.time = t].time = t
         /\ StartClock(rtcm).time = Known(rtcm)
<1> DEFINE r == [rtcm EXCEPT !.time = utc2gpst(rtcm.clock)]
<1>1. Known(rtcm) \in Int
  BY SMT DEF Known, HasTime, utc2gpst, Leaps
<1>2. r = [f \in DOMAIN r |-> r[f]] /\ "time" \in DOMAIN r
  BY Zenon DEF HasTime
<1>3. \A t : [r EXCEPT !.time = t].time = t
  BY <1>2, Zenon
<1>4. r.time = utc2gpst(rtcm.clock)
  BY TimeSet
<1> QED BY <1>1, <1>3, <1>4, TimeSet, Zenon DEF StartClock, Known

\* A week and the time in it are the time.
LEMMA WeekAndTow ==
  ASSUME NEW t \in Int
  PROVE  /\ Tow(t) \in Int /\ WeekOf(t) \in Int
         /\ t = WeekOf(t) * Week + Tow(t)
         /\ 0 <= Tow(t) /\ Tow(t) < Week
<1>1. t % 604800 \in Int /\ t \div 604800 \in Int
  BY SMT
<1>2. t = (t \div 604800) * 604800 + (t % 604800)
  BY SMT
<1>3. 0 <= t % 604800 /\ t % 604800 < 604800
  BY SMT
<1> QED BY <1>1, <1>2, <1>3, SMT DEF WeekOf, Tow, Week

\* Two times that are close lie in the same or in neighbouring periods.
LEMMA NeighbouringPeriods ==
  ASSUME NEW D \in Nat \ {0}, NEW m \in Int, NEW n \in Int, NEW x \in Int, NEW p \in Int,
         NEW t \in Int, NEW k \in Int, Cut(t, D, m, x), Cut(k, D, n, p), Within(t, k, D)
  PROVE  m \in {n - 1, n, n + 1}
<1>1. ASSUME NEW a \in Int, NEW b \in Int, a >= b + 2
      PROVE  a * D >= b * D + 2 * D
  <2>1. (a - b - 2) * D >= 0
    BY <1>1, SMT
  <2>2. (a - b - 2) * D = a * D - b * D - 2 * D
    BY SMT
  <2> QED BY <2>1, <2>2, SMT
<1>2. ~ m >= n + 2
  BY <1>1, SMT DEF Within, Cut
<1>3. ~ n >= m + 2
  BY <1>1, SMT DEF Within, Cut
<1> QED BY <1>2, <1>3, SMT

\* Two times t and k of which x and p are what is left in periods of D: Near
\* finds out how far they are apart if that is less than half a period.
LEMMA NearIsRight ==
  ASSUME NEW D \in Nat \ {0}, NEW m \in Int, NEW n \in Int, NEW x \in Int, NEW p \in Int,
         NEW t \in Int, NEW k \in Int, Cut(t, D, m, x), Cut(k, D, n, p), Within(t, k, D)
  PROVE  Near(x, p, D) = t - k + p
<1>1. CASE m = n
  BY <1>1, SMT DEF Near, Within, Cut
<1>2. CASE m = n + 1
  <2>1. m * D = n * D + D
    BY <1>2, SMT
  <2> QED BY <1>2, <2>1, SMT DEF Near, Within, Cut
<1>3. CASE m = n - 1
  <2>1. m * D = n * D - D
    BY <1>3, SMT
  <2> QED BY <1>3, <2>1, SMT DEF Near, Within, Cut
<1>4. m \in {n - 1, n, n + 1}
  BY NeighbouringPeriods, Zenon
<1> QED BY <1>1, <1>2, <1>3, <1>4, Zenon

\* What adjweek computes of two times.
LEMMA TowIsRight ==
  ASSUME NEW t \in Int, NEW k \in Int, Within(t, k, Week)
  PROVE  gpst2time(WeekOf(k), Near(Tow(t), Tow(k), Week)) = t
<1>1. Week \in Nat \ {0}
  BY SMT DEF Week
<1>2. PICK m \in Int, x \in Int : m = WeekOf(t) /\ x = Tow(t) /\ Cut(t, Week, m, x)
  BY WeekAndTow, Zenon DEF Cut
<1>3. PICK n \in Int, p \in Int : n = WeekOf(k) /\ p = Tow(k) /\ Cut(k, Week, n, p)
  BY WeekAndTow, Zenon DEF Cut
<1>4. Near(x, p, Week) = t - k + p
  BY <1>1, <1>2, <1>3, NearIsRight, SMT
<1>5. n * Week + Near(x, p, Week) = t
  BY <1>1, <1>3, <1>4, SMT DEF Cut
<1> QED BY <1>2, <1>3, <1>5, Zenon DEF gpst2time

\* A time of week less than half a week from the time that is known is found
\* again: the receiver may start, sleep or cross the end of a week between.
THEOREM WeekResolved ==
  ASSUME NEW rtcm, HasTime(rtcm), NEW t \in Int, Within(t, Known(rtcm), Week)
  PROVE  adjweek(rtcm, Tow(t)).time = t
<1>1. Known(rtcm) \in Int /\ StartClock(rtcm).time = Known(rtcm)
  BY StartClockTime, Zenon
<1>2. adjweek(rtcm, Tow(t)).time =
        gpst2time(WeekOf(Known(rtcm)), Near(Tow(t), Tow(Known(rtcm)), Week))
  BY StartClockTime, Zenon DEF adjweek
<1> QED BY <1>1, <1>2, TowIsRight, Zenon

\* The time of day of a time, as the GLONASS messages have it.
Tod(t) == Tow(t) % Day

\* A week has seven days, and a time of week lies in one of them.
LEMMA DaysOfWeek ==
  ASSUME NEW x \in Int
  PROVE  /\ Day \in Nat \ {0} /\ Week = 7 * Day
         /\ x \div Day \in Int /\ x % Day \in Int
         /\ x = (x \div Day) * Day + (x % Day)
         /\ 0 <= x % Day /\ x % Day < Day
<1>1. x % 86400 \in Int /\ x \div 86400 \in Int
  BY SMT
<1>2. x = (x \div 86400) * 86400 + (x % 86400)
  BY SMT
<1>3. 0 <= x % 86400 /\ x % 86400 < 86400
  BY SMT
<1> QED BY <1>1, <1>2, <1>3, SMT DEF Week, Day

\* A time is its time of day after the start of some day.
LEMMA DayAndTod ==
  ASSUME NEW t \in Int
  PROVE  /\ Tod(t) \in Int
         /\ \E n \in Int : Cut(t, Day, n, Tod(t))
<1>1. PICK w \in Int, x \in Int : w = WeekOf(t) /\ x = Tow(t) /\ t = w * Week + x
  BY WeekAndTow, Zenon
<1>2. PICK d \in Int, r \in Int :
         /\ r = Tod(t) /\ x = d * Day + r /\ 0 <= r /\ r < Day
  BY <1>1, DaysOfWeek, Zenon DEF Tod
<1>3. Day \in Nat /\ Week = 7 * Day
  BY DaysOfWeek, Zenon
<1>4. 7 * w + d \in Int /\ t = (7 * w + d) * Day + r
  BY <1>1, <1>2, <1>3, SMT
<1>5. Cut(t, Day, 7 * w + d, r)
  BY <1>2, <1>4, Zenon DEF Cut
<1> QED BY <1>2, <1>4, <1>5, Zenon

\* What adjday_glot computes of two times of Moscow.
LEMMA TodIsRight ==
  ASSUME NEW t \in Int, NEW k \in Int, Within(t, k, Day)
  PROVE  gpst2time(WeekOf(k), Tow(k) - Tod(k) + Near(Tod(t), Tod(k), Day)) = t
<1>1. Day \in Nat \ {0}
  BY SMT DEF Day
<1>2. PICK m \in Int, x \in Int : x = Tod(t) /\ Cut(t, Day, m, x)
  BY DayAndTod, Zenon
<1>3. PICK n \in Int, p \in Int : p = Tod(k) /\ Cut(k, Day, n, p)
  BY DayAndTod, Zenon
<1>4. Near(x, p, Day) = t - k + p
  BY <1>1, <1>2, <1>3, NearIsRight, SMT
<1>5. PICK w \in Int, y \in Int : w = WeekOf(k) /\ y = Tow(k) /\ Cut(k, Week, w, y)
  BY WeekAndTow, Zenon DEF Cut
<1>6. Week \in Nat
  BY SMT DEF Week
<1>7. w * Week + (y - p + Near(x, p, Day)) = t
  BY <1>4, <1>5, <1>6, SMT DEF Cut
<1> QED BY <1>2, <1>3, <1>5, <1>7, Zenon DEF gpst2time

\* A GLONASS time of day less than half a day from the time that is known is
\* found again, on whichever side of midnight in Moscow the two lie.
THEOREM DayResolved ==
  ASSUME NEW rtcm, HasTime(rtcm), NEW t \in Int, Within(t, Known(rtcm), Day)
  PROVE  adjday_glot(rtcm, Tod(GlonassDay(t))).time = t
<1>1. PICK k \in Int : k = Known(rtcm) /\ StartClock(rtcm).time = k
  BY StartClockTime, Zenon
<1>2. GlonassDay(t) \in Int /\ GlonassDay(k) \in Int
  BY SMT DEF GlonassDay, gpst2utc, Leaps, MoscowOffset
<1>3. Within(GlonassDay(t), GlonassDay(k), Day)
  <2>1. Day \in Nat /\ Within(t, k, Day)
    BY <1>1, SMT DEF Day
  <2>2. GlonassDay(t) - GlonassDay(k) = t - k
    BY SMT DEF GlonassDay, gpst2utc, Leaps, MoscowOffset
  <2>3. GlonassDay(k) - GlonassDay(t) = k - t
    BY SMT DEF GlonassDay, gpst2utc, Leaps, MoscowOffset
  <2> QED BY <2>1, <2>2, <2>3, Zenon DEF Within
<1> DEFINE glot == gpst2time(WeekOf(GlonassDay(k)),
                     Tow(GlonassDay(k)) - Tod(GlonassDay(k))
                       + Near(Tod(GlonassDay(t)), Tod(GlonassDay(k)), Day))
<1>4. adjday_glot(rtcm, Tod(GlonassDay(t))).time = utc2gpst(glot - MoscowOffset)
  BY <1>1, StartClockTime, Zenon DEF adjday_glot, Tod
<1>5. glot = GlonassDay(t)
  BY <1>2, <1>3, TodIsRight, Zenon
<1>6. utc2gpst(GlonassDay(t) - MoscowOffset) = t
  BY SMT DEF GlonassDay, gpst2utc, utc2gpst, Leaps, MoscowOffset
<1> QED BY <1>4, <1>5, <1>6, Zenon

\* The week of now, as adjgpsweek has it: not before the start of 2009/12/1.
Now(rtcm) ==
  LET week == WeekOf(utc2gpst(rtcm.clock)) IN IF week < 1560 THEN 1560 ELSE week

\* A week number of ten bits is found again from 511 weeks before the week of
\* the receiver's clock to 512 weeks after it.
THEOREM WeekNumberResolved ==
  ASSUME NEW rtcm, rtcm.clock \in Int, NEW w \in Nat,
         w - 512 <= Now(rtcm), Now(rtcm) <= w + 511
  PROVE  adjgpsweek(rtcm, w % 1024) = w
<1>1. Now(rtcm) \in Int /\ Now(rtcm) >= 1560
  <2>1. WeekOf(utc2gpst(rtcm.clock)) \in Int
    BY SMT DEF WeekOf, Week, utc2gpst, Leaps
  <2> QED BY <2>1, SMT DEF Now
<1>2. adjgpsweek(rtcm, w % 1024) =
        (w % 1024) + Cdiv(Now(rtcm) - (w % 1024) + 512, 1024) * 1024
  BY SMT DEF adjgpsweek, Now
<1>3. /\ w % 1024 \in 0 .. 1023 /\ w \div 1024 \in Nat
      /\ w = (w \div 1024) * 1024 + (w % 1024)
  BY SMT
<1>4. Cdiv(Now(rtcm) - (w % 1024) + 512, 1024) = w \div 1024
  <2>1. PICK n \in Int, x \in Int, q \in Nat :
          /\ n = Now(rtcm) /\ x = w % 1024 /\ q = w \div 1024
          /\ x \in 0 .. 1023 /\ w = q * 1024 + x /\ n >= 1560
    BY <1>1, <1>3, SMT
  <2>2. /\ 0 <= (n - x + 512) - q * 1024 /\ (n - x + 512) - q * 1024 < 1024
        /\ n - x + 512 >= 0
    BY <2>1, SMT
  <2>3. (n - x + 512) \div 1024 = q
    BY <2>1, <2>2, SMT
  <2> QED BY <2>1, <2>2, <2>3, SMT DEF Cdiv
<1> QED BY <1>2, <1>3, <1>4, SMT

-----------------------------------------------------------------------------
(* Carrier phases and lock times.                                          *)

\* A division of which the quotient is 0 or 1.
LEMMA SmallRemainder ==
  ASSUME NEW D \in Nat \ {0}, NEW a \in Nat
  PROVE  /\ a < D => a % D = a
         /\ D <= a /\ a < 2 * D => a % D = a - D
BY SMT

\* A phase that was cut to the legacy field is found again when it is within
\* half the range of the last one and has left the range once at the most.  What
\* becomes of a phase that leaves it twice is seen in the run rtklib_rollover.
THEOREM PhaseResolved ==
  ASSUME NEW rtcm, NEW sat, NEW freq, NEW cp \in Int,
         rtcm.cp[sat][freq] \in Int \ {0},
         -3 * Half <= cp, cp < 3 * Half,
         Within(cp, rtcm.cp[sat][freq], 2 * Half)
  PROVE  adjcp(rtcm, sat, freq, cp_pr(cp)).cp = cp
<1> DEFINE prev == rtcm.cp[sat][freq]
<1>1. Half \in Nat \ {0}
  BY SizesAssumption, Zenon
<1>2. adjcp(rtcm, sat, freq, cp_pr(cp)).cp = Near(cp_pr(cp), prev, 2 * Half)
  BY SMT DEF adjcp
<1>3. cp_pr(cp) \in {cp, cp - 2 * Half, cp + 2 * Half}
  <2>1. 2 * Half \in Nat \ {0}
    BY <1>1, SMT
  <2>2. CASE cp + Half >= 0
    <3>1. cp + Half \in Nat /\ cp + Half < 2 * (2 * Half)
      BY <1>1, <2>2, SMT
    <3>2. (cp + Half) % (2 * Half) \in {cp + Half, cp + Half - 2 * Half}
      <4>1. PICK a \in Nat, D \in Nat \ {0} : a = cp + Half /\ D = 2 * Half /\ a < 2 * D
        BY <2>1, <3>1, SMT
      <4>2. a % D \in {a, a - D}
        BY <4>1, SmallRemainder, SMT
      <4> QED BY <1>1, <4>1, <4>2, SMT
    <3> QED BY <1>1, <2>2, <3>2, SMT DEF cp_pr, Fmod
  <2>3. CASE cp + Half < 0
    <3>1. -(cp + Half) \in Nat /\ -(cp + Half) < 2 * (2 * Half)
      BY <1>1, <2>3, SMT
    <3>2. (-(cp + Half)) % (2 * Half) \in {-(cp + Half), -(cp + Half) - 2 * Half}
      <4>1. PICK a \in Nat, D \in Nat \ {0} : a = -(cp + Half) /\ D = 2 * Half /\ a < 2 * D
        BY <2>1, <3>1, SMT
      <4>2. a % D \in {a, a - D}
        BY <4>1, SmallRemainder, SMT
      <4> QED BY <1>1, <4>1, <4>2, SMT
    <3> QED BY <1>1, <2>3, <3>2, SMT DEF cp_pr, Fmod
  <2> QED BY <1>1, <2>2, <2>3, SMT
<1>4. Near(cp_pr(cp), prev, 2 * Half) = cp
  BY <1>1, <1>3, SMT DEF Near, Within
<1> QED BY <1>2, <1>4

\* The lock indicator fits its seven bits and never falls while the lock lasts.
THEOREM LockIndicator ==
  ASSUME NEW a \in Int, NEW b \in Int, a <= b
  PROVE  to_lock(a) \in 0 .. 127 /\ to_lock(a) <= to_lock(b)
<1>1. \A x \in Int : to_lock(x) \in 0 .. 127
  BY SMT DEF to_lock
<1>2. to_lock(a) <= to_lock(b)
  BY SMT DEF to_lock
<1> QED BY <1>1, <1>2

\* A lock time that started again is seen in the indicator before it is half of
\* what the old one was, as long as it has not reached 937 seconds.
THEOREM RestartOfLockIsSeen ==
  ASSUME NEW old \in Int, NEW new \in Nat, new < 937, old > 2 * new
  PROVE  to_lock(new) < to_lock(old)
BY SMT DEF to_lock

-----------------------------------------------------------------------------
(* The buffer of observations.                                             *)

\* The structure has the fields of the buffer.
HasBuffer(rtcm) ==
  /\ rtcm = [f \in DOMAIN rtcm |-> rtcm[f]]
  /\ {"obs", "obstime", "obsflag", "time"} \subseteq DOMAIN rtcm

\* The buffer is not too long, has a satellite once and is of one epoch.
OneEpochEachOnce(rtcm, Obs) ==
  /\ rtcm.obs \in Seq(Obs)
  /\ Len(rtcm.obs) <= MAXOBS
  /\ \A i, j \in 1 .. Len(rtcm.obs) : rtcm.obs[i].sat = rtcm.obs[j].sat => i = j
  /\ \A i \in 1 .. Len(rtcm.obs) : rtcm.obs[i].time = rtcm.obstime

\* The satellite has a place in the buffer, or there is none left.
Placed(i, sat, time) ==
  IF i.index = 0 THEN Len(i.rtcm.obs) = MAXOBS
  ELSE /\ i.index \in 1 .. Len(i.rtcm.obs)
       /\ i.rtcm.obs[i.index].sat = sat /\ i.rtcm.obs[i.index].time = time

\* What the first satellite of a message finds in the buffer: nothing, or an
\* epoch of the time of the message.
LEMMA BufferCleared ==
  ASSUME NEW rtcm, HasBuffer(rtcm), NEW Obs, OneEpochEachOnce(rtcm, Obs)
  PROVE  LET r == ClearOldEpoch(rtcm)
         IN  /\ HasBuffer(r) /\ OneEpochEachOnce(r, Obs)
             /\ r.time = rtcm.time
             /\ r.obs # <<>> => r.obstime = r.time
<1> DEFINE e == [rtcm EXCEPT !.obs = <<>>, !.obsflag = FALSE]
<1>1. /\ HasBuffer(e)
      /\ e.obs = <<>> /\ e.time = rtcm.time
  BY Zenon DEF HasBuffer
<1>2. OneEpochEachOnce(e, Obs)
  <2>1. e.obs \in Seq(Obs) /\ Len(e.obs) = 0
    BY <1>1, EmptySeq, Zenon
  <2> HIDE DEF e
  <2>2. Len(e.obs) <= MAXOBS /\ 1 .. Len(e.obs) = {}
    BY <2>1, SizesAssumption, SMT
  <2> QED BY <2>1, <2>2, Zenon DEF OneEpochEachOnce
<1> QED BY <1>1, <1>2, Zenon DEF ClearOldEpoch

\* A place in the buffer for a satellite of a message.
LEMMA BufferExtended ==
  ASSUME NEW rtcm, HasBuffer(rtcm), NEW Obs, OneEpochEachOnce(rtcm, Obs),
         rtcm.obs # <<>> => rtcm.obstime = rtcm.time,
         NEW sat, NoObs(rtcm.time, sat) \in Obs
  PROVE  LET i == obsindex(rtcm, sat)
         IN  /\ OneEpochEachOnce(i.rtcm, Obs)
             /\ Placed(i, sat, rtcm.time)
<1> DEFINE i == obsindex(rtcm, sat)
           old == {k \in DOMAIN rtcm.obs : rtcm.obs[k].sat = sat}
           new == NoObs(rtcm.time, sat)
           obs == Append(rtcm.obs, new)
<1>1. /\ rtcm.obs \in Seq(Obs) /\ Len(rtcm.obs) \in Nat
      /\ DOMAIN rtcm.obs = 1 .. Len(rtcm.obs)
  BY LenProperties, Zenon DEF OneEpochEachOnce
<1>2. CASE old # {}
  <2>1. PICK k \in old : i = [index |-> k, rtcm |-> rtcm]
    BY <1>2, Zenon DEF obsindex
  <2>2. k \in 1 .. Len(rtcm.obs) /\ k # 0 /\ rtcm.obs[k].sat = sat
    BY <1>1, <2>1, SMT
  <2>3. rtcm.obs[k].time = rtcm.time
    <3>1. rtcm.obs # <<>>
      BY <1>1, <2>2, EmptySeq, SMT
    <3> QED BY <2>2, <3>1, Zenon DEF OneEpochEachOnce
  <2>4. i.index = k /\ i.rtcm = rtcm
    BY <2>1, SMT
  <2> QED BY <2>2, <2>3, <2>4, Zenon DEF Placed
<1>3. CASE old = {} /\ Len(rtcm.obs) >= MAXOBS
  <2>1. i = [index |-> 0, rtcm |-> rtcm]
    BY <1>3, Zenon DEF obsindex
  <2>2. Len(rtcm.obs) = MAXOBS
    BY <1>1, <1>3, SizesAssumption, SMT DEF OneEpochEachOnce
  <2>3. i.index = 0 /\ i.rtcm = rtcm
    BY <2>1, SMT
  <2> QED BY <2>2, <2>3, Zenon DEF Placed
<1>4. CASE old = {} /\ ~ Len(rtcm.obs) >= MAXOBS
  <2> DEFINE n == Len(rtcm.obs)
             r == [rtcm EXCEPT !.obs = obs,
                               !.obstime = IF rtcm.obs = <<>> THEN rtcm.time ELSE rtcm.obstime]
  <2>1. i = [index |-> n + 1, rtcm |-> r]
    BY <1>4, Zenon DEF obsindex
  <2>2. r.obs = obs /\ r.obstime = rtcm.time
    BY Zenon DEF HasBuffer
  <2>3. new \in Obs /\ new.sat = sat /\ new.time = rtcm.time
    BY Zenon DEF NoObs
  <2> HIDE DEF i, r, new
  <2>4. i.index = n + 1 /\ i.rtcm = r
    BY <2>1, SMT
  <2>5. /\ obs \in Seq(Obs) /\ Len(obs) = n + 1
        /\ obs[n + 1] = new
        /\ \A k \in 1 .. n : obs[k] = rtcm.obs[k]
    BY <1>1, <2>3, AppendProperties, SMT
  <2> HIDE DEF n, obs
  <2>6. n \in Nat /\ n + 1 <= MAXOBS /\ n + 1 # 0 /\ n + 1 \in 1 .. n + 1
    BY <1>1, <1>4, SizesAssumption, SMT DEF n
  <2>7. \A k \in 1 .. n + 1 : k \in 1 .. n \/ k = n + 1
    BY <2>6, SMT
  <2>8. \A k \in 1 .. n : rtcm.obs[k].sat # sat
    BY <1>1, <1>4, Zenon DEF n
  <2>9. \A k \in 1 .. n : obs[k].time = rtcm.time
    <3>1. TAKE k \in 1 .. n
    <3>2. rtcm.obs # <<>>
      BY <1>1, <3>1, EmptySeq, SMT DEF n
    <3> QED BY <2>5, <3>2, Zenon DEF OneEpochEachOnce, n
  <2>10. \A k \in 1 .. n + 1 : obs[k].time = rtcm.time
    BY <2>3, <2>5, <2>7, <2>9, Zenon
  <2>11. \A k, l \in 1 .. n + 1 : obs[k].sat = obs[l].sat => k = l
    BY SMTT(60), <2>3, <2>5, <2>7, <2>8 DEF OneEpochEachOnce, n
  <2>12. OneEpochEachOnce(r, Obs)
    BY <2>2, <2>5, <2>6, <2>10, <2>11, Zenon DEF OneEpochEachOnce
  <2>13. /\ i.index \in 1 .. Len(r.obs)
         /\ r.obs[i.index].sat = sat /\ r.obs[i.index].time = rtcm.time
    BY <2>2, <2>3, <2>4, <2>5, <2>6, Zenon
  <2> QED BY <2>4, <2>6, <2>12, <2>13, Zenon DEF i, Placed
<1> QED BY <1>2, <1>3, <1>4, Zenon

\* Whatever epochs were lost or left unfinished, the buffer of the receiver is
\* of one epoch, that of the message that is being decoded, it has a satellite
\* once, and a satellite has no place only when all places are taken.
THEOREM BufferOfOneEpoch ==
  ASSUME NEW rtcm, HasBuffer(rtcm), NEW Obs, OneEpochEachOnce(rtcm, Obs),
         NEW sat, NoObs(rtcm.time, sat) \in Obs
  PROVE  LET i == obsindex(ClearOldEpoch(rtcm), sat)
         IN  /\ OneEpochEachOnce(i.rtcm, Obs)
             /\ Placed(i, sat, rtcm.time)
<1> DEFINE r == ClearOldEpoch(rtcm)
           i == obsindex(r, sat)
<1>1. /\ HasBuffer(r) /\ OneEpochEachOnce(r, Obs)
      /\ r.time = rtcm.time /\ (r.obs # <<>> => r.obstime = r.time)
  BY BufferCleared, Zenon
<1> HIDE DEF r
<1>2. /\ OneEpochEachOnce(i.rtcm, Obs)
      /\ Placed(i, sat, rtcm.time)
  <2>1. NoObs(r.time, sat) \in Obs
    BY <1>1, Zenon
  <2>2. /\ OneEpochEachOnce(i.rtcm, Obs)
        /\ Placed(i, sat, r.time)
    BY <1>1, <2>1, BufferExtended, Zenon
  <2> HIDE DEF i
  <2> QED BY <1>1, <2>2, Zenon
<1> QED BY <1>2, Zenon DEF r

-----------------------------------------------------------------------------
(* The structure, and how observations are decoded into its buffer.        *)

\* The fields of rtcm_t.
Fields == {"time", "clock", "opt", "staid", "obsflag", "obs", "obstime", "cp", "lock",
           "lltime", "eph", "geph", "ephsat", "ssr", "sta"}
ObsFields == {"sat", "time", "code", "P", "L", "LLI"}

IsRtcm(r) == r = [f \in Fields |-> r[f]]
IsObs(d) == d = [f \in ObsFields |-> d[f]]

\* What the decoding of observations does not write.
Rest == Fields \ {"obs", "obstime", "obsflag", "cp", "lock"}
SameRest(r, s) == \A f \in Rest : s[f] = r[f]

Buffer(r) ==
  /\ \E Obs : OneEpochEachOnce(r, Obs)
  /\ \A i \in 1 .. Len(r.obs) : IsObs(r.obs[i]) /\ r.obs[i].sat \in Sats

\* Throwing away an old epoch leaves a buffer of one epoch or none.
LEMMA Cleared ==
  ASSUME NEW r, IsRtcm(r), Buffer(r)
  PROVE  LET s == ClearOldEpoch(r)
         IN  IsRtcm(s) /\ Buffer(s) /\ SameRest(r, s) /\ (s.obs # <<>> => s.obstime = s.time)
<1> DEFINE s == ClearOldEpoch(r)
<1>1. HasBuffer(r)
  BY Zenon DEF HasBuffer, IsRtcm, Fields
<1>2. IsRtcm(s) /\ SameRest(r, s)
  BY DEF ClearOldEpoch, IsRtcm, SameRest, Fields, Rest
<1>3. \A Obs : OneEpochEachOnce(r, Obs) => OneEpochEachOnce(s, Obs)
  BY <1>1, BufferCleared, Zenon
<1>4. s.obs # <<>> => s.obstime = s.time
  BY <1>1, BufferCleared, Zenon DEF Buffer
<1>5. s.obs = r.obs \/ s.obs = <<>>
  BY DEF ClearOldEpoch, IsRtcm, Fields
<1> HIDE DEF s
<1>6. \A i \in 1 .. Len(s.obs) : IsObs(s.obs[i]) /\ s.obs[i].sat \in Sats
  BY <1>5, EmptySeq DEF Buffer
<1> QED BY <1>2, <1>3, <1>4, <1>6 DEF Buffer, s
\* A place for a satellite that the library knows.
LEMMA PlaceFound ==
  ASSUME NEW r, IsRtcm(r), Buffer(r), NEW sat \in Sats
  PROVE  LET i == obsindex(ClearOldEpoch(r), sat)
         IN  /\ IsRtcm(i.rtcm) /\ Buffer(i.rtcm) /\ SameRest(r, i.rtcm)
             /\ i.index # 0 => i.index \in 1 .. Len(i.rtcm.obs)
<1> DEFINE c == ClearOldEpoch(r)
           i == obsindex(c, sat)
           new == NoObs(c.time, sat)
<1>1. IsRtcm(c) /\ Buffer(c) /\ SameRest(r, c) /\ (c.obs # <<>> => c.obstime = c.time)
  BY Cleared
<1> HIDE DEF c
<1>2. HasBuffer(c)
  BY <1>1 DEF HasBuffer, IsRtcm, Fields
<1>3. PICK Old : OneEpochEachOnce(c, Old)
  BY <1>1 DEF Buffer
<1> DEFINE Obs == Old \union {new}
<1>4. OneEpochEachOnce(c, Obs)
  <2>1. c.obs \in Seq(Obs)
    BY <1>3 DEF OneEpochEachOnce
  <2> QED
    BY <1>3, <2>1, Zenon DEF OneEpochEachOnce
<1>5. OneEpochEachOnce(i.rtcm, Obs) /\ Placed(i, sat, c.time)
  <2>1. NoObs(c.time, sat) \in Obs
    OBVIOUS
  <2> HIDE DEF Obs
  <2> QED
    BY <1>1, <1>2, <1>4, <2>1, BufferExtended, Zenon
<1>6. IsRtcm(i.rtcm) /\ SameRest(c, i.rtcm)
  BY <1>1 DEF obsindex, IsRtcm, SameRest, Fields, Rest
<1>7. i.rtcm.obs = c.obs \/ i.rtcm.obs = Append(c.obs, new)
  <2> DEFINE e(v) == [c EXCEPT !.obs = Append(c.obs, new), !.obstime = v]
  <2>1. \A v : e(v).obs = Append(c.obs, new)
    BY <1>1 DEF IsRtcm, Fields
  <2>2. i.rtcm = c \/ i.rtcm = e(IF c.obs = <<>> THEN c.time ELSE c.obstime)
    BY DEF obsindex
  <2> HIDE DEF e
  <2> QED
    BY <2>1, <2>2
<1>8. IsObs(new) /\ new.sat = sat
  BY DEF NoObs, IsObs, ObsFields
<1> HIDE DEF i, new
<1>9. \A k \in 1 .. Len(i.rtcm.obs) : IsObs(i.rtcm.obs[k]) /\ i.rtcm.obs[k].sat \in Sats
  <2>1. CASE i.rtcm.obs = c.obs
    BY <1>1, <2>1 DEF Buffer
  <2>2. CASE i.rtcm.obs = Append(c.obs, new)
    <3>1. c.obs \in Seq(Obs) /\ new \in Obs
      BY <1>4 DEF OneEpochEachOnce
    <3>2. /\ Len(Append(c.obs, new)) = Len(c.obs) + 1 /\ Len(c.obs) \in Nat
          /\ Append(c.obs, new)[Len(c.obs) + 1] = new
          /\ \A k \in 1 .. Len(c.obs) : Append(c.obs, new)[k] = c.obs[k]
      BY <3>1, AppendProperties, LenProperties
    <3>3. \A k \in 1 .. Len(c.obs) + 1 : k \in 1 .. Len(c.obs) \/ k = Len(c.obs) + 1
      BY <3>2
    <3> QED
      BY <1>1, <1>8, <2>2, <3>2, <3>3 DEF Buffer
  <2> QED
    BY <1>7, <2>1, <2>2
<1>10. SameRest(r, i.rtcm)
  BY <1>1, <1>6 DEF SameRest
<1>11. i.index # 0 => i.index \in 1 .. Len(i.rtcm.obs)
  BY <1>5 DEF Placed
<1> QED
  BY <1>5, <1>6, <1>9, <1>10, <1>11 DEF Buffer, i, c

\* An observation of the buffer is changed in place.
LEMMA ObsChanged ==
  ASSUME NEW r, IsRtcm(r), Buffer(r), NEW index \in 1 .. Len(r.obs), NEW d,
         IsObs(d), d.sat = r.obs[index].sat, d.time = r.obs[index].time
  PROVE  LET s == [r EXCEPT !.obs[index] = d]
         IN  IsRtcm(s) /\ Buffer(s) /\ SameRest(r, s) /\ Len(s.obs) = Len(r.obs)
<1> DEFINE s == [r EXCEPT !.obs[index] = d]
<1>1. IsRtcm(s) /\ SameRest(r, s) /\ s.obs = [r.obs EXCEPT ![index] = d] /\ s.obstime = r.obstime
  BY DEF IsRtcm, SameRest, Fields, Rest
<1>2. PICK Old : OneEpochEachOnce(r, Old)
  BY DEF Buffer
<1>3. /\ s.obs \in Seq(Old \union {d}) /\ Len(s.obs) = Len(r.obs)
      /\ \A k \in 1 .. Len(r.obs) : s.obs[k] = IF k = index THEN d ELSE r.obs[k]
  BY <1>1, <1>2 DEF OneEpochEachOnce
<1> HIDE DEF s
<1>4. \A k \in 1 .. Len(r.obs) : s.obs[k].sat = r.obs[k].sat /\ s.obs[k].time = r.obs[k].time
  BY <1>3
<1>5. OneEpochEachOnce(s, Old \union {d})
  BY <1>1, <1>2, <1>3, <1>4, Zenon DEF OneEpochEachOnce
<1>6. \A k \in 1 .. Len(s.obs) : IsObs(s.obs[k]) /\ s.obs[k].sat \in Sats
  BY <1>3, <1>4, Zenon DEF Buffer
<1> QED
  BY <1>1, <1>3, <1>5, <1>6 DEF Buffer, s
\* The tables of phases and of lock times are written beside the buffer.
LEMMA TablesChanged ==
  ASSUME NEW r, IsRtcm(r), Buffer(r), NEW s, IsRtcm(s),
         \A f \in Fields \ {"cp", "lock"} : s[f] = r[f]
  PROVE  Buffer(s) /\ SameRest(r, s) /\ s.obs = r.obs
<1>1. s.obs = r.obs /\ s.obstime = r.obstime
  BY DEF Fields
<1>2. \A Obs : OneEpochEachOnce(r, Obs) => OneEpochEachOnce(s, Obs)
  BY <1>1 DEF OneEpochEachOnce
<1> QED
  BY <1>1, <1>2 DEF Buffer, SameRest, Rest

\* The lock time is kept, and nothing else.
LEMMA lossoflockKeeps ==
  ASSUME NEW r, IsRtcm(r), NEW sat, NEW k, NEW lock
  PROVE  LET s == lossoflock(r, sat, k, lock).rtcm
         IN  IsRtcm(s) /\ \A f \in Fields \ {"lock"} : s[f] = r[f]
BY DEF lossoflock, IsRtcm, Fields

\* The carrier phase is kept, and nothing else.
LEMMA adjcpKeeps ==
  ASSUME NEW r, IsRtcm(r), NEW sat, NEW k, NEW cp
  PROVE  LET s == adjcp(r, sat, k, cp).rtcm
         IN  IsRtcm(s) /\ \A f \in Fields \ {"cp"} : s[f] = r[f]
BY DEF adjcp, IsRtcm, Fields

\* One frequency of a legacy message writes the element of its satellite.
LEMMA SaveFreqKeeps ==
  ASSUME NEW r, IsRtcm(r), Buffer(r), NEW index \in 1 .. Len(r.obs), NEW k, NEW f
  PROVE  LET s == SaveFreq(r, index, k, f)
         IN  IsRtcm(s) /\ Buffer(s) /\ SameRest(r, s) /\ Len(s.obs) = Len(r.obs)
<1> DEFINE sat == r.obs[index].sat
           a == IF f.ppr # NoPhase THEN adjcp(r, sat, k, f.ppr) ELSE [cp |-> NoPhase, rtcm |-> r]
           l == lossoflock(a.rtcm, sat, k, f.lock)
           d == [r.obs[index] EXCEPT
                   !.P[k] = IF f.P # NoRange /\ (k = 0 => f.ppr # NoPhase) THEN f.P ELSE @,
                   !.L[k] = IF f.ppr # NoPhase THEN a.cp ELSE @,
                   !.LLI[k] = l.lli, !.code[k] = f.code]
<1>1. SaveFreq(r, index, k, f) = [l.rtcm EXCEPT !.obs[index] = d]
  BY Zenon DEF SaveFreq
<1>2. IsRtcm(a.rtcm) /\ \A x \in Fields \ {"cp"} : a.rtcm[x] = r[x]
  BY adjcpKeeps
<1>3. IsObs(d) /\ d.sat = r.obs[index].sat /\ d.time = r.obs[index].time
  <2>1. IsObs(r.obs[index])
    BY DEF Buffer
  <2> HIDE DEF a, l
  <2> QED
    BY <2>1, ZenonT(30) DEF IsObs, ObsFields
<1> HIDE DEF a, d
<1>4. IsRtcm(l.rtcm) /\ \A x \in Fields \ {"cp", "lock"} : l.rtcm[x] = r[x]
  BY <1>2, lossoflockKeeps
<1> HIDE DEF l
<1>5. Buffer(l.rtcm) /\ SameRest(r, l.rtcm) /\ l.rtcm.obs = r.obs
  BY <1>4, TablesChanged
<1>6. LET s == [l.rtcm EXCEPT !.obs[index] = d]
      IN  IsRtcm(s) /\ Buffer(s) /\ SameRest(l.rtcm, s) /\ Len(s.obs) = Len(l.rtcm.obs)
  BY SMTT(60), <1>3, <1>4, <1>5, ObsChanged
<1> QED
  BY <1>1, <1>5, <1>6 DEF SameRest

\* One cell of an MSM writes the element of its satellite.
LEMMA SaveCellKeeps ==
  ASSUME NEW r, IsRtcm(r), Buffer(r), NEW index \in 1 .. Len(r.obs),
         NEW slot, NEW code, NEW c, NEW wl
  PROVE  LET s == SaveCell(r, index, slot, code, c, wl)
         IN  IsRtcm(s) /\ Buffer(s) /\ SameRest(r, s) /\ Len(s.obs) = Len(r.obs)
<1> DEFINE l == lossoflock(r, r.obs[index].sat, slot, c.lock)
           d == [r.obs[index] EXCEPT !.P[slot] = IF c.P # NoRange THEN c.P ELSE @,
                                     !.L[slot] = IF c.L # NoPhase /\ wl THEN c.L ELSE @,
                                     !.LLI[slot] = l.lli + (IF c.half THEN 3 ELSE 0),
                                     !.code[slot] = code]
<1>1. SaveCell(r, index, slot, code, c, wl) = [l.rtcm EXCEPT !.obs[index] = d]
  BY Zenon DEF SaveCell
<1>2. IsObs(d) /\ d.sat = r.obs[index].sat /\ d.time = r.obs[index].time
  <2>1. IsObs(r.obs[index])
    BY DEF Buffer
  <2> HIDE DEF l
  <2> QED
    BY ZenonT(60), <2>1 DEF IsObs, ObsFields
<1> HIDE DEF d
<1>3. IsRtcm(l.rtcm) /\ \A x \in Fields \ {"cp", "lock"} : l.rtcm[x] = r[x]
  BY lossoflockKeeps
<1> HIDE DEF l
<1>4. Buffer(l.rtcm) /\ SameRest(r, l.rtcm) /\ l.rtcm.obs = r.obs
  BY <1>3, TablesChanged
<1>5. LET s == [l.rtcm EXCEPT !.obs[index] = d]
      IN  IsRtcm(s) /\ Buffer(s) /\ SameRest(l.rtcm, s) /\ Len(s.obs) = Len(l.rtcm.obs)
  BY SMTT(60), <1>2, <1>3, <1>4, ObsChanged
<1> QED
  BY <1>1, <1>4, <1>5 DEF SameRest

\* What decoding observations keeps: the structure, the buffer's order, and every
\* field that it does not write.
Kept(from, r) == IsRtcm(r) /\ Buffer(r) /\ SameRest(from, r)
KeptAt(from, index, r) == Kept(from, r) /\ index \in 1 .. Len(r.obs)

FreqPass(ctx, r, k) == SaveFreq(r, ctx.index, k - 1, ctx.freqs[k])
FreqGood(ctx, n, r) == KeptAt(ctx.from, ctx.index, r)
FreqLoop == INSTANCE Loops WITH Step <- FreqPass, Good <- FreqGood

\* What is kept of what was kept is kept.
LEMMA KeptFromKept ==
  ASSUME NEW r, NEW s, SameRest(r, s), NEW t, Kept(s, t)
  PROVE  Kept(r, t)
BY DEF Kept, SameRest

\* A pass of the loop over the frequencies keeps the buffer.
LEMMA FreqPassKeeps ==
  ASSUME NEW from, NEW r, NEW index, KeptAt(from, index, r), NEW k, NEW f
  PROVE  KeptAt(from, index, SaveFreq(r, index, k, f))
<1>1. IsRtcm(r) /\ Buffer(r) /\ index \in 1 .. Len(r.obs) /\ SameRest(from, r)
  BY DEF KeptAt, Kept
<1> DEFINE s == SaveFreq(r, index, k, f)
<1>2. IsRtcm(s) /\ Buffer(s) /\ SameRest(r, s) /\ Len(s.obs) = Len(r.obs)
  BY <1>1, SaveFreqKeeps
<1> HIDE DEF s
<1>3. SameRest(from, s)
  BY <1>1, <1>2 DEF SameRest
<1> QED
  BY <1>1, <1>2, <1>3 DEF KeptAt, Kept, s

\* One satellite of a legacy message gets its place, if there is one, and all
\* that is written is written there.
LEMMA SaveSatKeeps ==
  ASSUME NEW r, IsRtcm(r), Buffer(r), NEW sat \in Sats,
         NEW freqs, NEW n \in Nat, DOMAIN freqs = 1 .. n
  PROVE  Kept(r, SaveSat(r, sat, freqs))
<1> DEFINE x == obsindex(ClearOldEpoch(r), sat)
           ctx == [index |-> x.index, freqs |-> freqs, from |-> r]
           seq == [k \in DOMAIN freqs |-> k]
<1>1. /\ Kept(r, x.rtcm)
      /\ x.index # 0 => KeptAt(r, x.index, x.rtcm)
  BY PlaceFound DEF Kept, KeptAt
<1>2. CASE x.index = 0
  BY <1>1, <1>2 DEF SaveSat
<1>3. CASE x.index # 0
  <2>1. DOMAIN seq = 1 .. n
    OBVIOUS
  <2>2. FreqGood(ctx, 0, x.rtcm)
    BY <1>1, <1>3 DEF FreqGood
  <2>3. \A i \in 1 .. n : \A q : FreqGood(ctx, i - 1, q) => FreqGood(ctx, i, FreqPass(ctx, q, seq[i]))
    BY FreqPassKeeps DEF FreqGood, FreqPass
  <2>4. FreqGood(ctx, n, FreqLoop!Loop(ctx, x.rtcm, seq))
    BY <2>1, <2>2, <2>3, FreqLoop!LoopKeeps
  <2>5. SaveSat(r, sat, freqs) = FreqLoop!Loop(ctx, x.rtcm, seq)
    BY <1>3 DEF SaveSat, FreqPass, FreqLoop!Loop, FoldLeft, MapThenFoldSet, FreqLoop!Greatest, Max
  <2> QED
    BY <2>4, <2>5 DEF FreqGood, KeptAt
<1> QED
  BY <1>2, <1>3

SatsPass(ctx, r, j) ==
  IF Len(r.obs) >= MAXOBS \/ ctx.sats[j] = NoSat THEN r
  ELSE SaveSat(r, ctx.sats[j], ctx.freqs[j])
KeptGood(ctx, n, r) == Kept(ctx.from, r)
SatsLoop == INSTANCE Loops WITH Step <- SatsPass, Good <- KeptGood

\* The satellites of a legacy message leave the buffer as it must be, however
\* many there are.
LEMMA SaveSatsKeeps ==
  ASSUME NEW r, IsRtcm(r), Buffer(r), NEW msg, NEW head, NEW bits, NEW sats, NEW freqs,
         NEW len \in Nat, Len(msg.sats) = len, NEW n \in Nat,
         \A j \in 1 .. len : sats[j] \in Sats \union {NoSat} /\ DOMAIN freqs[j] = 1 .. n
  PROVE  Kept(r, SaveSats(r, msg, head, bits, sats, freqs))
<1> DEFINE room == {j \in 1 .. Len(msg.sats) : j <= msg.nsat /\ Fits(msg, head + bits * j)}
           ctx == [sats |-> sats, freqs |-> freqs, from |-> r]
           seq == [j \in 1 .. Cardinality(room) |-> j]
<1>1. Cardinality(room) \in Nat /\ Cardinality(room) <= len
  <2>1. IsFiniteSet(1 .. len) /\ Cardinality(1 .. len) = len
    BY FS_Interval
  <2>2. room \subseteq 1 .. len
    OBVIOUS
  <2> QED
    BY <2>1, <2>2, FS_Subset, FS_CardinalityType
<1>2. KeptGood(ctx, 0, r)
  BY DEF KeptGood, Kept, SameRest
<1>3. ASSUME NEW j \in 1 .. Cardinality(room), NEW q, KeptGood(ctx, j - 1, q)
      PROVE  KeptGood(ctx, j, SatsPass(ctx, q, seq[j]))
  <2>1. seq[j] = j /\ j \in 1 .. len
    BY <1>1
  <2>2. Kept(r, q) /\ IsRtcm(q) /\ Buffer(q) /\ SameRest(r, q)
    BY <1>3 DEF KeptGood, Kept
  <2>3. CASE Len(q.obs) >= MAXOBS \/ sats[j] = NoSat
    BY <2>1, <2>2, <2>3 DEF KeptGood, SatsPass
  <2>4. CASE ~(Len(q.obs) >= MAXOBS \/ sats[j] = NoSat)
    <3>1. SatsPass(ctx, q, seq[j]) = SaveSat(q, sats[j], freqs[j])
      BY <2>1, <2>4 DEF SatsPass
    <3>2. Kept(q, SaveSat(q, sats[j], freqs[j]))
      BY <2>1, <2>2, <2>4, SaveSatKeeps
    <3> QED
      BY <2>2, <3>1, <3>2, KeptFromKept DEF KeptGood
  <2> QED
    BY <2>3, <2>4
<1>4. DOMAIN seq = 1 .. Cardinality(room)
  OBVIOUS
<1>5. SaveSats(r, msg, head, bits, sats, freqs) = SatsLoop!Loop(ctx, r, seq)
  BY DEF SaveSats, SatsPass, SatsLoop!Loop, FoldLeft, MapThenFoldSet, SatsLoop!Greatest, Max
<1> HIDE DEF room, seq
<1>6. KeptGood(ctx, Cardinality(room), SatsLoop!Loop(ctx, r, seq))
  BY <1>1, <1>2, <1>3, <1>4, SatsLoop!LoopKeeps
<1> QED
  BY <1>5, <1>6 DEF KeptGood

\* A satellite of a legacy message is one there is a place for, or none.
LEMMA LegacySats ==
  /\ \A prn : GpsSat(prn) \in Sats \union {NoSat}
  /\ \A prn : GloSat(prn) \in Sats \union {NoSat}
BY DEF GpsSat, GloSat, satno

CellPass(ctx, r, k) ==
  IF <<ctx.i, k>> \in DOMAIN ctx.msg.cells /\ ctx.ind[k] >= 0
  THEN SaveCell(r, ctx.index, ctx.ind[k], ctx.msg.sigs[k], ctx.msg.cells[<<ctx.i, k>>],
                satwavelen(r, MsmSat(ctx.msg, ctx.sys, ctx.i)) \/ ctx.msg.info[ctx.i] \in 0 .. 13)
  ELSE r
CellLoop == INSTANCE Loops WITH Step <- CellPass, Good <- FreqGood

\* The cells of one satellite of an MSM.
LEMMA SaveCellsKeeps ==
  ASSUME NEW r, NEW from, NEW index, KeptAt(from, index, r), NEW msg, NEW sys, NEW ind, NEW i,
         NEW n \in Nat, DOMAIN msg.sigs = 1 .. n
  PROVE  KeptAt(from, index, SaveCells(r, msg, sys, ind, i, index))
<1> DEFINE ctx == [from |-> from, msg |-> msg, sys |-> sys, ind |-> ind, i |-> i, index |-> index]
           seq == [k \in DOMAIN msg.sigs |-> k]
<1>1. FreqGood(ctx, 0, r)
  BY DEF FreqGood
<1>2. ASSUME NEW k \in 1 .. n, NEW q, FreqGood(ctx, k - 1, q)
      PROVE  FreqGood(ctx, k, CellPass(ctx, q, seq[k]))
  <2>1. KeptAt(from, index, q) /\ seq[k] = k
    BY <1>2 DEF FreqGood
  <2>2. IsRtcm(q) /\ Buffer(q) /\ index \in 1 .. Len(q.obs) /\ SameRest(from, q)
    BY <2>1 DEF KeptAt, Kept
  <2>3. ASSUME NEW slot, NEW code, NEW c, NEW wl
        PROVE  KeptAt(from, index, SaveCell(q, index, slot, code, c, wl))
    <3> DEFINE s == SaveCell(q, index, slot, code, c, wl)
    <3>1. IsRtcm(s) /\ Buffer(s) /\ SameRest(q, s) /\ Len(s.obs) = Len(q.obs)
      BY <2>2, SaveCellKeeps
    <3> HIDE DEF s
    <3> QED
      BY <2>2, <3>1 DEF KeptAt, Kept, SameRest, s
  <2> QED
    BY <2>1, <2>3 DEF FreqGood, CellPass
<1>3. DOMAIN seq = 1 .. n
  OBVIOUS
<1>4. FreqGood(ctx, n, CellLoop!Loop(ctx, r, seq))
  BY <1>1, <1>2, <1>3, CellLoop!LoopKeeps
<1>5. SaveCells(r, msg, sys, ind, i, index) = CellLoop!Loop(ctx, r, seq)
  BY DEF SaveCells, CellPass, CellLoop!Loop, FoldLeft, MapThenFoldSet, Max, CellLoop!Greatest
<1> QED
  BY <1>4, <1>5 DEF FreqGood

MsmPass(ctx, r, i) ==
  LET sat == MsmSat(ctx.msg, ctx.sys, i)
      x == obsindex(ClearOldEpoch(r), sat)
  IN  CASE sat = NoSat -> r
        [] sat # NoSat /\ x.index = 0 -> x.rtcm
        [] OTHER -> SaveCells(x.rtcm, ctx.msg, ctx.sys, ctx.ind, i, x.index)
MsmLoop == INSTANCE Loops WITH Step <- MsmPass, Good <- KeptGood

\* save_msm_obs leaves the buffer as it must be, however many satellites and
\* cells the message has.
LEMMA save_msm_obsKeeps ==
  ASSUME NEW r, IsRtcm(r), Buffer(r), NEW msg, NEW sys, NEW ind,
         NEW m \in Nat, DOMAIN msg.sigs = 1 .. m, NEW n \in Nat, DOMAIN msg.sats = 1 .. n
  PROVE  Kept(r, save_msm_obs(r, msg, sys, ind))
<1> DEFINE ctx == [from |-> r, msg |-> msg, sys |-> sys, ind |-> ind]
           seq == [i \in DOMAIN msg.sats |-> i]
<1>1. KeptGood(ctx, 0, r)
  BY DEF KeptGood, Kept, SameRest
<1>2. ASSUME NEW i \in 1 .. n, NEW q, KeptGood(ctx, i - 1, q)
      PROVE  KeptGood(ctx, i, MsmPass(ctx, q, seq[i]))
  <2> DEFINE sat == MsmSat(msg, sys, i)
             x == obsindex(ClearOldEpoch(q), sat)
  <2>1. IsRtcm(q) /\ Buffer(q) /\ SameRest(r, q) /\ Kept(r, q) /\ seq[i] = i
    BY <1>2 DEF KeptGood, Kept
  <2>2. CASE sat = NoSat
    BY <2>1, <2>2 DEF KeptGood, MsmPass
  <2>3. CASE sat # NoSat
    <3>1. sat \in Sats
      BY <2>3 DEF MsmSat, satno
    <3>2. Kept(q, x.rtcm) /\ (x.index # 0 => KeptAt(q, x.index, x.rtcm))
      BY <2>1, <3>1, PlaceFound DEF Kept, KeptAt
    <3>3. CASE x.index = 0
      BY <2>1, <2>3, <3>2, <3>3, KeptFromKept DEF KeptGood, MsmPass
    <3>4. CASE x.index # 0
      <4>1. KeptAt(q, x.index, SaveCells(x.rtcm, msg, sys, ind, i, x.index))
        BY <3>2, <3>4, SaveCellsKeeps
      <4>2. MsmPass(ctx, q, seq[i]) = SaveCells(x.rtcm, msg, sys, ind, i, x.index)
        BY <2>1, <2>3, <3>4 DEF MsmPass
      <4> QED
        BY <2>1, <4>1, <4>2, KeptFromKept DEF KeptAt, KeptGood
    <3> QED
      BY <3>3, <3>4
  <2> QED
    BY <2>2, <2>3
<1>3. DOMAIN seq = 1 .. n
  OBVIOUS
<1>4. KeptGood(ctx, n, MsmLoop!Loop(ctx, r, seq))
  BY <1>1, <1>2, <1>3, MsmLoop!LoopKeeps
<1>5. save_msm_obs(r, msg, sys, ind) = MsmLoop!Loop(ctx, r, seq)
  BY DEF save_msm_obs, MsmPass, MsmLoop!Loop, FoldLeft, MapThenFoldSet, Max, MsmLoop!Greatest
<1> QED
  BY <1>4, <1>5 DEF KeptGood

-----------------------------------------------------------------------------
(* The times of messages, and the messages of observations.                *)

\* What the decoder may rely on of its rtcm_t, and leaves of it.
Sound(r) ==
  /\ IsRtcm(r) /\ Buffer(r)
  /\ r.time \in Int /\ r.clock \in Int
  /\ r.ephsat \in Sats \union {NoSat}
Loose(r, s) == Sound(s) /\ s.opt = r.opt /\ s.clock = r.clock
Follows(r, s) ==
  /\ Sound(s) /\ s.opt = r.opt /\ s.clock = r.clock
  /\ s.ssr = r.ssr /\ s.eph = r.eph /\ s.geph = r.geph

\* A message was decoded.  Its time is t, or stays if it was refused; what may
\* change beside that are corrections, or ephemerides, or neither.
Heard(r, i) == i.ret \in {-1, 0, 1, 2, 5, 10} /\ Loose(r, i.rtcm)
After(r, i) == i.ret \in {-1, 0, 1, 2, 5, 10} /\ Follows(r, i.rtcm)
AfterAt(r, i, t) ==
  After(r, i) /\ (i.ret >= 0 => i.rtcm.time = t) /\ i.rtcm.time \in {r.time, t}
HeardAt(r, i, t) ==
  /\ Heard(r, i) /\ (i.ret >= 0 => i.rtcm.time = t) /\ i.rtcm.time \in {r.time, t}
  /\ i.rtcm.eph = r.eph /\ i.rtcm.geph = r.geph
NavHeard(r, i) ==
  Heard(r, i) /\ i.rtcm.ssr = r.ssr /\ i.rtcm.time \in {r.time, Known(r)}

\* Tables and the time may be written: the buffer stays.
LEMMA Written ==
  ASSUME NEW r, Sound(r), NEW s, IsRtcm(s), s.time \in Int, s.ephsat \in Sats \union {NoSat},
         \A f \in {"obs", "obstime", "clock", "opt"} : s[f] = r[f]
  PROVE  Loose(r, s) /\ (s.ssr = r.ssr /\ s.eph = r.eph /\ s.geph = r.geph => Follows(r, s))
<1>1. s.obs = r.obs /\ s.obstime = r.obstime /\ s.clock = r.clock /\ s.opt = r.opt
  OBVIOUS
<1>2. \A Obs : OneEpochEachOnce(r, Obs) => OneEpochEachOnce(s, Obs)
  BY <1>1 DEF OneEpochEachOnce
<1>3. Buffer(s)
  BY <1>1, <1>2 DEF Buffer, Sound
<1> QED
  BY <1>1, <1>3 DEF Sound, Loose, Follows

\* What only observations, corrections and ephemerides change.
Lasting == {"obs", "obstime", "clock", "opt", "ssr", "eph", "geph"}
EphWritten(r, s) == Loose(r, s) /\ s.ssr = r.ssr /\ s.time = r.time

\* The time, the station and ids may be written: the buffer and the tables stay.
LEMMA WrittenFollows ==
  ASSUME NEW r, Sound(r), NEW s, IsRtcm(s), s.time \in Int, s.ephsat \in Sats \union {NoSat},
         \A f \in Lasting : s[f] = r[f]
  PROVE  Follows(r, s)
<1>1. s.ssr = r.ssr /\ s.eph = r.eph /\ s.geph = r.geph
      /\ \A f \in {"obs", "obstime", "clock", "opt"} : s[f] = r[f]
  BY DEF Lasting
<1> QED
  BY <1>1, Written

\* What the observations leave of the structure is sound.
LEMMA KeptFollows ==
  ASSUME NEW r, Sound(r), NEW s, Kept(r, s)
  PROVE  Follows(r, s) /\ s.time = r.time
<1>1. s.time = r.time /\ s.clock = r.clock /\ s.opt = r.opt /\ s.ephsat = r.ephsat
      /\ s.ssr = r.ssr /\ s.eph = r.eph /\ s.geph = r.geph
  BY DEF Kept, SameRest, Rest, Fields
<1> QED
  BY <1>1 DEF Kept, Sound, Follows

\* One call after another.
LEMMA FollowsOn ==
  ASSUME NEW r, NEW s, Follows(r, s), NEW t, Follows(s, t)
  PROVE  Follows(r, t)
BY DEF Follows

\* What is loose after a sound start is loose.
LEMMA LooseOn ==
  ASSUME NEW r, NEW s, NEW t
  PROVE  /\ Follows(r, s) => Loose(r, s)
         /\ Loose(r, s) /\ Loose(s, t) => Loose(r, t)
BY DEF Follows, Loose

\* The parts of a time are whole numbers.
LEMMA TimesAreIntegers ==
  ASSUME NEW x \in Int
  PROVE  /\ Tow(x) \in Int /\ WeekOf(x) \in Int /\ Tow(x) % Day \in Int
         /\ GlonassDay(x) \in Int /\ utc2gpst(x) \in Int /\ utc2gpst(x - MoscowOffset) \in Int
         /\ \A p \in Int : Near(x, p, Week) \in Int /\ Near(x, p, Day) \in Int
         /\ \A w \in Int : gpst2time(w, x) \in Int
<1>1. Tow(x) \in Int /\ WeekOf(x) \in Int
  BY WeekAndTow
<1>2. \A y \in Int : y % Day \in Int
  BY DEF Day
<1>3. GlonassDay(x) \in Int /\ utc2gpst(x) \in Int /\ utc2gpst(x - MoscowOffset) \in Int
  BY DEF GlonassDay, gpst2utc, utc2gpst, Leaps, MoscowOffset
<1>4. \A p \in Int : Near(x, p, Week) \in Int /\ Near(x, p, Day) \in Int
  BY DEF Near, Week, Day
<1>5. \A w \in Int : gpst2time(w, x) \in Int
  BY DEF gpst2time, Week
<1> QED
  BY <1>1, <1>2, <1>3, <1>4, <1>5

\* What a time of week or of day becomes when the known time is k.
WeekTime(k, tow) == gpst2time(WeekOf(k), Near(tow, Tow(k), Week))
DayTime(k, tod) ==
  LET day == GlonassDay(k)
  IN  utc2gpst(gpst2time(WeekOf(day), Tow(day) - Tod(day) + Near(tod, Tod(day), Day))
               - MoscowOffset)

\* What adjweek and adjday_glot find is a time.
LEMMA ResolvedIsInteger ==
  ASSUME NEW k \in Int, NEW x \in Int
  PROVE  WeekTime(k, x) \in Int /\ DayTime(k, x) \in Int
<1>1. WeekTime(k, x) \in Int
  BY TimesAreIntegers DEF WeekTime
<1> DEFINE day == GlonassDay(k)
           glot == gpst2time(WeekOf(day), Tow(day) - Tod(day) + Near(x, Tod(day), Day))
<1>2. day \in Int /\ Tow(day) \in Int /\ WeekOf(day) \in Int /\ Tod(day) \in Int
  BY TimesAreIntegers DEF Tod
<1>3. Near(x, Tod(day), Day) \in Int
  BY <1>2, TimesAreIntegers
<1>4. Tow(day) - Tod(day) + Near(x, Tod(day), Day) \in Int
  BY <1>2, <1>3
<1>5. glot \in Int
  BY <1>2, <1>4, TimesAreIntegers
<1>6. \A y \in Int : utc2gpst(y - MoscowOffset) \in Int
  BY TimesAreIntegers
<1>7. DayTime(k, x) = utc2gpst(glot - MoscowOffset)
  BY DEF DayTime
<1> QED
  BY <1>1, <1>5, <1>6, <1>7

\* The clock is read if there is no time yet.
LEMMA ClockStarted ==
  ASSUME NEW r, Sound(r)
  PROVE  LET s == StartClock(r)
         IN  /\ IsRtcm(s) /\ s.time = Known(r) /\ s.time \in Int
             /\ \A f \in Fields \ {"time"} : s[f] = r[f]
<1>1. utc2gpst(r.clock) \in Int
  BY TimesAreIntegers DEF Sound
<1> QED
  BY <1>1 DEF StartClock, IsRtcm, Fields, Sound, Known

\* Setting the time leaves the other fields.
LEMMA TimeSetKeeps ==
  ASSUME NEW r, IsRtcm(r), NEW t
  PROVE  LET s == [r EXCEPT !.time = t]
         IN  IsRtcm(s) /\ s.time = t /\ \A f \in Fields \ {"time"} : s[f] = r[f]
BY DEF IsRtcm, Fields

\* adjweek sets the time to the nearest with this time of week.
LEMMA WeekAdjusted ==
  ASSUME NEW r, Sound(r), NEW tow \in Int
  PROVE  LET s == adjweek(r, tow)
         IN  /\ Follows(r, s) /\ s.time = WeekTime(Known(r), tow)
             /\ \A f \in Fields \ {"time"} : s[f] = r[f]
<1> DEFINE c == StartClock(r)
           t == WeekTime(Known(r), tow)
<1>1. /\ IsRtcm(c) /\ c.time = Known(r) /\ c.time \in Int
      /\ \A f \in Fields \ {"time"} : c[f] = r[f]
  BY ClockStarted
<1>2. t \in Int
  BY <1>1, ResolvedIsInteger
<1>3. adjweek(r, tow) = [c EXCEPT !.time = t]
  BY <1>1 DEF adjweek, WeekTime
<1> HIDE DEF c, t
<1> DEFINE s == [c EXCEPT !.time = t]
<1>4. IsRtcm(s) /\ s.time = t /\ \A f \in Fields \ {"time"} : s[f] = c[f]
  BY <1>1, TimeSetKeeps
<1> HIDE DEF s
<1>5. \A f \in Fields \ {"time"} : s[f] = r[f]
  BY <1>1, <1>4
<1>6. s.ephsat = r.ephsat /\ \A f \in Lasting : s[f] = r[f]
  BY <1>5 DEF Fields, Lasting
<1>7. Follows(r, s)
  BY <1>2, <1>4, <1>6, WrittenFollows DEF Sound
<1> QED
  BY <1>3, <1>4, <1>5, <1>7 DEF s, t

\* adjday_glot sets the time to the nearest with this time of day in Moscow.
LEMMA DayAdjusted ==
  ASSUME NEW r, Sound(r), NEW tod \in Int
  PROVE  LET s == adjday_glot(r, tod)
         IN  /\ Follows(r, s) /\ s.time = DayTime(Known(r), tod)
             /\ \A f \in Fields \ {"time"} : s[f] = r[f]
<1> DEFINE c == StartClock(r)
           t == DayTime(Known(r), tod)
<1>1. /\ IsRtcm(c) /\ c.time = Known(r) /\ c.time \in Int
      /\ \A f \in Fields \ {"time"} : c[f] = r[f]
  BY ClockStarted
<1>2. t \in Int
  BY <1>1, ResolvedIsInteger
<1>3. adjday_glot(r, tod) = [c EXCEPT !.time = t]
  BY <1>1 DEF adjday_glot, DayTime, Tod
<1> HIDE DEF c, t
<1> DEFINE s == [c EXCEPT !.time = t]
<1>4. IsRtcm(s) /\ s.time = t /\ \A f \in Fields \ {"time"} : s[f] = c[f]
  BY <1>1, TimeSetKeeps
<1> HIDE DEF s
<1>5. \A f \in Fields \ {"time"} : s[f] = r[f]
  BY <1>1, <1>4
<1>6. s.ephsat = r.ephsat /\ \A f \in Lasting : s[f] = r[f]
  BY <1>5 DEF Fields, Lasting
<1>7. Follows(r, s)
  BY <1>2, <1>4, <1>6, WrittenFollows DEF Sound
<1> QED
  BY <1>3, <1>4, <1>5, <1>7 DEF s, t

\* test_staid refuses a station that was not chosen, or notes its id.
LEMMA StationTested ==
  ASSUME NEW r, Sound(r), NEW staid
  PROVE  LET t == test_staid(r, staid)
         IN  /\ Follows(r, t.rtcm) /\ t.ok \in BOOLEAN
             /\ \A f \in Fields \ {"staid"} : t.rtcm[f] = r[f]
<1> DEFINE t == test_staid(r, staid)
<1>1. \E v : t.rtcm = r \/ t.rtcm = [r EXCEPT !.staid = v]
  BY Zenon DEF test_staid
<1>2. IsRtcm(t.rtcm) /\ \A f \in Fields \ {"staid"} : t.rtcm[f] = r[f]
  <2> HIDE DEF t
  <2> QED
    BY <1>1 DEF IsRtcm, Fields, Sound
<1>3. t.ok \in BOOLEAN
  BY DEF test_staid
<1> HIDE DEF t
<1>4. t.rtcm.time = r.time /\ t.rtcm.ephsat = r.ephsat
      /\ \A f \in Lasting : t.rtcm[f] = r[f]
  BY <1>2 DEF Fields, Lasting
<1>5. Follows(r, t.rtcm)
  BY <1>2, <1>4, WrittenFollows DEF Sound
<1> QED
  BY <1>2, <1>3, <1>5 DEF t

\* The end of an epoch is answered with 0 or 1.
LEMMA EndOfEpochKeeps ==
  ASSUME NEW r, Sound(r), NEW sync \in BOOLEAN
  PROVE  LET i == EndOfEpoch(r, sync)
         IN  i.ret \in {0, 1} /\ Follows(r, i.rtcm) /\ i.rtcm.time = r.time
<1> DEFINE s == [r EXCEPT !.obsflag = ~sync]
<1>1. IsRtcm(s) /\ \A f \in Fields \ {"obsflag"} : s[f] = r[f]
  BY DEF IsRtcm, Fields, Sound
<1>2. EndOfEpoch(r, sync).rtcm = s /\ EndOfEpoch(r, sync).ret \in {0, 1}
  BY DEF EndOfEpoch, HandOver
<1> HIDE DEF s
<1>3. s.time = r.time /\ s.ephsat = r.ephsat
      /\ \A f \in Lasting : s[f] = r[f]
  BY <1>1 DEF Fields, Lasting
<1>4. Follows(r, s)
  BY <1>1, <1>3, WrittenFollows DEF Sound
<1> QED
  BY <1>2, <1>3, <1>4

\* What a message with a time and one with satellites have.
HasEpoch(msg) ==
  /\ {"epoch", "sync"} \subseteq DOMAIN msg
  /\ msg.epoch \in Int /\ msg.sync \in BOOLEAN
HasSats(msg) ==
  /\ "sats" \in DOMAIN msg
  /\ \E n \in Nat : Len(msg.sats) = n /\ DOMAIN msg.sats = 1 .. n

\* Of the same time and clock, the same time is known.
LEMMA KnownFollows ==
  ASSUME NEW r, NEW s, s.time = r.time, Follows(r, s)
  PROVE  Known(s) = Known(r)
BY DEF Known, Follows

\* The fields that the time and the buffer live in.
LEMMA TimeInFields == {"time", "clock", "opt", "staid", "obs", "obstime"} \subseteq Fields
BY DEF Fields

\* The head of a legacy GPS message sets the time, or refuses the message.
LEMMA Head1001 ==
  ASSUME NEW r, Sound(r), NEW msg, HasEpoch(msg)
  PROVE  LET h == decode_head1001(r, msg)
         IN  h.ret \in {-1, 0} /\ AfterAt(r, h, WeekTime(Known(r), msg.epoch))
<1> DEFINE t == test_staid(r, msg.staid)
           a == adjweek(t.rtcm, msg.epoch)
<1>1. Follows(r, t.rtcm) /\ t.rtcm.time = r.time /\ Sound(t.rtcm)
  BY StationTested, TimeInFields DEF Follows
<1>2. decode_head1001(r, msg) \in {Error(r), Error(t.rtcm), Nothing(a)}
  BY DEF decode_head1001
<1> HIDE DEF t
<1>3. Follows(r, a) /\ a.time = WeekTime(Known(r), msg.epoch)
  BY <1>1, WeekAdjusted, FollowsOn, KnownFollows DEF HasEpoch
<1>4. Follows(r, r)
  BY DEF Follows
<1> HIDE DEF a
<1> QED
  BY <1>1, <1>2, <1>3, <1>4 DEF AfterAt, After, Error, Nothing

\* The head of a legacy GLONASS message sets the time, or refuses the message.
LEMMA Head1009 ==
  ASSUME NEW r, Sound(r), NEW msg, HasEpoch(msg)
  PROVE  LET h == decode_head1009(r, msg)
         IN  h.ret \in {-1, 0} /\ AfterAt(r, h, DayTime(Known(r), msg.epoch))
<1> DEFINE t == test_staid(r, msg.staid)
           a == adjday_glot(t.rtcm, msg.epoch)
<1>1. Follows(r, t.rtcm) /\ t.rtcm.time = r.time /\ Sound(t.rtcm)
  BY StationTested, TimeInFields DEF Follows
<1>2. decode_head1009(r, msg) \in {Error(r), Error(t.rtcm), Nothing(a)}
  BY DEF decode_head1009
<1> HIDE DEF t
<1>3. Follows(r, a) /\ a.time = DayTime(Known(r), msg.epoch)
  BY <1>1, DayAdjusted, FollowsOn, KnownFollows DEF HasEpoch
<1>4. Follows(r, r)
  BY DEF Follows
<1> HIDE DEF a
<1> QED
  BY <1>1, <1>2, <1>3, <1>4 DEF AfterAt, After, Error, Nothing

\* A head that was taken, and then the end of the message.
LEMMA HeadThenEnd ==
  ASSUME NEW r, NEW h, NEW t, h.ret \in {-1, 0}, AfterAt(r, h, t), NEW sync \in BOOLEAN,
         NEW s, h.ret = 0 => Kept(h.rtcm, s)
  PROVE  AfterAt(r, IF h.ret < 0 THEN h ELSE EndOfEpoch(s, sync), t)
<1>1. CASE h.ret < 0
  BY <1>1
<1>2. CASE ~ h.ret < 0
  <2>1. h.ret = 0 /\ Follows(r, h.rtcm) /\ Sound(h.rtcm) /\ h.rtcm.time = t
    BY <1>2 DEF AfterAt, After, Follows
  <2>2. Follows(h.rtcm, s) /\ s.time = t /\ Sound(s)
    BY <2>1, KeptFollows DEF Follows
  <2> DEFINE i == EndOfEpoch(s, sync)
  <2>3. i.ret \in {0, 1} /\ Follows(s, i.rtcm) /\ i.rtcm.time = s.time
    BY <2>2, EndOfEpochKeeps
  <2> HIDE DEF i
  <2>4. AfterAt(r, i, t)
    BY <2>1, <2>2, <2>3, FollowsOn DEF AfterAt, After
  <2> QED
    BY <1>2, <2>4 DEF i
<1> QED
  BY <1>1, <1>2

\* The same where the type leaves obsflag as it is.
LEMMA HeadThenHandOver ==
  ASSUME NEW r, NEW h, NEW t, h.ret \in {-1, 0}, AfterAt(r, h, t), NEW sync \in BOOLEAN,
         NEW s, h.ret = 0 => Kept(h.rtcm, s)
  PROVE  AfterAt(r, IF h.ret < 0 THEN h ELSE HandOver(s, sync), t)
<1>1. CASE h.ret < 0
  BY <1>1
<1>2. CASE ~ h.ret < 0
  <2>1. h.ret = 0 /\ Follows(r, h.rtcm) /\ Sound(h.rtcm) /\ h.rtcm.time = t
    BY <1>2 DEF AfterAt, After, Follows
  <2>2. Follows(r, s) /\ s.time = t
    BY <2>1, KeptFollows, FollowsOn
  <2> QED
    BY <1>2, <2>2 DEF AfterAt, After, HandOver
<1> QED
  BY <1>1, <1>2

\* Nothing written is nothing lost.
LEMMA KeptItself ==
  ASSUME NEW r, Sound(r)
  PROVE  Kept(r, r)
BY DEF Kept, SameRest, Sound

\* The satellites of a legacy message, with as many frequencies each.
LEMMA LegacyKept ==
  ASSUME NEW r, Sound(r), NEW msg, HasSats(msg), NEW head, NEW bits, NEW sats, NEW freqs,
         NEW n \in Nat, \A j \in DOMAIN msg.sats : DOMAIN freqs[j] = 1 .. n,
         \A j \in DOMAIN msg.sats : sats[j] \in Sats \union {NoSat}
  PROVE  Kept(r, SaveSats(r, msg, head, bits, sats, freqs))
BY SaveSatsKeeps DEF Sound, HasSats

\* The legacy messages of observations.
LEMMA LegacyDecoded ==
  ASSUME NEW r, Sound(r), NEW msg, HasEpoch(msg)
  PROVE  /\ AfterAt(r, decode_type1001(r, msg), WeekTime(Known(r), msg.epoch))
         /\ AfterAt(r, decode_type1003(r, msg), WeekTime(Known(r), msg.epoch))
         /\ AfterAt(r, decode_type1009(r, msg), DayTime(Known(r), msg.epoch))
         /\ AfterAt(r, decode_type1011(r, msg), DayTime(Known(r), msg.epoch))
         /\ HasSats(msg) =>
              /\ AfterAt(r, decode_type1002(r, msg), WeekTime(Known(r), msg.epoch))
              /\ AfterAt(r, decode_type1004(r, msg), WeekTime(Known(r), msg.epoch))
              /\ AfterAt(r, decode_type1010(r, msg), DayTime(Known(r), msg.epoch))
              /\ AfterAt(r, decode_type1012(r, msg), DayTime(Known(r), msg.epoch))
<1> DEFINE g == decode_head1001(r, msg)
           h == decode_head1009(r, msg)
           w == WeekTime(Known(r), msg.epoch)
           d == DayTime(Known(r), msg.epoch)
<1>1. g.ret \in {-1, 0} /\ AfterAt(r, g, w) /\ msg.sync \in BOOLEAN /\ Sound(g.rtcm)
  BY Head1001 DEF HasEpoch, AfterAt, After, Follows
<1>2. h.ret \in {-1, 0} /\ AfterAt(r, h, d) /\ Sound(h.rtcm)
  BY Head1009 DEF HasEpoch, AfterAt, After, Follows
<1>3. Kept(g.rtcm, g.rtcm) /\ Kept(h.rtcm, h.rtcm)
  BY <1>1, <1>2, KeptItself
<1> HIDE DEF w, d
<1>4. /\ decode_type1001(r, msg) = (IF g.ret < 0 THEN g ELSE EndOfEpoch(g.rtcm, msg.sync))
      /\ decode_type1003(r, msg) = (IF g.ret < 0 THEN g ELSE EndOfEpoch(g.rtcm, msg.sync))
      /\ decode_type1009(r, msg) = (IF h.ret < 0 THEN h ELSE EndOfEpoch(h.rtcm, msg.sync))
      /\ decode_type1011(r, msg) = (IF h.ret < 0 THEN h ELSE EndOfEpoch(h.rtcm, msg.sync))
  BY DEF decode_type1001, decode_type1003, decode_type1009, decode_type1011
<1> HIDE DEF g, h
<1>5. AfterAt(r, IF g.ret < 0 THEN g ELSE EndOfEpoch(g.rtcm, msg.sync), w)
  BY <1>1, <1>3, HeadThenEnd
<1>6. AfterAt(r, IF h.ret < 0 THEN h ELSE EndOfEpoch(h.rtcm, msg.sync), d)
  BY <1>1, <1>2, <1>3, HeadThenEnd
<1>7. ASSUME HasSats(msg)
      PROVE  /\ AfterAt(r, decode_type1002(r, msg), w)
             /\ AfterAt(r, decode_type1004(r, msg), w)
             /\ AfterAt(r, decode_type1010(r, msg), d)
             /\ AfterAt(r, decode_type1012(r, msg), d)
  <2> DEFINE gps1 == [j \in DOMAIN msg.sats |-> <<GpsL1(msg.sats[j])>>]
             gps2 == [j \in DOMAIN msg.sats |-> <<GpsL1(msg.sats[j]), GpsL2(msg.sats[j])>>]
             glo1 == [j \in DOMAIN msg.sats |-> <<GloL1(msg.sats[j])>>]
             glo2 == [j \in DOMAIN msg.sats |-> <<GloL1(msg.sats[j]), GloL2(msg.sats[j])>>]
  <2>1. \A j \in DOMAIN msg.sats : GpsSats(msg)[j] \in Sats \union {NoSat}
                                   /\ GloSats(msg)[j] \in Sats \union {NoSat}
    BY LegacySats DEF GpsSats, GloSats
  <2>2. \A j \in DOMAIN msg.sats : DOMAIN gps1[j] = 1 .. 1 /\ DOMAIN glo1[j] = 1 .. 1
    OBVIOUS
  <2>3. \A j \in DOMAIN msg.sats : DOMAIN gps2[j] = 1 .. 2 /\ DOMAIN glo2[j] = 1 .. 2
    OBVIOUS
  <2>4. /\ decode_type1002(r, msg) =
             IF g.ret < 0 THEN g
             ELSE HandOver(SaveSats(g.rtcm, msg, 64, 74, GpsSats(msg), gps1), msg.sync)
        /\ decode_type1004(r, msg) =
             IF g.ret < 0 THEN g
             ELSE EndOfEpoch(SaveSats(g.rtcm, msg, 64, 125, GpsSats(msg), gps2), msg.sync)
        /\ decode_type1010(r, msg) =
             IF h.ret < 0 THEN h
             ELSE HandOver(SaveSats(h.rtcm, msg, 61, 79, GloSats(msg), glo1), msg.sync)
        /\ decode_type1012(r, msg) =
             IF h.ret < 0 THEN h
             ELSE EndOfEpoch(SaveSats(h.rtcm, msg, 61, 130, GloSats(msg), glo2), msg.sync)
    BY DEF decode_type1002, decode_type1004, decode_type1010, decode_type1012, g, h
  <2> HIDE DEF gps1, gps2, glo1, glo2
  <2>5. Kept(g.rtcm, SaveSats(g.rtcm, msg, 64, 74, GpsSats(msg), gps1))
    BY <1>1, <1>7, <2>1, <2>2, LegacyKept
  <2>6. Kept(g.rtcm, SaveSats(g.rtcm, msg, 64, 125, GpsSats(msg), gps2))
    BY ZenonT(60), <1>1, <1>7, <2>1, <2>3, LegacyKept
  <2>7. Kept(h.rtcm, SaveSats(h.rtcm, msg, 61, 79, GloSats(msg), glo1))
    BY <1>2, <1>7, <2>1, <2>2, LegacyKept
  <2>8. Kept(h.rtcm, SaveSats(h.rtcm, msg, 61, 130, GloSats(msg), glo2))
    BY <1>2, <1>7, <2>1, <2>3, LegacyKept
  <2>9. AfterAt(r, decode_type1002(r, msg), w)
    BY <1>1, <2>4, <2>5, HeadThenHandOver
  <2>10. AfterAt(r, decode_type1004(r, msg), w)
    BY <1>1, <2>4, <2>6, HeadThenEnd
  <2>11. AfterAt(r, decode_type1010(r, msg), d)
    BY <1>1, <1>2, <2>4, <2>7, HeadThenHandOver
  <2>12. AfterAt(r, decode_type1012(r, msg), d)
    BY <1>1, <1>2, <2>4, <2>8, HeadThenEnd
  <2> QED
    BY <2>9, <2>10, <2>11, <2>12
<1> QED
  BY <1>4, <1>5, <1>6, <1>7 DEF w, d

MsmTime(k, msg, sys) ==
  CASE sys = "GLO" -> DayTime(k, msg.epoch)
    [] sys = "CMP" -> WeekTime(k, msg.epoch + 14)
    [] OTHER       -> WeekTime(k, msg.epoch)
HasSigs(msg) == \E n \in Nat : DOMAIN msg.sigs = 1 .. n

\* The head of an MSM sets the time, or refuses the message.
LEMMA MsmHead ==
  ASSUME NEW r, Sound(r), NEW msg, HasEpoch(msg), NEW sys
  PROVE  LET h == decode_msm_head(r, msg, sys)
         IN  h.ret \in {-1, 0} /\ AfterAt(r, h, MsmTime(Known(r), msg, sys))
<1> DEFINE a == CASE sys = "GLO" -> adjday_glot(r, msg.epoch)
                  [] sys = "CMP" -> adjweek(r, msg.epoch + 14)
                  [] OTHER       -> adjweek(r, msg.epoch)
           t == test_staid(a, msg.staid)
<1>1. decode_msm_head(r, msg, sys) \in {Error(r), Error(t.rtcm), Nothing(t.rtcm)}
  BY DEF decode_msm_head
<1>2. Follows(r, a) /\ a.time = MsmTime(Known(r), msg, sys)
  BY WeekAdjusted, DayAdjusted DEF HasEpoch, MsmTime
<1> HIDE DEF a
<1>3. Follows(r, t.rtcm) /\ t.rtcm.time = a.time
  BY <1>2, StationTested, TimeInFields, FollowsOn DEF Follows
<1>4. Follows(r, r)
  BY DEF Follows
<1> HIDE DEF t
<1> QED
  BY <1>1, <1>2, <1>3, <1>4 DEF AfterAt, After, Error, Nothing

\* MSM 1 to 3 set the time; MSM 4 to 7 fill the buffer as well.
LEMMA MsmDecoded ==
  ASSUME NEW r, Sound(r), NEW msg, HasEpoch(msg), NEW sys, NEW kind \in 1 .. 7,
         kind >= 4 => HasSats(msg) /\ HasSigs(msg)
  PROVE  AfterAt(r, decode_msm(r, msg, sys, kind), MsmTime(Known(r), msg, sys))
<1> DEFINE h == decode_msm_head(r, msg, sys)
           t == MsmTime(Known(r), msg, sys)
<1>1. h.ret \in {-1, 0} /\ AfterAt(r, h, t) /\ msg.sync \in BOOLEAN /\ Sound(h.rtcm)
  BY MsmHead DEF HasEpoch, AfterAt, After, Follows
<1> HIDE DEF t
<1>2. AfterAt(r, decode_msm0(r, msg, sys), t)
  <2>1. decode_msm0(r, msg, sys) = IF h.ret < 0 THEN h ELSE EndOfEpoch(h.rtcm, msg.sync)
    BY DEF decode_msm0
  <2> HIDE DEF h
  <2> QED
    BY <1>1, <2>1, KeptItself, HeadThenEnd
<1>3. ASSUME NEW satbits, NEW cellbits, HasSats(msg), HasSigs(msg)
      PROVE  AfterAt(r, DecodeMsm(r, msg, sys, satbits, cellbits), t)
  <2> DEFINE s == save_msm_obs(h.rtcm, msg, sys, sigindex(sys, msg.sigs, h.rtcm.opt))
             fits == Fits(msg, 169 + Len(msg.sats) * Len(msg.sigs)
                                + (Len(msg.sats) * satbits
                                   + Cardinality(DOMAIN msg.cells) * cellbits))
  <2>0. DecodeMsm(r, msg, sys, satbits, cellbits) =
          CASE h.ret < 0 -> h
            [] h.ret >= 0 /\ ~fits -> Error(h.rtcm)
            [] OTHER -> EndOfEpoch(s, msg.sync)
    BY Zenon DEF DecodeMsm
  <2> HIDE DEF h, s, fits
  <2>1. \/ DecodeMsm(r, msg, sys, satbits, cellbits) =
             IF h.ret < 0 THEN h ELSE EndOfEpoch(s, msg.sync)
        \/ DecodeMsm(r, msg, sys, satbits, cellbits) = Error(h.rtcm)
    BY <1>1, <2>0
  <2> USE DEF s
  <2> HIDE DEF h
  <2>2. Kept(h.rtcm, s)
    BY <1>1, <1>3, save_msm_obsKeeps DEF HasSats, HasSigs, Sound
  <2> HIDE DEF s
  <2>3. AfterAt(r, IF h.ret < 0 THEN h ELSE EndOfEpoch(s, msg.sync), t)
    BY <1>1, <2>2, HeadThenEnd
  <2>4. AfterAt(r, Error(h.rtcm), t)
    BY <1>1 DEF AfterAt, After, Error
  <2> QED
    BY <2>1, <2>3, <2>4
<1>4. CASE kind \in 1 .. 3
  <2>1. decode_msm(r, msg, sys, kind) = decode_msm0(r, msg, sys)
    BY <1>4 DEF decode_msm
  <2> QED
    BY <1>2, <2>1 DEF t
<1>5. CASE kind \in 4 .. 7
  <2>1. \E satbits, cellbits :
          decode_msm(r, msg, sys, kind) = DecodeMsm(r, msg, sys, satbits, cellbits)
    BY <1>5 DEF decode_msm, decode_msm4, decode_msm5, decode_msm6, decode_msm7
  <2> QED
    BY <1>3, <1>5, <2>1 DEF t
<1> QED
  BY <1>4, <1>5

\* What the messages without observations write.
LEMMA FieldsWritten ==
  ASSUME NEW r, Sound(r)
  PROVE  /\ \A v : Follows(r, [r EXCEPT !.sta = v])
         /\ \A sat \in Sats : \A v : EphWritten(r, [r EXCEPT !.eph[sat] = v, !.ephsat = sat])
         /\ \A sat \in Sats : \A v : EphWritten(r, [r EXCEPT !.geph[sat] = v, !.ephsat = sat])
         /\ \A v \in Int : Follows(r, [r EXCEPT !.time = v])
<1>1. IsRtcm(r) /\ r.time \in Int /\ r.ephsat \in Sats \union {NoSat}
  BY DEF Sound
<1>2. ASSUME NEW v PROVE Follows(r, [r EXCEPT !.sta = v])
  <2> DEFINE s == [r EXCEPT !.sta = v]
  <2>1. IsRtcm(s) /\ \A f \in Fields \ {"sta"} : s[f] = r[f]
    BY <1>1 DEF IsRtcm, Fields
  <2> HIDE DEF s
  <2>2. s.time \in Int /\ s.ephsat \in Sats \union {NoSat}
        /\ \A f \in Lasting : s[f] = r[f]
    BY <1>1, <2>1 DEF Fields, Lasting
  <2>3. Follows(r, s)
    BY <2>1, <2>2, WrittenFollows
  <2> QED
    BY <2>3 DEF s
<1>4. ASSUME NEW sat \in Sats, NEW v PROVE EphWritten(r, [r EXCEPT !.eph[sat] = v, !.ephsat = sat])
  <2> DEFINE s == [r EXCEPT !.eph[sat] = v, !.ephsat = sat]
  <2>1. IsRtcm(s) /\ s.ephsat = sat /\ \A f \in Fields \ {"eph", "ephsat"} : s[f] = r[f]
    BY <1>1 DEF IsRtcm, Fields
  <2> HIDE DEF s
  <2>2. s.time = r.time /\ s.ssr = r.ssr
        /\ \A f \in {"obs", "obstime", "clock", "opt"} : s[f] = r[f]
    BY <1>1, <2>1 DEF Fields
  <2>3. EphWritten(r, s)
    BY <1>1, <2>1, <2>2, Written DEF EphWritten
  <2> QED
    BY <2>3 DEF s
<1>5. ASSUME NEW sat \in Sats, NEW v PROVE EphWritten(r, [r EXCEPT !.geph[sat] = v, !.ephsat = sat])
  <2> DEFINE s == [r EXCEPT !.geph[sat] = v, !.ephsat = sat]
  <2>1. IsRtcm(s) /\ s.ephsat = sat /\ \A f \in Fields \ {"geph", "ephsat"} : s[f] = r[f]
    BY <1>1 DEF IsRtcm, Fields
  <2> HIDE DEF s
  <2>2. s.time = r.time /\ s.ssr = r.ssr
        /\ \A f \in {"obs", "obstime", "clock", "opt"} : s[f] = r[f]
    BY <1>1, <2>1 DEF Fields
  <2>3. EphWritten(r, s)
    BY <1>1, <2>1, <2>2, Written DEF EphWritten
  <2> QED
    BY <2>3 DEF s
<1>6. ASSUME NEW v \in Int PROVE Follows(r, [r EXCEPT !.time = v])
  <2> DEFINE s == [r EXCEPT !.time = v]
  <2>1. IsRtcm(s) /\ s.time = v /\ \A f \in Fields \ {"time"} : s[f] = r[f]
    BY <1>1, TimeSetKeeps
  <2> HIDE DEF s
  <2>2. s.ephsat = r.ephsat /\ \A f \in Lasting : s[f] = r[f]
    BY <2>1 DEF Fields, Lasting
  <2>3. Follows(r, s)
    BY <1>1, <2>1, <2>2, WrittenFollows
  <2> QED
    BY <2>3 DEF s
<1> QED
  BY <1>2, <1>4, <1>5, <1>6

\* The messages of the station and its antenna.
LEMMA StationDecoded ==
  ASSUME NEW r, Sound(r), NEW msg
  PROVE  /\ \A bits, sta : AfterAt(r, Station(r, msg, bits, sta), r.time)
         /\ AfterAt(r, decode_type1005(r, msg), r.time)
         /\ AfterAt(r, decode_type1006(r, msg), r.time)
         /\ AfterAt(r, decode_type1007(r, msg), r.time)
         /\ AfterAt(r, decode_type1008(r, msg), r.time)
         /\ AfterAt(r, decode_type1033(r, msg), r.time)
<1>1. Follows(r, r)
  BY DEF Follows
<1>2. ASSUME NEW bits, NEW sta
      PROVE  AfterAt(r, Station(r, msg, bits, sta), r.time)
  <2> DEFINE t == test_staid(r, msg.staid)
  <2>1. Station(r, msg, bits, sta) \in
          {Error(r), Error(t.rtcm), [ret |-> 5, rtcm |-> [t.rtcm EXCEPT !.sta = sta]]}
    BY DEF Station
  <2>2. Follows(r, t.rtcm) /\ t.rtcm.time = r.time
    BY StationTested, TimeInFields
  <2> HIDE DEF t
  <2>3. /\ Follows(t.rtcm, [t.rtcm EXCEPT !.sta = sta])
        /\ [t.rtcm EXCEPT !.sta = sta].time = t.rtcm.time
    BY <2>2, FieldsWritten DEF Follows, Sound, IsRtcm, Fields
  <2> DEFINE e == [t.rtcm EXCEPT !.sta = sta]
             i == Station(r, msg, bits, sta)
  <2>4. Follows(r, e) /\ e.time = r.time
    BY <2>2, <2>3, FollowsOn
  <2> HIDE DEF e, i
  <2>5. i = Error(r) \/ i = Error(t.rtcm) \/ i = [ret |-> 5, rtcm |-> e]
    BY <2>1 DEF e, i
  <2>6. i.ret \in {-1, 5} /\ Follows(r, i.rtcm) /\ i.rtcm.time = r.time
    BY <1>1, <2>2, <2>4, <2>5 DEF Error
  <2>7. AfterAt(r, i, r.time)
    BY <2>6 DEF AfterAt, After
  <2> QED
    BY <2>7 DEF i
<1> QED
  BY <1>1, <1>2 DEF decode_type1005, decode_type1006, decode_type1007, decode_type1008,
                    decode_type1033, AfterAt, After, Error

\* An ephemeris is kept, or dropped as unchanged.
LEMMA SavedEph ==
  ASSUME NEW r, Sound(r), NEW msg, NEW bits, NEW sat \in Sats \union {NoSat}, NEW eph, NEW unchanged
  PROVE  NavHeard(r, SaveEph(r, msg, bits, sat, eph, unchanged))
<1>1. EphWritten(r, r)
  BY DEF EphWritten, Loose
<1> DEFINE s == [r EXCEPT !.eph[sat] = eph, !.ephsat = sat]
<1>2. sat \in Sats => EphWritten(r, s)
  BY FieldsWritten
<1>3. \/ SaveEph(r, msg, bits, sat, eph, unchanged) \in {Error(r), Nothing(r)}
      \/ sat \in Sats /\ SaveEph(r, msg, bits, sat, eph, unchanged) = [ret |-> 2, rtcm |-> s]
  BY DEF SaveEph
<1> HIDE DEF s
<1> QED
  BY <1>1, <1>2, <1>3 DEF NavHeard, Heard, EphWritten, Error, Nothing

\* The messages of ephemerides.
LEMMA EphemerisDecoded ==
  ASSUME NEW r, Sound(r), NEW msg
  PROVE  /\ NavHeard(r, decode_type1019(r, msg)) /\ NavHeard(r, decode_type1044(r, msg))
         /\ NavHeard(r, decode_type1045(r, msg)) /\ NavHeard(r, decode_type1046(r, msg))
         /\ NavHeard(r, decode_type1042(r, msg)) /\ NavHeard(r, decode_type1020(r, msg))
<1>1. \A sys, prn : satno(sys, prn) \in Sats \union {NoSat}
  BY DEF satno
<1>2. GpsSat(msg.prn) \in Sats \union {NoSat}
  BY LegacySats
<1>3. NavHeard(r, decode_type1019(r, msg)) /\ NavHeard(r, decode_type1044(r, msg))
  BY <1>1, <1>2, SavedEph DEF decode_type1019, decode_type1044
<1>4. NavHeard(r, decode_type1045(r, msg)) /\ NavHeard(r, decode_type1046(r, msg))
  BY <1>1, SavedEph DEF decode_type1045, decode_type1046, GalEph
<1>5. NavHeard(r, decode_type1042(r, msg))
  <2> DEFINE sat == satno("CMP", msg.prn)
             week == adjbdtweek(r, msg.week)
             toe == bdt2gpst(bdt2time(week, msg.toes))
             toc == bdt2gpst(bdt2time(week, msg.tocs))
             eph == EphOf(r, msg, sat, toe, toc, 0)
             same == /\ sat # NoSat
                     /\ toe = r.eph[sat].toe
                     /\ msg.iode = r.eph[sat].iode
                     /\ msg.iodc = r.eph[sat].iodc
  <2>1. decode_type1042(r, msg) = SaveEph(r, msg, 511, sat, eph, same)
    BY Zenon DEF decode_type1042
  <2>2. sat \in Sats \union {NoSat}
    BY <1>1
  <2> HIDE DEF sat, eph, same
  <2> QED
    BY <2>1, <2>2, SavedEph
<1>6. NavHeard(r, decode_type1020(r, msg))
  <2> DEFINE sat == satno("GLO", msg.prn)
             c == StartClock(r)
             new(g) == [ret |-> 2, rtcm |-> [c EXCEPT !.geph[sat] = g, !.ephsat = sat]]
             utc == gpst2utc(c.time)
             tod == Tow(utc) % Day
             Full(x) == utc2gpst(utc - tod + Near(x - MoscowOffset, tod, Day))
             geph == [sat |-> sat, iode |-> msg.tb, frq |-> msg.frq, svh |-> msg.svh,
                      tof |-> Full(msg.tk), toe |-> Full(msg.tb * 900), body |-> msg.body]
             same == /\ ~r.opt.ephall
                     /\ geph.toe = r.geph[sat].toe /\ geph.svh = r.geph[sat].svh
  <2>1. decode_type1020(r, msg) =
          CASE ~Fits(msg, 360) \/ sat = NoSat -> Error(r)
            [] Fits(msg, 360) /\ sat # NoSat /\ same -> Nothing(c)
            [] OTHER -> new(geph)
    BY SMTT(60) DEF decode_type1020
  <2> HIDE DEF geph, same
  <2>2. c = r \/ c = [r EXCEPT !.time = utc2gpst(r.clock)]
    BY DEF StartClock
  <2>3. utc2gpst(r.clock) \in Int
    BY TimesAreIntegers DEF Sound
  <2>4. Follows(r, r) /\ Follows(r, [r EXCEPT !.time = utc2gpst(r.clock)])
    BY <2>3, FieldsWritten DEF Follows
  <2>c. c.time = Known(r)
    BY ClockStarted
  <2> HIDE DEF c
  <2>5. Follows(r, c) /\ Sound(c)
    BY <2>2, <2>4 DEF Follows
  <2>6. ASSUME NEW g, sat \in Sats
        PROVE  NavHeard(r, new(g))
    <3> DEFINE s == [c EXCEPT !.geph[sat] = g, !.ephsat = sat]
    <3>1. EphWritten(c, s)
      BY <2>5, <2>6, FieldsWritten
    <3> HIDE DEF s
    <3>2. Loose(r, s) /\ s.ssr = r.ssr /\ s.time = Known(r)
      BY <2>c, <2>5, <3>1, LooseOn DEF EphWritten, Follows
    <3> QED
      BY <3>2 DEF NavHeard, Heard, s
  <2> HIDE DEF new
  <2>7. \/ decode_type1020(r, msg) \in {Error(r), Nothing(c)}
        \/ sat \in Sats /\ decode_type1020(r, msg) = new(geph)
    BY <1>1, <2>1
  <2>8. NavHeard(r, Error(r)) /\ NavHeard(r, Nothing(c))
    BY <2>c, <2>4, <2>5 DEF NavHeard, Heard, Loose, Follows, Error, Nothing
  <2> QED
    BY <2>6, <2>7, <2>8
<1> QED
  BY <1>3, <1>4, <1>5, <1>6

-----------------------------------------------------------------------------
(* Corrections.                                                            *)

SsrPass(ctx, r, j) ==
  LET sat == SsrSat(ctx.msg, ctx.sys, j)
  IN  IF sat = NoSat THEN r
      ELSE [r EXCEPT !.ssr[sat] = Joined(ctx.saved[j], Issue(r.ssr[sat], r, ctx.msg, ctx.kinds))]
SsrGood(ctx, n, r) == IsRtcm(r) /\ \A f \in Fields \ {"ssr"} : r[f] = ctx.from[f]
SsrLoop == INSTANCE Loops WITH Step <- SsrPass, Good <- SsrGood

\* The places of an SSR message whose satellites have come whole.
SsrRoom(msg, sys, bits) ==
  LET size == SsrHeadBits(sys, IF msg.kind \in {1, 4} THEN 1 ELSE 0)
  IN  {j \in 1 .. Len(msg.sats) : j <= msg.nsat /\ Fits(msg, size + bits * j)}

\* The loop over these satellites.
LEMMA SsrLooped ==
  ASSUME NEW head, ~(head.ret < 0), NEW msg, NEW sys, NEW bits, NEW kinds, NEW saved, NEW ctx,
         ctx.sys = sys, ctx.msg = msg, ctx.saved = saved, ctx.kinds = kinds
  PROVE  SaveSsr(head, msg, sys, bits, kinds, saved) =
           [ret |-> IF msg.sync THEN 0 ELSE 10,
            rtcm |-> SsrLoop!Loop(ctx, head.rtcm, [j \in 1 .. Cardinality(SsrRoom(msg, sys, bits)) |-> j])]
<1>1. SaveSsr(head, ctx.msg, ctx.sys, bits, ctx.kinds, ctx.saved) =
        [ret |-> IF ctx.msg.sync THEN 0 ELSE 10,
         rtcm |-> SsrLoop!Loop(ctx, head.rtcm, [j \in 1 .. Cardinality(SsrRoom(ctx.msg, ctx.sys, bits)) |-> j])]
  BY Zenon DEF SaveSsr, SsrRoom, SsrPass, SsrLoop!Loop, FoldLeft, MapThenFoldSet, Max, SsrLoop!Greatest
<1> QED
  BY <1>1

\* The satellites of an SSR message write corrections only, however many they are.
LEMMA SaveSsrKeeps ==
  ASSUME NEW r, Sound(r), NEW head, head.ret \in {-1, 0}, NEW t, AfterAt(r, head, t),
         NEW msg, HasEpoch(msg), HasSats(msg), NEW sys, NEW bits, NEW kinds, NEW saved
  PROVE  HeardAt(r, SaveSsr(head, msg, sys, bits, kinds, saved), t)
<1> DEFINE room == SsrRoom(msg, sys, bits)
           from == head.rtcm
           ctx == [sys |-> sys, msg |-> msg, saved |-> saved, kinds |-> kinds, from |-> from]
           seq == [j \in 1 .. Cardinality(room) |-> j]
           s == SsrLoop!Loop(ctx, from, seq)
<1>1. CASE head.ret < 0
  <2>1. SaveSsr(head, msg, sys, bits, kinds, saved) = head
    BY <1>1 DEF SaveSsr
  <2> QED
    BY <2>1, LooseOn DEF AfterAt, After, HeardAt, Heard, Follows
<1>2. CASE head.ret = 0
  <2>1. SaveSsr(head, msg, sys, bits, kinds, saved) =
          [ret |-> IF msg.sync THEN 0 ELSE 10, rtcm |-> s]
    BY <1>2, SsrLooped
  <2>2. Cardinality(room) \in Nat
    <3>1. PICK len \in Nat : Len(msg.sats) = len
      BY DEF HasSats
    <3>2. IsFiniteSet(1 .. len)
      BY FS_Interval
    <3>3. room \subseteq 1 .. len
      BY <3>1 DEF SsrRoom
    <3> QED
      BY <3>2, <3>3, FS_Subset, FS_CardinalityType
  <2>3. Follows(r, from) /\ IsRtcm(from)
    BY DEF AfterAt, After, Follows, Sound
  <2>4. SsrGood(ctx, 0, from)
    BY <2>3 DEF SsrGood
  <2>5. ASSUME NEW q, IsRtcm(q), NEW sat, NEW v
        PROVE  LET e == [q EXCEPT !.ssr[sat] = v]
               IN  IsRtcm(e) /\ \A f \in Fields \ {"ssr"} : e[f] = q[f]
    BY <2>5 DEF IsRtcm, Fields
  <2>6. ASSUME NEW j \in 1 .. Cardinality(room), NEW q, SsrGood(ctx, j - 1, q)
        PROVE  SsrGood(ctx, j, SsrPass(ctx, q, seq[j]))
    <3>1. \/ SsrPass(ctx, q, seq[j]) = q
          \/ \E sat, v : SsrPass(ctx, q, seq[j]) = [q EXCEPT !.ssr[sat] = v]
      BY Zenon DEF SsrPass
    <3> HIDE DEF ctx, seq
    <3>2. IsRtcm(q) /\ \A f \in Fields \ {"ssr"} : q[f] = ctx.from[f]
      BY <2>6 DEF SsrGood
    <3>3. ASSUME NEW sat, NEW v
          PROVE  SsrGood(ctx, j, [q EXCEPT !.ssr[sat] = v])
      <4> DEFINE e == [q EXCEPT !.ssr[sat] = v]
      <4>1. IsRtcm(e) /\ \A f \in Fields \ {"ssr"} : e[f] = q[f]
        BY ZenonT(60), <2>5, <3>2
      <4> HIDE DEF e
      <4>2. SsrGood(ctx, j, e)
        BY <3>2, <4>1 DEF SsrGood
      <4> QED
        BY <4>2 DEF e
    <3>4. CASE SsrPass(ctx, q, seq[j]) = q
      BY <3>2, <3>4 DEF SsrGood
    <3>5. ASSUME NEW sat, NEW v, SsrPass(ctx, q, seq[j]) = [q EXCEPT !.ssr[sat] = v]
          PROVE  SsrGood(ctx, j, SsrPass(ctx, q, seq[j]))
      <4>1. SsrGood(ctx, j, [q EXCEPT !.ssr[sat] = v])
        BY <3>3
      <4> QED
        BY <3>5, <4>1
    <3> QED
      BY <3>1, <3>4, <3>5
  <2>7. DOMAIN seq = 1 .. Cardinality(room)
    OBVIOUS
  <2> HIDE DEF room, seq
  <2>8. SsrGood(ctx, Cardinality(room), SsrLoop!Loop(ctx, from, seq))
    BY <2>2, <2>4, <2>6, <2>7, SsrLoop!LoopKeeps
  <2> HIDE DEF from, s
  <2>9. IsRtcm(s) /\ \A f \in Fields \ {"ssr"} : s[f] = from[f]
    BY <2>8 DEF SsrGood, s
  <2>10. s.time = from.time /\ s.ephsat = from.ephsat /\ s.eph = from.eph /\ s.geph = from.geph
         /\ \A f \in {"obs", "obstime", "clock", "opt"} : s[f] = from[f]
    BY <2>9 DEF Fields
  <2>11. Loose(from, s)
    BY <2>3, <2>9, <2>10, Written DEF Follows, Sound
  <2>12. Loose(r, s) /\ s.time = from.time /\ s.eph = r.eph /\ s.geph = r.geph
    BY <2>3, <2>10, <2>11, LooseOn DEF Follows
  <2> QED
    BY <1>2, <2>1, <2>12 DEF AfterAt, After, HeardAt, Heard, from
<1> QED
  BY <1>1, <1>2

SsrTimeOf(k, msg, sys) ==
  IF sys = "GLO" THEN DayTime(k, msg.epoch) ELSE WeekTime(k, msg.epoch)

\* The head of an SSR message sets the time, or refuses the message.
LEMMA SsrHead ==
  ASSUME NEW r, Sound(r), NEW msg, HasEpoch(msg), NEW sys
  PROVE  LET t == SsrTimeOf(Known(r), msg, sys)
             h1 == decode_ssr1_head(r, msg, sys)
             h2 == decode_ssr2_head(r, msg, sys)
         IN  /\ h1.ret \in {-1, 0} /\ AfterAt(r, h1, t)
             /\ h2.ret \in {-1, 0} /\ AfterAt(r, h2, t)
<1> DEFINE a == SsrTime(r, msg, sys)
<1>1. /\ decode_ssr1_head(r, msg, sys) \in {Error(r), Nothing(a)}
      /\ decode_ssr2_head(r, msg, sys) \in {Error(r), Nothing(a)}
  BY DEF decode_ssr1_head, decode_ssr2_head
<1>2. Follows(r, a) /\ a.time = SsrTimeOf(Known(r), msg, sys)
  BY WeekAdjusted, DayAdjusted DEF HasEpoch, SsrTime, SsrTimeOf
<1>3. Follows(r, r)
  BY DEF Follows
<1> HIDE DEF a
<1> QED
  BY <1>1, <1>2, <1>3 DEF AfterAt, After, Error, Nothing

\* The messages of corrections.
LEMMA SsrDecoded ==
  ASSUME NEW r, Sound(r), NEW msg, HasEpoch(msg), HasSats(msg), NEW sys, NEW kind \in 1 .. 6
  PROVE  HeardAt(r, decode_ssr(r, msg, sys, kind), SsrTimeOf(Known(r), msg, sys))
<1> DEFINE t == SsrTimeOf(Known(r), msg, sys)
           h1 == decode_ssr1_head(r, msg, sys)
           h2 == decode_ssr2_head(r, msg, sys)
<1>1. /\ h1.ret \in {-1, 0} /\ AfterAt(r, h1, t)
      /\ h2.ret \in {-1, 0} /\ AfterAt(r, h2, t)
  BY SsrHead
<1> HIDE DEF t
<1>2. ASSUME NEW n
      PROVE  HasEpoch([msg EXCEPT !.nsat = n]) /\ HasSats([msg EXCEPT !.nsat = n])
  BY DEF HasEpoch, HasSats
<1>3. ASSUME NEW h \in {h1, h2}, NEW m, HasEpoch(m), HasSats(m), NEW s, NEW bits, NEW kinds, NEW saved
      PROVE  HeardAt(r, SaveSsr(h, m, s, bits, kinds, saved), t)
  <2> HIDE DEF h1, h2
  <2> QED
    BY <1>1, <1>3, SaveSsrKeeps
<1> DEFINE Whole(j) == /\ j <= msg.nsat
                       /\ Fits(msg, SsrHeadBits(sys, 0) + BiasBits(sys, SubSeq(msg.sats, 1, j)))
           n == Cardinality({j \in 1 .. Len(msg.sats) : Whole(j)})
           cbias == [j \in DOMAIN msg.sats |-> [cbias |-> msg.sats[j].cbias]]
           ura == [j \in DOMAIN msg.sats |-> [ura |-> msg.sats[j].ura]]
           hrclk == [j \in DOMAIN msg.sats |-> [hrclk |-> msg.sats[j].hrclk]]
<1>4. /\ decode_ssr1(r, msg, sys) = SaveSsr(h1, msg, sys, 121 + OrbitBits(sys), {0}, Orbits(msg))
      /\ decode_ssr2(r, msg, sys) = SaveSsr(h2, msg, sys, 70 + SsrSizes[sys].np, {1}, Clocks(msg))
      /\ decode_ssr3(r, msg, sys) = SaveSsr(h2, [msg EXCEPT !.nsat = n], msg.sys, 0, {4}, cbias)
      /\ decode_ssr4(r, msg, sys) = SaveSsr(h1, msg, sys, 191 + OrbitBits(sys), {0, 1}, Both(msg))
      /\ decode_ssr5(r, msg, sys) = SaveSsr(h2, msg, sys, 6 + SsrSizes[sys].np, {3}, ura)
      /\ decode_ssr6(r, msg, sys) = SaveSsr(h2, msg, sys, 22 + SsrSizes[sys].np, {2}, hrclk)
  BY Zenon DEF decode_ssr1, decode_ssr2, decode_ssr3, decode_ssr4, decode_ssr5, decode_ssr6
<1> HIDE DEF h1, h2, n, cbias, ura, hrclk
<1>5. /\ HeardAt(r, decode_ssr1(r, msg, sys), t) /\ HeardAt(r, decode_ssr2(r, msg, sys), t)
      /\ HeardAt(r, decode_ssr3(r, msg, sys), t) /\ HeardAt(r, decode_ssr4(r, msg, sys), t)
      /\ HeardAt(r, decode_ssr5(r, msg, sys), t) /\ HeardAt(r, decode_ssr6(r, msg, sys), t)
  BY <1>2, <1>3, <1>4
<1> QED
  BY <1>5 DEF decode_ssr, t

-----------------------------------------------------------------------------
(* Every message.                                                          *)

MsmOf(type) == {s \in Systems : type - MsmTypes[s] \in 1 .. 7}
SsrOf(type) == {s \in Systems : type - SsrTypes[s] \in 1 .. 6}
LegacyTypes == 1001 .. 1004 \union 1009 .. 1012

\* What the decoder finds in a frame that an encoder made.
WellFormed(msg) ==
  /\ "type" \in DOMAIN msg /\ msg.type \in Int
  /\ msg.type \in LegacyTypes => HasEpoch(msg) /\ HasSats(msg)
  /\ MsmOf(msg.type) # {} =>
       /\ {"sys", "kind", "sigs"} \subseteq DOMAIN msg
       /\ msg.sys \in Systems /\ msg.kind \in 1 .. 7 /\ msg.type = MsmTypes[msg.sys] + msg.kind
       /\ HasEpoch(msg) /\ HasSats(msg) /\ HasSigs(msg)
  /\ SsrOf(msg.type) # {} =>
       /\ {"sys", "kind"} \subseteq DOMAIN msg
       /\ msg.sys \in Systems /\ msg.kind \in 1 .. 6 /\ msg.type = SsrTypes[msg.sys] + msg.kind
       /\ HasEpoch(msg) /\ HasSats(msg)

\* The time that is known when a message comes, and what it becomes.
KnownTime(r) == IF r.time = 0 \/ r.opt.rtinp THEN utc2gpst(r.clock) ELSE r.time
TimeOf(k, msg) ==
  CASE msg.type \in 1001 .. 1004    -> WeekTime(k, msg.epoch)
    [] msg.type \in 1009 .. 1012    -> DayTime(k, msg.epoch)
    [] MsmOf(msg.type) # {}         -> MsmTime(k, msg, msg.sys)
    [] OTHER                        -> SsrTimeOf(k, msg, msg.sys)
Timed(type) == type \in LegacyTypes \/ MsmOf(type) # {} \/ SsrOf(type) # {}

\* The types of MSM and SSR are none of the others.
LEMMA KindsApart ==
  ASSUME NEW type \in Int
  PROVE  /\ MsmOf(type) # {} => type \in 1071 .. 1127
         /\ SsrOf(type) # {} => type \in 1057 .. 1068 \/ type \in 1240 .. 1263
<1>1. ASSUME NEW s \in Systems
      PROVE  MsmTypes[s] \in 1070 .. 1120 /\ (SsrTypes[s] \in {1056, 1062} \/ SsrTypes[s] \in 1239 .. 1257)
  BY DEF Systems, MsmTypes, SsrTypes
<1> QED
  BY <1>1 DEF MsmOf, SsrOf

\* Whatever well formed message comes, decode_rtcm3 leaves a sound structure:
\* a buffer of one epoch within MAXOBS in which no satellite is twice.  The options
\* and the clock stay; corrections and ephemerides change by messages of their own
\* only; a timed message that is not refused sets the time to the nearest with its
\* time of week or of day to that which is known, and no other sets another time.
THEOREM MessageDecoded ==
  ASSUME NEW r0, Sound(r0), NEW msg, WellFormed(msg)
  PROVE  LET i == decode_rtcm3(r0, msg)
         IN  /\ Heard(r0, i)
             /\ SsrOf(msg.type) = {} => i.rtcm.ssr = r0.ssr
             /\ msg.type \notin NavTypes => i.rtcm.eph = r0.eph /\ i.rtcm.geph = r0.geph
             /\ Timed(msg.type) /\ i.ret >= 0 => i.rtcm.time = TimeOf(KnownTime(r0), msg)
             /\ \/ i.rtcm.time \in {r0.time, KnownTime(r0)}
                \/ Timed(msg.type) /\ i.rtcm.time = TimeOf(KnownTime(r0), msg)
<1> DEFINE r == IF r0.opt.rtinp THEN [r0 EXCEPT !.time = utc2gpst(r0.clock)] ELSE r0
           i == decode_rtcm3(r0, msg)
           t == TimeOf(KnownTime(r0), msg)
<1>1. Follows(r0, r) /\ Known(r) = KnownTime(r0) /\ r.time \in {r0.time, KnownTime(r0)}
  <2>1. utc2gpst(r0.clock) \in Int
    BY TimesAreIntegers DEF Sound
  <2>2. CASE r0.opt.rtinp
    <3> DEFINE s == [r0 EXCEPT !.time = utc2gpst(r0.clock)]
    <3>1. Follows(r0, s) /\ s.time = utc2gpst(r0.clock)
      BY <2>1, FieldsWritten, TimeSetKeeps DEF Sound
    <3> HIDE DEF s
    <3>2. r = s
      BY <2>2 DEF s
    <3> QED
      BY <2>2, <3>1, <3>2 DEF Known, KnownTime, Follows
  <2>3. CASE ~r0.opt.rtinp
    BY <2>3 DEF Known, KnownTime, Follows
  <2> QED
    BY <2>2, <2>3
<1> DEFINE Types == LegacyTypes \union
             {1005, 1006, 1007, 1008, 1019, 1020, 1033, 1042, 63, 1044, 1045, 1046}
<1>2. /\ MsmOf(msg.type) # {} => msg.type \in 1071 .. 1127
      /\ SsrOf(msg.type) # {} => msg.type \in 1057 .. 1068 \/ msg.type \in 1240 .. 1263
      /\ msg.type \in Int
  BY KindsApart DEF WellFormed
<1> DEFINE Case1 == SsrOf(msg.type) # {} /\ msg.type \notin NavTypes /\ HeardAt(r, i, t)
           Case2 == SsrOf(msg.type) = {} /\ Timed(msg.type) /\ msg.type \notin NavTypes /\ AfterAt(r, i, t)
           Case3 == SsrOf(msg.type) = {} /\ ~Timed(msg.type) /\ msg.type \notin NavTypes
                    /\ AfterAt(r, i, r.time)
           Case4 == SsrOf(msg.type) = {} /\ ~Timed(msg.type) /\ msg.type \in NavTypes /\ NavHeard(r, i)
           Goal == /\ Heard(r0, i)
                   /\ SsrOf(msg.type) = {} => i.rtcm.ssr = r0.ssr
                   /\ msg.type \notin NavTypes => i.rtcm.eph = r0.eph /\ i.rtcm.geph = r0.geph
                   /\ Timed(msg.type) /\ i.ret >= 0 => i.rtcm.time = t
                   /\ \/ i.rtcm.time \in {r0.time, KnownTime(r0)}
                      \/ Timed(msg.type) /\ i.rtcm.time = t
<1>12. Case1 \/ Case2 \/ Case3 \/ Case4 => Goal
  <2> HIDE DEF r, i, t
  <2>1. Follows(r0, r) /\ Loose(r0, r)
    BY <1>1, LooseOn
  <2>2. CASE Case1
    <3>1. Loose(r0, i.rtcm)
      BY <2>1, <2>2, LooseOn DEF Heard, HeardAt
    <3>2. Timed(msg.type)
      BY <2>2 DEF Timed
    <3> QED
      BY <1>1, <2>1, <2>2, <3>1, <3>2 DEF Heard, HeardAt, Follows
  <2>3. CASE Case2
    <3>1. Follows(r0, i.rtcm)
      BY <2>1, <2>3, FollowsOn DEF AfterAt, After
    <3>2. Loose(r0, i.rtcm)
      BY <3>1, LooseOn
    <3> QED
      BY <1>1, <2>3, <3>1, <3>2 DEF Heard, After, AfterAt, Follows
  <2>4. CASE Case3
    <3>1. Follows(r0, i.rtcm)
      BY <2>1, <2>4, FollowsOn DEF AfterAt, After
    <3>2. Loose(r0, i.rtcm)
      BY <3>1, LooseOn
    <3> QED
      BY <1>1, <2>4, <3>1, <3>2 DEF Heard, After, AfterAt, Follows
  <2>5. CASE Case4
    <3>1. Loose(r0, i.rtcm)
      BY <2>1, <2>5, LooseOn DEF NavHeard, Heard
    <3> QED
      BY <1>1, <2>1, <2>5, <3>1 DEF Heard, NavHeard, Follows
  <2> QED
    BY <2>2, <2>3, <2>4, <2>5
<1> HIDE DEF Case1, Case2, Case3, Case4
<1> SUFFICES Case1 \/ Case2 \/ Case3 \/ Case4
  BY <1>12
<1>3. Sound(r)
  BY <1>1 DEF Follows
<1>4. Known(r) = KnownTime(r0)
  BY <1>1
<1>5. i = CASE msg.type = 1001 -> decode_type1001(r, msg)
        [] msg.type = 1002 -> decode_type1002(r, msg)
        [] msg.type = 1003 -> decode_type1003(r, msg)
        [] msg.type = 1004 -> decode_type1004(r, msg)
        [] msg.type = 1005 -> decode_type1005(r, msg)
        [] msg.type = 1006 -> decode_type1006(r, msg)
        [] msg.type = 1007 -> decode_type1007(r, msg)
        [] msg.type = 1008 -> decode_type1008(r, msg)
        [] msg.type = 1009 -> decode_type1009(r, msg)
        [] msg.type = 1010 -> decode_type1010(r, msg)
        [] msg.type = 1011 -> decode_type1011(r, msg)
        [] msg.type = 1012 -> decode_type1012(r, msg)
        [] msg.type = 1019 -> decode_type1019(r, msg)
        [] msg.type = 1020 -> decode_type1020(r, msg)
        [] msg.type = 1033 -> decode_type1033(r, msg)
        [] msg.type \in {1042, 63} -> decode_type1042(r, msg)
        [] msg.type = 1044 -> decode_type1044(r, msg)
        [] msg.type = 1045 -> decode_type1045(r, msg)
        [] msg.type = 1046 -> decode_type1046(r, msg)
        [] MsmOf(msg.type) # {} -> decode_msm(r, msg, msg.sys, msg.kind)
        [] SsrOf(msg.type) # {} -> decode_ssr(r, msg, msg.sys, msg.kind)
        [] OTHER -> Nothing(r)
  BY Zenon DEF decode_rtcm3, MsmOf, SsrOf
<1> HIDE DEF r, i
<1>6. CASE msg.type \in 1001 .. 1004
  <2>1. HasEpoch(msg) /\ HasSats(msg)
    BY <1>6 DEF WellFormed, LegacyTypes
  <2>2. t = WeekTime(Known(r), msg.epoch)
    BY <1>2, <1>4, <1>6 DEF TimeOf
  <2> HIDE DEF t
  <2>3. /\ AfterAt(r, decode_type1001(r, msg), t) /\ AfterAt(r, decode_type1002(r, msg), t)
        /\ AfterAt(r, decode_type1003(r, msg), t) /\ AfterAt(r, decode_type1004(r, msg), t)
    BY <1>3, <2>1, <2>2, LegacyDecoded
  <2>4a. msg.type = 1001 => i = decode_type1001(r, msg)
    BY <1>2, <1>5
  <2>4b. msg.type = 1002 => i = decode_type1002(r, msg)
    BY <1>2, <1>5
  <2>4c. msg.type = 1003 => i = decode_type1003(r, msg)
    BY <1>2, <1>5
  <2>4d. msg.type = 1004 => i = decode_type1004(r, msg)
    BY <1>2, <1>5
  <2>5. msg.type = 1001 \/ msg.type = 1002 \/ msg.type = 1003 \/ msg.type = 1004
    BY <1>6
  <2>6. AfterAt(r, i, t)
    BY <2>3, <2>4a, <2>4b, <2>4c, <2>4d, <2>5
  <2>7. SsrOf(msg.type) = {} /\ Timed(msg.type) /\ msg.type \notin NavTypes
    BY <1>2, <1>6 DEF Timed, LegacyTypes, NavTypes
  <2> QED
    BY <2>6, <2>7 DEF Case2
<1>7. CASE msg.type \in 1009 .. 1012
  <2>1. HasEpoch(msg) /\ HasSats(msg)
    BY <1>7 DEF WellFormed, LegacyTypes
  <2>2. t = DayTime(Known(r), msg.epoch)
    BY <1>2, <1>4, <1>7 DEF TimeOf
  <2> HIDE DEF t
  <2>3. /\ AfterAt(r, decode_type1009(r, msg), t) /\ AfterAt(r, decode_type1010(r, msg), t)
        /\ AfterAt(r, decode_type1011(r, msg), t) /\ AfterAt(r, decode_type1012(r, msg), t)
    BY <1>3, <2>1, <2>2, LegacyDecoded
  <2>4a. msg.type = 1009 => i = decode_type1009(r, msg)
    BY <1>2, <1>5
  <2>4b. msg.type = 1010 => i = decode_type1010(r, msg)
    BY <1>2, <1>5
  <2>4c. msg.type = 1011 => i = decode_type1011(r, msg)
    BY <1>2, <1>5
  <2>4d. msg.type = 1012 => i = decode_type1012(r, msg)
    BY <1>2, <1>5
  <2>5. msg.type = 1009 \/ msg.type = 1010 \/ msg.type = 1011 \/ msg.type = 1012
    BY <1>7
  <2>6. AfterAt(r, i, t)
    BY <2>3, <2>4a, <2>4b, <2>4c, <2>4d, <2>5
  <2>7. SsrOf(msg.type) = {} /\ Timed(msg.type) /\ msg.type \notin NavTypes
    BY <1>2, <1>7 DEF Timed, LegacyTypes, NavTypes
  <2> QED
    BY <2>6, <2>7 DEF Case2
<1>8. CASE msg.type \in {1005, 1006, 1007, 1008, 1033}
  <2>1. ~Timed(msg.type) /\ SsrOf(msg.type) = {} /\ msg.type \notin NavTypes
    BY <1>2, <1>8 DEF Timed, LegacyTypes, NavTypes
  <2>2. /\ AfterAt(r, decode_type1005(r, msg), r.time) /\ AfterAt(r, decode_type1006(r, msg), r.time)
        /\ AfterAt(r, decode_type1007(r, msg), r.time) /\ AfterAt(r, decode_type1008(r, msg), r.time)
        /\ AfterAt(r, decode_type1033(r, msg), r.time)
    BY <1>3, StationDecoded
  <2>4a. msg.type = 1005 => i = decode_type1005(r, msg)
    BY <1>2, <1>5
  <2>4b. msg.type = 1006 => i = decode_type1006(r, msg)
    BY <1>2, <1>5
  <2>4c. msg.type = 1007 => i = decode_type1007(r, msg)
    BY <1>2, <1>5
  <2>4d. msg.type = 1008 => i = decode_type1008(r, msg)
    BY <1>2, <1>5
  <2>4e. msg.type = 1033 => i = decode_type1033(r, msg)
    BY <1>2, <1>5
  <2>7. AfterAt(r, i, r.time)
    BY <1>8, <2>2, <2>4a, <2>4b, <2>4c, <2>4d, <2>4e
  <2> QED
    BY <2>1, <2>7 DEF Case3
<1>13. CASE msg.type \in NavTypes
  <2>1. ~Timed(msg.type) /\ SsrOf(msg.type) = {}
    BY <1>2, <1>13 DEF Timed, LegacyTypes, NavTypes
  <2>3. /\ NavHeard(r, decode_type1019(r, msg)) /\ NavHeard(r, decode_type1020(r, msg))
        /\ NavHeard(r, decode_type1042(r, msg)) /\ NavHeard(r, decode_type1044(r, msg))
        /\ NavHeard(r, decode_type1045(r, msg)) /\ NavHeard(r, decode_type1046(r, msg))
    BY <1>3, EphemerisDecoded
  <2>4a. msg.type = 1019 => i = decode_type1019(r, msg)
    BY <1>2, <1>5
  <2>4b. msg.type = 1020 => i = decode_type1020(r, msg)
    BY <1>2, <1>5
  <2>4c. msg.type = 1042 => i = decode_type1042(r, msg)
    BY <1>2, <1>5
  <2>4d. msg.type = 63 => i = decode_type1042(r, msg)
    BY <1>2, <1>5
  <2>4e. msg.type = 1044 => i = decode_type1044(r, msg)
    BY <1>2, <1>5
  <2>4f. msg.type = 1045 => i = decode_type1045(r, msg)
    BY <1>2, <1>5
  <2>4g. msg.type = 1046 => i = decode_type1046(r, msg)
    BY <1>2, <1>5
  <2>5. msg.type \in {1019, 1020, 1042, 63, 1044, 1045, 1046}
    BY <1>13 DEF NavTypes
  <2>7. NavHeard(r, i)
    BY <2>3, <2>4a, <2>4b, <2>4c, <2>4d, <2>4e, <2>4f, <2>4g, <2>5
  <2> QED
    BY <1>13, <2>1, <2>7 DEF Case4
<1>9. CASE MsmOf(msg.type) # {}
  <2>1. AfterAt(r, decode_msm(r, msg, msg.sys, msg.kind), t)
    BY <1>2, <1>3, <1>4, <1>9, MsmDecoded DEF TimeOf, WellFormed
  <2>2. i = decode_msm(r, msg, msg.sys, msg.kind)
    BY <1>2, <1>5, <1>9
  <2>3. SsrOf(msg.type) = {} /\ Timed(msg.type) /\ msg.type \notin NavTypes
    BY <1>2, <1>9 DEF Timed, NavTypes
  <2> QED
    BY <2>1, <2>2, <2>3 DEF Case2
<1>10. CASE SsrOf(msg.type) # {}
  <2>1. msg.type \notin 1071 .. 1127 /\ msg.type \notin 1001 .. 1004 /\ msg.type \notin 1009 .. 1012
    BY <1>2, <1>10
  <2>2. HeardAt(r, decode_ssr(r, msg, msg.sys, msg.kind), t)
    BY <1>2, <1>3, <1>4, <1>10, <2>1, SsrDecoded DEF TimeOf, WellFormed
  <2>3. i = decode_ssr(r, msg, msg.sys, msg.kind)
    BY <1>2, <1>5, <1>10, <2>1
  <2>4. msg.type \notin NavTypes
    BY <1>2, <1>10 DEF NavTypes
  <2> QED
    BY <1>10, <2>2, <2>3, <2>4 DEF Case1
<1>11. CASE msg.type \notin Types /\ MsmOf(msg.type) = {} /\ SsrOf(msg.type) = {}
  <2>1. ~Timed(msg.type) /\ msg.type \notin NavTypes
    BY <1>11 DEF Timed, NavTypes
  <2>2. i = Nothing(r)
    BY <1>5, <1>11 DEF LegacyTypes
  <2>3. AfterAt(r, Nothing(r), r.time)
    BY <1>3 DEF AfterAt, After, Nothing, Follows
  <2> QED
    BY <1>11, <2>1, <2>2, <2>3 DEF Case3
<1> QED
  BY <1>6, <1>7, <1>8, <1>9, <1>10, <1>11, <1>13 DEF LegacyTypes, NavTypes

-----------------------------------------------------------------------------
(* The encoder: of every type a well formed message, or none.              *)

\* What the encoder relies on of its rtcm_t, and what it leaves of it.
Counted(seq) == \E n \in Nat : Len(seq) = n /\ DOMAIN seq = 1 .. n
Sender(r) == IsRtcm(r) /\ r.time \in Int /\ Counted(r.obs)
Moved(r, s) == IsRtcm(s) /\ \A f \in Fields \ {"cp", "lltime"} : s[f] = r[f]

\* A function on 1 .. n is a sequence of n elements.
LEMMA CountedByDomain ==
  ASSUME NEW n \in Nat, NEW f, f = [i \in 1 .. n |-> f[i]]
  PROVE  Len(f) = n /\ Counted(f)
<1>1. f \in Seq({f[i] : i \in 1 .. n})
  OBVIOUS
<1>2. Len(f) \in Nat /\ DOMAIN f = 1 .. Len(f)
  BY <1>1
<1>3. Len(f) = n
  BY <1>2
<1> QED
  BY <1>3 DEF Counted

\* A lock time is noted, and nothing else.
LEMMA LockTimesMove ==
  ASSUME NEW from, NEW r, Moved(from, r), NEW d
  PROVE  Moved(from, LockTimes(r, d))
<1> DEFINE row == [k \in Slots |-> IF k \in {0, 1} THEN locktime(d.time, r.lltime[d.sat][k], d.LLI[k])
                                   ELSE r.lltime[d.sat][k]]
<1>1. LockTimes(r, d) = [r EXCEPT !.lltime[d.sat] = row]
  BY Zenon DEF LockTimes
<1> HIDE DEF row
<1>2. IsRtcm([r EXCEPT !.lltime[d.sat] = row])
      /\ \A f \in Fields \ {"lltime"} : [r EXCEPT !.lltime[d.sat] = row][f] = r[f]
  BY DEF Moved, IsRtcm, Fields
<1> QED
  BY <1>1, <1>2 DEF Moved

LockPass(ctx, r, d) == LockTimes(r, d)
MovedGood(ctx, n, r) == Moved(ctx, r)
LockLoop == INSTANCE Loops WITH Step <- LockPass, Good <- MovedGood

\* The loop over the satellites notes lock times, and nothing else.
LEMMA LockLoopMoves ==
  ASSUME NEW r, IsRtcm(r), NEW seq, Counted(seq)
  PROVE  Moved(r, FoldLeft(LockTimes, r, seq))
<1>1. PICK n \in Nat : DOMAIN seq = 1 .. n
  BY DEF Counted
<1>2. FoldLeft(LockTimes, r, seq) = LockLoop!Loop(r, r, seq)
  BY DEF LockPass, LockLoop!Loop, FoldLeft, MapThenFoldSet, LockLoop!Greatest, Max
<1>3. MovedGood(r, 0, r)
  BY DEF MovedGood, Moved
<1>4. \A i \in 1 .. n : \A q : MovedGood(r, i - 1, q) => MovedGood(r, i, LockPass(r, q, seq[i]))
  BY LockTimesMove DEF MovedGood, LockPass
<1>5. MovedGood(r, n, LockLoop!Loop(r, r, seq))
  BY <1>1, <1>3, <1>4, LockLoop!LoopKeeps
<1> QED
  BY <1>2, <1>5 DEF MovedGood

ObsPass(ctx, mine, d) == IF satsys(d.sat) \in ctx.systems THEN Append(mine, d) ELSE mine
ObsGood(ctx, n, mine) == mine \in Seq(ctx.obs)
ObsLoop == INSTANCE Loops WITH Step <- ObsPass, Good <- ObsGood

\* The observations of some systems are a sequence.
LEMMA ObsCounted ==
  ASSUME NEW r, Sender(r), NEW systems
  PROVE  ObsOf(r, systems) \in Seq(ToSet(r.obs))
<1> DEFINE ctx == [systems |-> systems, obs |-> ToSet(r.obs)]
<1>1. PICK n \in Nat : DOMAIN r.obs = 1 .. n
  BY DEF Sender, Counted
<1>2. ObsOf(r, systems) = ObsLoop!Loop(ctx, <<>>, r.obs)
  BY DEF ObsOf, ObsPass, ObsLoop!Loop, FoldLeft, MapThenFoldSet, ObsLoop!Greatest, Max
<1>3. ObsGood(ctx, 0, <<>>)
  BY DEF ObsGood
<1>4. ASSUME NEW i \in 1 .. n, NEW mine, ObsGood(ctx, i - 1, mine)
      PROVE  ObsGood(ctx, i, ObsPass(ctx, mine, r.obs[i]))
  <2>1. mine \in Seq(ctx.obs) /\ r.obs[i] \in ctx.obs
    BY <1>1, <1>4 DEF ObsGood, ToSet
  <2> HIDE DEF ctx
  <2>2. Append(mine, r.obs[i]) \in Seq(ctx.obs)
    BY <2>1, AppendProperties
  <2> QED
    BY <2>1, <2>2 DEF ObsGood, ObsPass
<1>5. ObsGood(ctx, n, ObsLoop!Loop(ctx, <<>>, r.obs))
  BY <1>1, <1>3, <1>4, ObsLoop!LoopKeeps
<1> QED
  BY <1>2, <1>5 DEF ObsGood

\* One field after another.
LEMMA FieldsJoined ==
  ASSUME NEW f, NEW g
  PROVE  /\ DOMAIN Joined(f, g) = (DOMAIN f) \union DOMAIN g
         /\ \A x \in DOMAIN f : Joined(f, g)[x] = f[x]
         /\ \A x \in (DOMAIN g) \ DOMAIN f : Joined(f, g)[x] = g[x]
BY DEF Joined

\* Fields that are added leave a message well formed.
LEMMA JoinedWellFormed ==
  ASSUME NEW msg, WellFormed(msg), NEW g
  PROVE  WellFormed(Joined(msg, g)) /\ Joined(msg, g).type = msg.type
         /\ ("epoch" \in DOMAIN msg => Joined(msg, g).epoch = msg.epoch)
<1> DEFINE m == Joined(msg, g)
<1>1. DOMAIN msg \subseteq DOMAIN m /\ \A x \in DOMAIN msg : m[x] = msg[x]
  BY FieldsJoined
<1> HIDE DEF m
<1>2. m.type = msg.type /\ m.type \in Int /\ "type" \in DOMAIN m
  BY <1>1 DEF WellFormed
<1>3. HasEpoch(msg) => HasEpoch(m) /\ m.epoch = msg.epoch
  BY <1>1 DEF HasEpoch
<1>4. HasSats(msg) => HasSats(m)
  BY <1>1 DEF HasSats
<1>5. "sigs" \in DOMAIN msg /\ HasSigs(msg) => HasSigs(m)
  BY <1>1 DEF HasSigs
<1>6. /\ "sys" \in DOMAIN msg => "sys" \in DOMAIN m /\ m.sys = msg.sys
      /\ "kind" \in DOMAIN msg => "kind" \in DOMAIN m /\ m.kind = msg.kind
      /\ "sigs" \in DOMAIN msg => "sigs" \in DOMAIN m
      /\ "epoch" \in DOMAIN msg => m.epoch = msg.epoch
  BY <1>1
<1>7. WellFormed(m)
  BY <1>2, <1>3, <1>4, <1>5, <1>6 DEF WellFormed
<1> QED
  BY <1>2, <1>6, <1>7 DEF m

\* The field of the epoch is a whole number.
LEMMA EpochIsInteger ==
  ASSUME NEW t \in Int, NEW sys
  PROVE  EpochOf(t, sys) \in Int
<1>1. Tow(t) \in Int /\ GlonassDay(t) \in Int /\ Tow(GlonassDay(t)) % Day \in Int
  BY TimesAreIntegers
<1>2. gpst2bdt(t) \in Int /\ Tow(gpst2bdt(t)) \in Int
  BY TimesAreIntegers DEF gpst2bdt
<1> QED
  BY <1>1, <1>2 DEF EpochOf

\* The time of week or of day that a message tells of the time t.
EpochTold(t, msg) ==
  CASE msg.type \in 1001 .. 1004 -> EpochOf(t, "GPS")
    [] msg.type \in 1009 .. 1012 -> EpochOf(t, "GLO")
    [] MsmOf(msg.type) # {}      -> EpochOf(t, msg.sys)
    [] OTHER                     -> EpochOf(t, IF msg.sys = "GLO" THEN "GLO" ELSE "GPS")

\* What the encoder makes of a message: a well formed one of the type that was
\* asked for, with the time of the rtcm_t, or none.
PlainTypes == {1005, 1006, 1007, 1008, 1019, 1020, 1033, 1042, 63, 1044, 1045, 1046}
Encoded(r, e, type) ==
  /\ e.ret \in {0, 1} /\ Moved(r, e.rtcm)
  /\ e.ret = 1 =>
       /\ type \in PlainTypes \/ Timed(type)
       /\ WellFormed(e.msg) /\ e.msg.type = type
       /\ Timed(type) => e.msg.epoch = EpochTold(r.time, e.msg)

\* Nothing moved.
LEMMA MovedItself ==
  ASSUME NEW r, Sender(r)
  PROVE  Moved(r, r)
BY DEF Moved, Sender

\* No message is made.
LEMMA Refused ==
  ASSUME NEW r, Sender(r), NEW type
  PROVE  Encoded(r, Refuse(r), type)
BY MovedItself DEF Encoded, Refuse

\* The legacy messages of observations.
LEMMA LegacyEncoded ==
  ASSUME NEW r, Sender(r), NEW sync \in BOOLEAN, NEW type, NEW sys,
         (type \in 1001 .. 1004 /\ sys = "GPS") \/ (type \in 1009 .. 1012 /\ sys = "GLO"),
         NEW systems, NEW head, NEW satbits
  PROVE  Encoded(r, EncodeLegacy(r, type, sys, sync, systems, head, satbits), type)
<1> DEFINE e == EncodeLegacy(r, type, sys, sync, systems, head, satbits)
           mine == ObsOf(r, systems)
           sent == IF Len(mine) < MAXOBS THEN mine ELSE <<>>
           Sat(d) == IF sys = "GLO" THEN [prn |-> GloPrn(d.sat), f |-> gen_obs_glo(r, d)]
                     ELSE [prn |-> GpsPrn(d.sat), f |-> gen_obs_gps(r, d)]
           sats == [j \in DOMAIN sent |-> Sat(sent[j])]
           h == encode_head(type, r, sys, sync, Len(mine))
           g == [sats |-> sats]
           m == Joined(h, g)
<1>1. /\ e.ret = 1 /\ e.msg = m /\ e.rtcm = FoldLeft(LockTimes, r, sent)
  BY DEF EncodeLegacy, Accept
<1>2. Counted(sent)
  <2>1. mine \in Seq(ToSet(r.obs)) /\ <<>> \in Seq(ToSet(r.obs))
    BY ObsCounted
  <2>2. sent \in Seq(ToSet(r.obs))
    BY ZenonT(60), <2>1
  <2> HIDE DEF sent
  <2> QED
    BY <2>2 DEF Counted
<1>3. Moved(r, e.rtcm)
  BY <1>1, <1>2, LockLoopMoves DEF Sender
<1>4. Counted(sats)
  <2>1. PICK n \in Nat : DOMAIN sent = 1 .. n
    BY <1>2 DEF Counted
  <2> HIDE DEF sent
  <2>2. sats = [j \in 1 .. n |-> sats[j]]
    BY <2>1
  <2> QED
    BY <2>2, CountedByDomain
<1> HIDE DEF sats, mine, sent
<1>5. /\ h.type = type /\ h.epoch = EpochOf(r.time, sys) /\ h.sync = sync
      /\ {"type", "epoch", "sync"} \subseteq DOMAIN h /\ "sats" \notin DOMAIN h
  BY DEF encode_head
<1>5a. DOMAIN g = {"sats"} /\ g.sats = sats
  OBVIOUS
<1> HIDE DEF h, e, g
<1>5b. /\ DOMAIN m = (DOMAIN h) \union {"sats"}
       /\ \A x \in DOMAIN h : m[x] = h[x]
       /\ "sats" \in (DOMAIN g) \ DOMAIN h => m["sats"] = g["sats"]
  BY <1>5a DEF Joined
<1> HIDE DEF m
<1>6. /\ m.type = type /\ m.epoch = EpochOf(r.time, sys) /\ m.sync = sync /\ m.sats = sats
      /\ {"type", "epoch", "sync", "sats"} \subseteq DOMAIN m
  BY <1>5, <1>5a, <1>5b
<1>7. HasEpoch(m) /\ HasSats(m)
  BY <1>4, <1>6, EpochIsInteger DEF HasEpoch, HasSats, Counted, Sender
<1>8. type \in Int /\ MsmOf(type) = {} /\ SsrOf(type) = {}
  BY KindsApart
<1>9. WellFormed(m)
  BY <1>6, <1>7, <1>8 DEF WellFormed
<1>10. m.epoch = EpochTold(r.time, m)
  BY <1>6, <1>8 DEF EpochTold
<1> QED
  BY <1>1, <1>3, <1>6, <1>9, <1>10 DEF Encoded, Timed, LegacyTypes, e, m

\* The types that carry neither a time nor satellites.
LEMMA PlainEncoded ==
  ASSUME NEW r, Sender(r), NEW type \in PlainTypes,
         NEW msg, "type" \in DOMAIN msg, msg.type = type, NEW bits
  PROVE  Encoded(r, Accept(r, msg, bits), type)
<1>1. MsmOf(type) = {} /\ SsrOf(type) = {} /\ type \notin LegacyTypes
  BY KindsApart DEF LegacyTypes, PlainTypes
<1>2. type \in Int
  BY DEF PlainTypes
<1>3. WellFormed(msg)
  BY <1>1, <1>2 DEF WellFormed
<1> QED
  BY <1>1, <1>3, MovedItself DEF Encoded, Accept, Timed

\* The messages of the station and its antenna.
LEMMA StationEncoded ==
  ASSUME NEW r, Sender(r)
  PROVE  /\ Encoded(r, encode_type1005(r), 1005) /\ Encoded(r, encode_type1006(r), 1006)
         /\ Encoded(r, encode_type1007(r), 1007) /\ Encoded(r, encode_type1008(r), 1008)
         /\ Encoded(r, encode_type1033(r), 1033)
<1>1. Encoded(r, encode_type1005(r), 1005)
  BY PlainEncoded DEF PlainTypes, encode_type1005
<1>1a. Encoded(r, encode_type1006(r), 1006)
  <2> DEFINE hgt == IF r.sta.hgt \in 0 .. 65535 THEN r.sta.hgt ELSE 0
             m == [type |-> 1006, staid |-> r.staid, pos |-> r.sta.pos, hgt |-> hgt]
  <2>1. encode_type1006(r) = Accept(r, m, 168)
    BY DEF encode_type1006
  <2> HIDE DEF hgt
  <2> QED
    BY <2>1, PlainEncoded DEF PlainTypes
<1>2. Encoded(r, encode_type1007(r), 1007) /\ Encoded(r, encode_type1008(r), 1008)
  BY PlainEncoded DEF PlainTypes, encode_type1007, encode_type1008
<1>3. Encoded(r, encode_type1033(r), 1033)
  BY PlainEncoded DEF PlainTypes, encode_type1033
<1> QED
  BY <1>1, <1>1a, <1>2, <1>3

\* The messages of ephemerides.
LEMMA EphemerisEncoded ==
  ASSUME NEW r, Sender(r)
  PROVE  /\ Encoded(r, encode_type1019(r), 1019) /\ Encoded(r, encode_type1020(r), 1020)
         /\ Encoded(r, encode_type1042(r), 1042) /\ Encoded(r, encode_type63(r), 63)
         /\ Encoded(r, encode_type1044(r), 1044) /\ Encoded(r, encode_type1045(r), 1045)
         /\ Encoded(r, encode_type1046(r), 1046)
<1>1. ASSUME NEW type \in {1019, 1042, 63, 1044, 1045, 1046}, NEW sys, NEW prn, NEW week,
             NEW unit, NEW iodes, NEW iodcs, NEW toe, NEW toc, NEW svh, NEW bits
      PROVE  Encoded(r, EncodeEph(r, type, sys, prn, week, unit, iodes, iodcs, toe, toc, svh, bits),
                     type)
  BY PlainEncoded DEF PlainTypes, EncodeEph
<1>2. ASSUME NEW type \in {1019, 1044}, NEW sys, NEW first, NEW bits
      PROVE  Encoded(r, EncodeGpsEph(r, type, sys, first, bits), type)
  BY <1>1, Refused DEF EncodeGpsEph
<1>3. ASSUME NEW type \in {1045, 1046}, NEW svh, NEW bits
      PROVE  Encoded(r, EncodeGalEph(r, type, svh, bits), type)
  BY <1>1, Refused DEF EncodeGalEph
<1>4. ASSUME NEW type \in {1042, 63}
      PROVE  Encoded(r, EncodeCmpEph(r, type), type)
  BY <1>1, Refused DEF EncodeCmpEph
<1>5. Encoded(r, encode_type1020(r), 1020)
  BY PlainEncoded, Refused DEF PlainTypes, encode_type1020
<1>6. Encoded(r, encode_type1019(r), 1019) /\ Encoded(r, encode_type1044(r), 1044)
  BY <1>2 DEF encode_type1019, encode_type1044
<1>7. Encoded(r, encode_type1045(r), 1045) /\ Encoded(r, encode_type1046(r), 1046)
  BY <1>3 DEF encode_type1045, encode_type1046
<1>8. Encoded(r, encode_type1042(r), 1042) /\ Encoded(r, encode_type63(r), 63)
  BY <1>4 DEF encode_type1042, encode_type63
<1> QED
  BY <1>5, <1>6, <1>7, <1>8

\* A cell of an MSM notes one lock time.
LEMMA CellMoves ==
  ASSUME NEW from, NEW r, Moved(from, r), NEW data, NEW k, NEW kind
  PROVE  Moved(from, GenCell(r, data, k, kind).rtcm)
<1> DEFINE q == GenCell(r, data, k, kind).rtcm
           phase == data.L[k] # NoPhase /\ satwavelen(r, data.sat)
           phrng == IF phase THEN data.L[k] + (IF Ranged(data) THEN 0 ELSE RoughRange) ELSE 0
           rebase == data.LLI[k] % 2 = 1 \/ Abs(phrng - r.cp[data.sat][k]) > Limit
           cp == IF rebase THEN phrng ELSE r.cp[data.sat][k]
           since == IF rebase THEN data.time ELSE locktime(data.time, r.lltime[data.sat][k], 0)
<1>1. q = [r EXCEPT !.cp[data.sat][k] = cp, !.lltime[data.sat][k] = since]
  BY DEF GenCell
<1> HIDE DEF q, cp, since
<1>2. IsRtcm(q) /\ \A f \in Fields \ {"cp", "lltime"} : q[f] = r[f]
  BY <1>1 DEF Moved, IsRtcm, Fields
<1> QED
  BY <1>2 DEF Moved, q

SigPass(ctx, s, x) == AddCell(s, ctx.from, ctx.sys, ctx.kind, ctx.sats, ctx.sigs, x)
SigGood(ctx, n, s) == Moved(ctx.from, s.rtcm)
SigLoop == INSTANCE Loops WITH Step <- SigPass, Good <- SigGood

\* The slots of a message are finitely many, as the observations are.
LEMMA SlotsCounted ==
  ASSUME NEW r, Sender(r), NEW sys
  PROVE  \E n \in Nat : DOMAIN MsmSlots(r, sys) = 1 .. n
<1> DEFINE all == {x \in (DOMAIN r.obs) \X Slots :
                     /\ to_satid(sys, r.obs[x[1]].sat) > 0
                     /\ to_sigid(sys, r.obs[x[1]].code[x[2]]) > 0}
<1>1. DOMAIN MsmSlots(r, sys) = 1 .. Cardinality(all)
  BY DEF MsmSlots, InOrder
<1>2. IsFiniteSet((DOMAIN r.obs) \X Slots)
  <2>1. PICK n \in Nat : DOMAIN r.obs = 1 .. n
    BY DEF Sender, Counted
  <2>2. IsFiniteSet(1 .. n) /\ IsFiniteSet(Slots)
    BY FS_Interval, SizesAssumption DEF Slots
  <2> QED
    BY <2>1, <2>2, FS_Product
<1>3. IsFiniteSet(all)
  <2>1. all \in SUBSET ((DOMAIN r.obs) \X Slots)
    OBVIOUS
  <2> HIDE DEF all
  <2> QED
    BY <1>2, <2>1, FS_Subset
<1> HIDE DEF all
<1> QED
  BY <1>1, <1>3, FS_CardinalityType

\* The loop over the cells of an MSM notes lock times, and nothing else.
LEMMA CellsMove ==
  ASSUME NEW r, Sender(r), NEW sys, NEW kind, NEW sats, NEW sigs
  PROVE  Moved(r, gen_msm_sig(r, sys, kind, sats, sigs).rtcm)
<1> DEFINE ctx == [from |-> r, sys |-> sys, kind |-> kind, sats |-> sats, sigs |-> sigs]
           start == [cells |-> <<>>, rtcm |-> r]
           seq == MsmSlots(r, sys)
<1>1. PICK n \in Nat : DOMAIN seq = 1 .. n
  BY SlotsCounted
<1>2. gen_msm_sig(r, sys, kind, sats, sigs) = SigLoop!Loop(ctx, start, seq)
  BY DEF gen_msm_sig, SigPass, SigLoop!Loop, FoldLeft, MapThenFoldSet, SigLoop!Greatest, Max
<1>3. SigGood(ctx, 0, start)
  BY MovedItself DEF SigGood
<1>4. ASSUME NEW i \in 1 .. n, NEW s, SigGood(ctx, i - 1, s)
      PROVE  SigGood(ctx, i, SigPass(ctx, s, seq[i]))
  BY <1>4, CellMoves DEF SigGood, SigPass, AddCell
<1> HIDE DEF seq, start, ctx
<1>5. SigGood(ctx, n, SigLoop!Loop(ctx, start, seq))
  BY <1>1, <1>3, <1>4, SigLoop!LoopKeeps
<1> QED
  BY <1>2, <1>5 DEF SigGood, ctx

\* What is read from finitely many places is finite.
LEMMA ImageCounted ==
  ASSUME NEW n \in Nat, NEW g
  PROVE  Cardinality({g[i] : i \in 1 .. n}) \in Nat
<1> DEFINE T == {g[i] : i \in 1 .. n}
           h == [i \in 1 .. n |-> g[i]]
<1>1. h \in Surjection(1 .. n, T)
  BY DEF Surjection
<1>3. IsFiniteSet(1 .. n)
  BY FS_Interval
<1> HIDE DEF T, h
<1>4. IsFiniteSet(T)
  BY <1>1, <1>3, FS_Surjection
<1> QED
  BY <1>4, FS_CardinalityType DEF T

\* The satellites and signals of an MSM are counted sequences.
LEMMA IndexCounted ==
  ASSUME NEW r, Sender(r), NEW sys
  PROVE  LET index == gen_msm_index(r, sys)
         IN  Counted(index.sats) /\ Counted(index.sigs)
<1> DEFINE index == gen_msm_index(r, sys)
           order(T) == InOrder(T, LAMBDA a, b : a < b)
           seq == MsmSlots(r, sys)
           sats == {to_satid(sys, r.obs[x[1]].sat) : x \in ToSet(seq)}
           sigs == {to_sigid(sys, r.obs[x[1]].code[x[2]]) : x \in ToSet(seq)}
<1>1. PICK n \in Nat : DOMAIN seq = 1 .. n
  BY SlotsCounted
<1> DEFINE satid == [i \in 1 .. n |-> to_satid(sys, r.obs[seq[i][1]].sat)]
           sigid == [i \in 1 .. n |-> to_sigid(sys, r.obs[seq[i][1]].code[seq[i][2]])]
<1>2. index.sats = order(sats) /\ index.sigs = order(sigs)
  BY DEF gen_msm_index
<1> HIDE DEF index, seq
<1>3. sats = {satid[i] : i \in 1 .. n} /\ sigs = {sigid[i] : i \in 1 .. n}
  BY <1>1 DEF ToSet
<1> HIDE DEF sats, sigs, satid, sigid
<1>4. Cardinality(sats) \in Nat /\ Cardinality(sigs) \in Nat
  BY <1>3, ImageCounted
<1>5. ASSUME NEW T, Cardinality(T) \in Nat PROVE Counted(order(T))
  <2> DEFINE At(i) == CHOOSE x \in T : Cardinality({y \in T : y < x}) = i - 1
  <2>1. order(T) = [i \in 1 .. Cardinality(T) |-> At(i)]
    BY DEF InOrder
  <2> HIDE DEF At
  <2> HIDE DEF order
  <2> QED
    BY <1>5, <2>1, CountedByDomain
<1> HIDE DEF order
<1> QED
  BY <1>2, <1>4, <1>5 DEF index

\* An MSM is well formed, of the type asked for and of the time of the epoch.
LEMMA MsmEncoded ==
  ASSUME NEW r, Sender(r), NEW sys \in Systems, NEW kind \in 1 .. 7, NEW sync \in BOOLEAN,
         NEW satbits, NEW cellbits
  PROVE  Encoded(r, EncodeMsm(r, sys, kind, sync, satbits, cellbits), MsmTypes[sys] + kind)
<1> DEFINE index == gen_msm_index(r, sys)
           sig == gen_msm_sig(r, sys, kind, index.sats, index.sigs)
           sigs == [k \in DOMAIN index.sigs |-> msm_sig[sys][index.sigs[k]]]
           h == encode_msm_head(r, sys, kind, sync, index)
           e == EncodeMsm(r, sys, kind, sync, satbits, cellbits)
           m == e.msg
           type == MsmTypes[sys] + kind
<1>1. e.ret = 1 /\ e.rtcm = h.rtcm /\ m = h.msg
  BY DEF EncodeMsm, MsmMessage, Accept
<1> HIDE DEF e
<1>2. h.rtcm = sig.rtcm
  BY DEF encode_msm_head
<1>3. Moved(r, h.rtcm)
  BY <1>2, CellsMove
<1>4. Counted(index.sats) /\ Counted(index.sigs)
  BY IndexCounted
<1>5. /\ {"type", "epoch", "sync", "sats", "sys", "kind", "sigs"} \subseteq DOMAIN h.msg
      /\ h.msg.type = type /\ h.msg.epoch = EpochOf(r.time, sys) /\ h.msg.sync = sync
      /\ h.msg.sats = index.sats /\ h.msg.sys = sys /\ h.msg.kind = kind
      /\ DOMAIN h.msg.sigs = DOMAIN index.sigs
  BY DEF encode_msm_head
<1> HIDE DEF h, index
<1>6. HasEpoch(m) /\ HasSats(m) /\ HasSigs(m)
  BY <1>1, <1>4, <1>5, EpochIsInteger DEF HasEpoch, HasSats, HasSigs, Counted, Sender
<1>7. type \in Int /\ sys \in MsmOf(type)
  BY DEF MsmOf, MsmTypes, Systems
<1> HIDE DEF type
<1>8. type \in 1071 .. 1127 /\ SsrOf(type) = {} /\ type \notin LegacyTypes
  BY <1>7, KindsApart DEF LegacyTypes
<1>9. WellFormed(m)
  BY <1>1, <1>5, <1>6, <1>7, <1>8 DEF WellFormed, type
<1>10. m.epoch = EpochTold(r.time, m)
  BY <1>1, <1>5, <1>7, <1>8 DEF EpochTold
<1> QED
  BY <1>1, <1>3, <1>5, <1>7, <1>9, <1>10 DEF Encoded, Timed, e, type

\* The satellites of an SSR message are a counted sequence.
LEMMA SatellitesCounted ==
  ASSUME NEW r, NEW sys
  PROVE  Counted(SsrSats(r, sys))
<1> DEFINE T == {s \in Sats : satsys(s) = sys /\ r.ssr[s].update}
           At(i) == CHOOSE x \in T : Cardinality({y \in T : y[2] < x[2]}) = i - 1
<1>1. SsrSats(r, sys) = [i \in 1 .. Cardinality(T) |-> At(i)]
  BY DEF SsrSats, InOrder
<1>2. T \in SUBSET Sats
  OBVIOUS
<1> HIDE DEF T, At
<1>3. Cardinality(T) \in Nat
  BY <1>2, SizesAssumption, FS_Subset, FS_CardinalityType
<1> QED
  BY <1>1, <1>3, CountedByDomain

\* An SSR message is well formed, of the type asked for and of the time.
LEMMA SsrEncoded ==
  ASSUME NEW r, Sender(r), NEW sys \in Systems, NEW kind \in 1 .. 6, NEW slot,
         NEW sync \in BOOLEAN, NEW fields, NEW bits
  PROVE  Encoded(r, EncodeSsr(r, sys, kind, slot, sync, fields, bits), SsrTypes[sys] + kind)
<1> DEFINE e == EncodeSsr(r, sys, kind, slot, sync, fields, bits)
           of == SsrSats(r, sys)
           Sat(s) == Joined([id |-> (s[2] - SsrSizes[sys].offp) % 2 ^ SsrSizes[sys].np], fields[s])
           sats == [j \in DOMAIN of |-> Sat(of[j])]
           h == encode_ssr_head(r, sys, kind, slot, sync)
           g == [sats |-> sats]
           m == Joined(h, g)
           type == SsrTypes[sys] + kind
           tow == EpochOf(r.time, IF sys = "GLO" THEN "GLO" ELSE "GPS")
<1>1. e.ret = 1 /\ e.rtcm = r /\ e.msg = m
  BY DEF EncodeSsr, Accept
<1>2. Counted(sats)
  <2>1. PICK n \in Nat : DOMAIN of = 1 .. n
    BY SatellitesCounted DEF Counted
  <2> HIDE DEF of, Sat
  <2>2. sats = [j \in 1 .. n |-> sats[j]]
    BY <2>1
  <2> QED
    BY <2>2, CountedByDomain
<1> HIDE DEF sats, e
<1>3. /\ {"type", "epoch", "sync", "sys", "kind"} \subseteq DOMAIN h /\ "sats" \notin DOMAIN h
      /\ h.type = type /\ h.epoch = tow /\ h.sync = sync /\ h.sys = sys /\ h.kind = kind
  BY DEF encode_ssr_head
<1>4. DOMAIN g = {"sats"} /\ g.sats = sats
  OBVIOUS
<1> HIDE DEF h, g
<1>5. /\ DOMAIN m = (DOMAIN h) \union {"sats"}
      /\ \A x \in DOMAIN h : m[x] = h[x]
      /\ "sats" \in (DOMAIN g) \ DOMAIN h => m["sats"] = g["sats"]
  BY <1>4 DEF Joined
<1> HIDE DEF m, type, tow
<1>6. /\ {"type", "epoch", "sync", "sys", "kind", "sats"} \subseteq DOMAIN m
      /\ m.type = type /\ m.epoch = tow /\ m.sync = sync /\ m.sys = sys /\ m.kind = kind
      /\ m.sats = sats
  BY <1>3, <1>4, <1>5
<1>7. tow \in Int
  BY EpochIsInteger DEF Sender, tow
<1>8. HasEpoch(m) /\ HasSats(m)
  BY <1>2, <1>6, <1>7 DEF HasEpoch, HasSats, Counted
<1>9. type \in Int /\ sys \in SsrOf(type)
  BY DEF SsrOf, SsrTypes, Systems, type
<1>10. MsmOf(type) = {} /\ type \notin LegacyTypes
  BY <1>9, KindsApart DEF LegacyTypes
<1>11. WellFormed(m)
  BY <1>6, <1>8, <1>9, <1>10 DEF WellFormed, type
<1>12. m.epoch = EpochTold(r.time, m)
  BY <1>6, <1>10 DEF EpochTold, LegacyTypes, tow
<1>13. m.type = type /\ Moved(r, r)
  BY <1>6, MovedItself
<1> QED
  BY <1>1, <1>9, <1>11, <1>12, <1>13 DEF Encoded, Timed, e, type

\* The types of MSM and SSR go to the functions of their system and kind.
LEMMA KindsEncoded ==
  ASSUME NEW r, Sender(r), NEW sys \in Systems, NEW sync \in BOOLEAN
  PROVE  /\ \A kind \in 1 .. 7 : Encoded(r, EncodeMsmKind(r, sys, kind, sync), MsmTypes[sys] + kind)
         /\ \A kind \in 1 .. 6 : Encoded(r, EncodeSsrKind(r, sys, kind, sync), SsrTypes[sys] + kind)
<1>1. ASSUME NEW kind \in 1 .. 7
      PROVE  Encoded(r, EncodeMsmKind(r, sys, kind, sync), MsmTypes[sys] + kind)
  <2>1. \E satbits, cellbits :
          EncodeMsmKind(r, sys, kind, sync) = EncodeMsm(r, sys, kind, sync, satbits, cellbits)
    BY DEF EncodeMsmKind, encode_msm1, encode_msm2, encode_msm3, encode_msm4, encode_msm5,
           encode_msm6, encode_msm7
  <2> QED
    BY <2>1, MsmEncoded
<1>2. ASSUME NEW kind \in 1 .. 6
      PROVE  Encoded(r, EncodeSsrKind(r, sys, kind, sync), SsrTypes[sys] + kind)
  <2> DEFINE E(n, slot, fields, bits) == EncodeSsr(r, sys, n, slot, sync, fields, bits)
             orbit == Orbit(r, sys)
             clock == Clock(r)
             cbias == [s \in Sats |-> [cbias |-> r.ssr[s].cbias]]
             both == [s \in Sats |-> Joined(Orbit(r, sys)[s], Clock(r)[s])]
             ura == [s \in Sats |-> [ura |-> r.ssr[s].ura % 64]]
             hrclk == [s \in Sats |-> [hrclk |-> r.ssr[s].hrclk]]
             e3 == E(3, 4, cbias, 0)
  <2>1. /\ encode_ssr1(r, sys, sync) = E(1, 0, orbit, 121 + OrbitBits(sys))
        /\ encode_ssr2(r, sys, sync) = E(2, 1, clock, 70 + SsrSizes[sys].np)
        /\ encode_ssr3(r, sys, sync) = [e3 EXCEPT !.bits = @ + BiasBits(sys, e3.msg.sats)]
        /\ encode_ssr4(r, sys, sync) = E(4, 0, both, 191 + OrbitBits(sys))
        /\ encode_ssr5(r, sys, sync) = E(5, 3, ura, 6 + SsrSizes[sys].np)
        /\ encode_ssr6(r, sys, sync) = E(6, 2, hrclk, 22 + SsrSizes[sys].np)
    BY Zenon DEF encode_ssr1, encode_ssr2, encode_ssr3, encode_ssr4, encode_ssr5, encode_ssr6
  <2>2. \E ret, msg, bits, rtcm : e3 = [ret |-> ret, msg |-> msg, bits |-> bits, rtcm |-> rtcm]
    BY DEF EncodeSsr, Accept
  <2>3. \A n \in 1 .. 6 : \A slot, fields, bits :
          Encoded(r, E(n, slot, fields, bits), SsrTypes[sys] + n)
    BY SsrEncoded
  <2> HIDE DEF E, orbit, clock, cbias, both, ura, hrclk
  <2>4. Encoded(r, e3, SsrTypes[sys] + 3)
    BY <2>3
  <2> HIDE DEF e3
  <2> DEFINE f3 == [e3 EXCEPT !.bits = @ + BiasBits(sys, e3.msg.sats)]
  <2>5. f3.ret = e3.ret /\ f3.msg = e3.msg /\ f3.rtcm = e3.rtcm
    BY <2>2
  <2> HIDE DEF f3
  <2>6. Encoded(r, f3, SsrTypes[sys] + 3)
    BY <2>4, <2>5 DEF Encoded
  <2>7. /\ kind = 1 => EncodeSsrKind(r, sys, kind, sync) = encode_ssr1(r, sys, sync)
        /\ kind = 2 => EncodeSsrKind(r, sys, kind, sync) = encode_ssr2(r, sys, sync)
        /\ kind = 3 => EncodeSsrKind(r, sys, kind, sync) = encode_ssr3(r, sys, sync)
        /\ kind = 4 => EncodeSsrKind(r, sys, kind, sync) = encode_ssr4(r, sys, sync)
        /\ kind = 5 => EncodeSsrKind(r, sys, kind, sync) = encode_ssr5(r, sys, sync)
        /\ kind = 6 => EncodeSsrKind(r, sys, kind, sync) = encode_ssr6(r, sys, sync)
    BY DEF EncodeSsrKind
  <2>8. kind \in {1, 2, 3, 4, 5, 6}
    OBVIOUS
  <2>9. encode_ssr3(r, sys, sync) = f3
    BY <2>1 DEF f3
  <2> QED
    BY <2>1, <2>3, <2>6, <2>7, <2>8, <2>9
<1> QED
  BY <1>1, <1>2

\* Whatever type is asked for, encode_rtcm3 makes a well formed message of it,
\* with the time of its epoch, or none.
LEMMA EveryEncoded ==
  ASSUME NEW r, Sender(r), NEW type \in Int, NEW sync \in BOOLEAN
  PROVE  Encoded(r, encode_rtcm3(r, type, sync), type)
<1> DEFINE e == encode_rtcm3(r, type, sync)
           M == CHOOSE s \in MsmOf(type) : TRUE
           S == CHOOSE s \in SsrOf(type) : TRUE
<1>1. e = CASE type = 1001 -> encode_type1001(r, sync)
        [] type = 1002 -> encode_type1002(r, sync)
        [] type = 1003 -> encode_type1003(r, sync)
        [] type = 1004 -> encode_type1004(r, sync)
        [] type = 1005 -> encode_type1005(r)
        [] type = 1006 -> encode_type1006(r)
        [] type = 1007 -> encode_type1007(r)
        [] type = 1008 -> encode_type1008(r)
        [] type = 1009 -> encode_type1009(r, sync)
        [] type = 1010 -> encode_type1010(r, sync)
        [] type = 1011 -> encode_type1011(r, sync)
        [] type = 1012 -> encode_type1012(r, sync)
        [] type = 1019 -> encode_type1019(r)
        [] type = 1020 -> encode_type1020(r)
        [] type = 1033 -> encode_type1033(r)
        [] type = 1042 -> encode_type1042(r)
        [] type = 63   -> encode_type63(r)
        [] type = 1044 -> encode_type1044(r)
        [] type = 1045 -> encode_type1045(r)
        [] type = 1046 -> encode_type1046(r)
        [] MsmOf(type) # {} -> EncodeMsmKind(r, M, type - MsmTypes[M], sync)
        [] SsrOf(type) # {} -> EncodeSsrKind(r, S, type - SsrTypes[S], sync)
        [] OTHER -> Refuse(r)
  BY Zenon DEF encode_rtcm3, MsmOf, SsrOf
<1>2. /\ MsmOf(type) # {} => type \in 1071 .. 1127
      /\ SsrOf(type) # {} => type \in 1057 .. 1068 \/ type \in 1240 .. 1263
  BY KindsApart
<1> SUFFICES Encoded(r, e, type)
  OBVIOUS
<1> HIDE DEF e
<1>3. CASE type \in 1001 .. 1004
  <2>1. /\ type = 1001 => e = encode_type1001(r, sync)
        /\ type = 1002 => e = encode_type1002(r, sync)
        /\ type = 1003 => e = encode_type1003(r, sync)
        /\ type = 1004 => e = encode_type1004(r, sync)
    BY <1>1, <1>2
  <2>2. type = 1001 \/ type = 1002 \/ type = 1003 \/ type = 1004
    BY <1>3
  <2>3. PICK satbits : e = EncodeLegacy(r, type, "GPS", sync, {"GPS", "SBS"}, 64, satbits)
    BY <2>1, <2>2 DEF encode_type1001, encode_type1002, encode_type1003, encode_type1004, EncodeGps
  <2>4. ASSUME NEW sys, sys = "GPS"
        PROVE  Encoded(r, EncodeLegacy(r, type, sys, sync, {"GPS", "SBS"}, 64, satbits), type)
    BY <1>3, <2>4, LegacyEncoded
  <2> QED
    BY <2>3, <2>4
<1>4. CASE type \in 1009 .. 1012
  <2>1. /\ type = 1009 => e = encode_type1009(r, sync)
        /\ type = 1010 => e = encode_type1010(r, sync)
        /\ type = 1011 => e = encode_type1011(r, sync)
        /\ type = 1012 => e = encode_type1012(r, sync)
    BY <1>1, <1>2
  <2>2. type = 1009 \/ type = 1010 \/ type = 1011 \/ type = 1012
    BY <1>4
  <2>3. PICK satbits : e = EncodeLegacy(r, type, "GLO", sync, {"GLO"}, 61, satbits)
    BY <2>1, <2>2 DEF encode_type1009, encode_type1010, encode_type1011, encode_type1012, EncodeGlo
  <2> QED
    BY <1>4, <2>3, LegacyEncoded
<1>5. CASE type \in {1005, 1006, 1007, 1008, 1033}
  <2>1. /\ type = 1005 => e = encode_type1005(r)
        /\ type = 1006 => e = encode_type1006(r)
        /\ type = 1007 => e = encode_type1007(r)
        /\ type = 1008 => e = encode_type1008(r)
        /\ type = 1033 => e = encode_type1033(r)
    BY <1>1, <1>2
  <2> QED
    BY <1>5, <2>1, StationEncoded
<1>6. CASE type \in {1019, 1020, 1042, 63, 1044, 1045, 1046}
  <2>1. /\ type = 1019 => e = encode_type1019(r)
        /\ type = 1020 => e = encode_type1020(r)
        /\ type = 1042 => e = encode_type1042(r)
        /\ type = 63   => e = encode_type63(r)
        /\ type = 1044 => e = encode_type1044(r)
        /\ type = 1045 => e = encode_type1045(r)
        /\ type = 1046 => e = encode_type1046(r)
    BY <1>1, <1>2
  <2> QED
    BY <1>6, <2>1, EphemerisEncoded
<1>7. CASE MsmOf(type) # {}
  <2>1. e = EncodeMsmKind(r, M, type - MsmTypes[M], sync)
    BY <1>1, <1>2, <1>7
  <2>2. M \in Systems /\ type - MsmTypes[M] \in 1 .. 7
    BY <1>7 DEF MsmOf
  <2> HIDE DEF M
  <2>3. MsmTypes[M] \in Int
    BY <2>2 DEF MsmTypes, Systems
  <2>4. MsmTypes[M] + (type - MsmTypes[M]) = type
    BY <2>3
  <2>5. Encoded(r, EncodeMsmKind(r, M, type - MsmTypes[M], sync), MsmTypes[M] + (type - MsmTypes[M]))
    BY <2>2, KindsEncoded
  <2> QED
    BY <2>1, <2>4, <2>5
<1>8. CASE SsrOf(type) # {}
  <2>1. e = EncodeSsrKind(r, S, type - SsrTypes[S], sync)
    BY <1>1, <1>2, <1>8
  <2>2. S \in Systems /\ type - SsrTypes[S] \in 1 .. 6
    BY <1>8 DEF SsrOf
  <2> HIDE DEF S
  <2>3. SsrTypes[S] \in Int
    BY <2>2 DEF SsrTypes, Systems
  <2>4. SsrTypes[S] + (type - SsrTypes[S]) = type
    BY <2>3
  <2>5. Encoded(r, EncodeSsrKind(r, S, type - SsrTypes[S], sync), SsrTypes[S] + (type - SsrTypes[S]))
    BY <2>2, KindsEncoded
  <2> QED
    BY <2>1, <2>4, <2>5
<1>9. CASE /\ type \notin 1001 .. 1012 /\ MsmOf(type) = {} /\ SsrOf(type) = {}
           /\ type \notin {1033, 1019, 1020, 1042, 63, 1044, 1045, 1046}
  <2>1. e = Refuse(r)
    BY <1>1, <1>9
  <2> QED
    BY <2>1, Refused
<1> QED
  BY <1>3, <1>4, <1>5, <1>6, <1>7, <1>8, <1>9

HasParity(frame) == frame = [f \in DOMAIN frame |-> frame[f]] /\ "parity" \in DOMAIN frame

\* A frame is whole and has a well formed message, or there is none.
THEOREM FrameIsSound ==
  ASSUME NEW r, Sender(r), NEW type \in Int, NEW sync \in BOOLEAN
  PROVE  LET g == gen_rtcm3(r, type, sync)
         IN  /\ g.ret \in {0, 1} /\ Moved(r, g.rtcm)
             /\ HasParity(g.frame)
             /\ g.frame.parity = IF g.ret = 1 THEN TRUE ELSE FALSE
             /\ g.ret = 1 =>
                  /\ type \in PlainTypes \/ Timed(type)
                  /\ WellFormed(g.frame.msg) /\ g.frame.msg.type = type
                  /\ Timed(type) => g.frame.msg.epoch = EpochTold(r.time, g.frame.msg)
<1> DEFINE e == encode_rtcm3(r, type, sync)
           len == 3 + (e.bits + 7) \div 8
           g == Frame(e)
           m == Joined(e.msg, [len |-> len])
<1>1. Encoded(r, e, type)
  BY EveryEncoded
<1>2. g = IF e.ret = 0 \/ len >= 3 + 1024
          THEN [ret |-> 0, frame |-> [parity |-> FALSE], rtcm |-> e.rtcm]
          ELSE [ret |-> 1, frame |-> [parity |-> TRUE, msg |-> m], rtcm |-> e.rtcm]
  BY DEF Frame
<1>3. gen_rtcm3(r, type, sync) = g
  BY DEF gen_rtcm3
<1> SUFFICES /\ g.ret \in {0, 1} /\ Moved(r, g.rtcm)
             /\ HasParity(g.frame)
             /\ g.frame.parity = IF g.ret = 1 THEN TRUE ELSE FALSE
             /\ g.ret = 1 =>
                  /\ type \in PlainTypes \/ Timed(type)
                  /\ WellFormed(g.frame.msg) /\ g.frame.msg.type = type
                  /\ Timed(type) => g.frame.msg.epoch = EpochTold(r.time, g.frame.msg)
  BY <1>3, Zenon
<1>4. e.ret = 1 => /\ WellFormed(m) /\ m.type = type
                   /\ Timed(type) => m.epoch = EpochTold(r.time, m)
  <2> HIDE DEF e, len
  <2>1. ASSUME e.ret = 1
        PROVE  /\ WellFormed(m) /\ m.type = type
               /\ Timed(type) => m.epoch = EpochTold(r.time, m)
    <3>1. WellFormed(e.msg) /\ e.msg.type = type
          /\ (Timed(type) => e.msg.epoch = EpochTold(r.time, e.msg))
      BY <1>1, <2>1 DEF Encoded
    <3>2. WellFormed(m) /\ m.type = type /\ ("epoch" \in DOMAIN e.msg => m.epoch = e.msg.epoch)
      BY <3>1, JoinedWellFormed
    <3>3. Timed(type) => "epoch" \in DOMAIN e.msg
      BY <3>1 DEF Timed, WellFormed, HasEpoch
    <3>4. "sys" \in DOMAIN e.msg => m.sys = e.msg.sys
      BY DEF Joined
    <3>5. MsmOf(type) # {} \/ SsrOf(type) # {} => "sys" \in DOMAIN e.msg
      BY <3>1 DEF WellFormed
    <3>6. Timed(type) => EpochTold(r.time, m) = EpochTold(r.time, e.msg)
      <4>1. CASE MsmOf(type) # {} \/ SsrOf(type) # {}
        BY <3>1, <3>2, <3>4, <3>5, <4>1 DEF EpochTold
      <4>2. CASE type \in LegacyTypes /\ MsmOf(type) = {}
        <5> HIDE DEF m
        <5>1. type \in 1001 .. 1004 \/ type \in 1009 .. 1012
          BY <4>2 DEF LegacyTypes
        <5> QED
          BY <3>1, <3>2, <4>2, <5>1 DEF EpochTold
      <4> QED
        BY <4>1, <4>2 DEF Timed
    <3> QED
      BY <3>1, <3>2, <3>3, <3>6
  <2> QED
    BY <2>1
<1> HIDE DEF e, g, len, m
<1>5. CASE e.ret = 0 \/ len >= 3 + 1024
  <2> DEFINE f == [parity |-> FALSE]
  <2>1. g = [ret |-> 0, frame |-> f, rtcm |-> e.rtcm]
    BY <1>2, <1>5
  <2>2. f = [x \in DOMAIN f |-> f[x]] /\ "parity" \in DOMAIN f /\ f.parity = FALSE
    OBVIOUS
  <2> HIDE DEF f
  <2>3. g.ret = 0 /\ g.rtcm = e.rtcm /\ g.frame = f
    BY <2>1
  <2>4. g.ret # 1 /\ Moved(r, g.rtcm)
    BY <1>1, <2>3 DEF Encoded
  <2> QED
    BY <2>2, <2>3, <2>4 DEF HasParity
<1>6. CASE ~(e.ret = 0 \/ len >= 3 + 1024)
  <2> DEFINE f == [parity |-> TRUE, msg |-> m]
  <2>1. g = [ret |-> 1, frame |-> f, rtcm |-> e.rtcm]
    BY <1>2, <1>6
  <2>2. f = [x \in DOMAIN f |-> f[x]] /\ "parity" \in DOMAIN f /\ f.parity = TRUE /\ f.msg = m
    OBVIOUS
  <2> HIDE DEF f
  <2>3. g.ret = 1 /\ g.rtcm = e.rtcm /\ g.frame = f
    BY <2>1
  <2>4. e.ret = 1
    BY <1>1, <1>6 DEF Encoded
  <2> QED
    BY <1>1, <1>4, <2>2, <2>3, <2>4 DEF Encoded, HasParity
<1> QED
  BY <1>5, <1>6

-----------------------------------------------------------------------------
(* The time of an epoch, told and found again.                             *)

\* BeiDou sends the time of its own week, 14 seconds behind that of GPS.
LEMMA BeidouTimeFound ==
  ASSUME NEW t \in Int, NEW k \in Int, Within(t, k, Week)
  PROVE  WeekTime(k, Tow(gpst2bdt(t)) + 14) = t
<1> DEFINE b == gpst2bdt(t)
<1>b. b \in Int /\ t = b + 14
  BY DEF gpst2bdt
<1> HIDE DEF b
<1>1a. PICK m \in Int, x \in Int : x = Tow(b) /\ Cut(b, Week, m, x)
  BY <1>b, WeekAndTow, Zenon DEF Cut
<1>2a. PICK n \in Int, p \in Int : n = WeekOf(k) /\ p = Tow(k) /\ Cut(k, Week, n, p)
  BY WeekAndTow, Zenon DEF Cut
<1>1. t = m * 604800 + (x + 14) /\ 0 <= x /\ x < 604800
  BY <1>b, <1>1a DEF Cut, Week
<1>2. k = n * 604800 + p /\ 0 <= p /\ p < 604800
  BY <1>2a DEF Cut, Week
<1> DEFINE y == x + 14
<1>3. 2 * (t - k) < 604800 /\ 2 * (k - t) < 604800
  BY DEF Within, Week
<1>4. m \in {n - 1, n, n + 1}
  <2>1. t - k = (m - n) * 604800 + (x + 14 - p)
    BY <1>1, <1>2
  <2>2. m - n < 2 /\ n - m < 2
    BY <1>1, <1>2, <1>3, <2>1
  <2> QED
    BY <2>2
<1>5. n * 604800 + Near(y, p, Week) = t
  <2>1. CASE m = n
    BY <1>1, <1>2, <1>3, <2>1 DEF Near, Week
  <2>2. CASE m = n + 1
    BY <1>1, <1>2, <1>3, <2>2 DEF Near, Week
  <2>3. CASE m = n - 1
    BY <1>1, <1>2, <1>3, <2>3 DEF Near, Week
  <2> QED
    BY <1>4, <2>1, <2>2, <2>3
<1> QED
  BY <1>1a, <1>2a, <1>5 DEF WeekTime, gpst2time, Week, b

\* The times of week and of day of each system are found again.
LEMMA TimesFound ==
  ASSUME NEW t \in Int, NEW k \in Int
  PROVE  /\ Within(t, k, Week) => WeekTime(k, EpochOf(t, "GPS")) = t
         /\ Within(t, k, Day) => DayTime(k, EpochOf(t, "GLO")) = t
         /\ \A sys \in Systems \ {"GLO", "CMP"} : Within(t, k, Week) => WeekTime(k, EpochOf(t, sys)) = t
         /\ Within(t, k, Week) => WeekTime(k, EpochOf(t, "CMP") + 14) = t
<1>1. \A sys \in {"GPS"} \union (Systems \ {"GLO", "CMP"}) : EpochOf(t, sys) = Tow(t)
  BY DEF EpochOf
<1>2. Within(t, k, Week) => WeekTime(k, Tow(t)) = t
  BY TowIsRight DEF WeekTime
<1>3. Within(t, k, Day) => DayTime(k, EpochOf(t, "GLO")) = t
  <2> SUFFICES ASSUME Within(t, k, Day) PROVE DayTime(k, EpochOf(t, "GLO")) = t
    OBVIOUS
  <2>1. GlonassDay(t) \in Int /\ GlonassDay(k) \in Int
    BY TimesAreIntegers
  <2>2. Within(GlonassDay(t), GlonassDay(k), Day)
    BY DEF Within, GlonassDay, gpst2utc, Leaps, MoscowOffset, Day
  <2> DEFINE day == GlonassDay(k)
             glot == gpst2time(WeekOf(day), Tow(day) - Tod(day) + Near(Tod(GlonassDay(t)), Tod(day), Day))
  <2>3. glot = GlonassDay(t)
    BY <2>1, <2>2, TodIsRight
  <2>4. EpochOf(t, "GLO") = Tod(GlonassDay(t))
    BY DEF EpochOf, Tod
  <2>5. DayTime(k, EpochOf(t, "GLO")) = utc2gpst(glot - MoscowOffset)
    BY <2>4 DEF DayTime
  <2> HIDE DEF glot
  <2>6. utc2gpst(GlonassDay(t) - MoscowOffset) = t
    BY DEF GlonassDay, gpst2utc, utc2gpst, Leaps, MoscowOffset
  <2> QED
    BY <2>3, <2>5, <2>6
<1>4. EpochOf(t, "CMP") = Tow(gpst2bdt(t))
  BY DEF EpochOf
<1> QED
  BY <1>1, <1>2, <1>3, <1>4, BeidouTimeFound

\* The types of which the week or the day of Moscow is missing.
GloTypes == (1009 .. 1012) \union (1081 .. 1087) \union (1063 .. 1068)

\* What the encoder told of a time within half a period is that time to the
\* decoder, for every type of message that has one.
LEMMA MessageTimed ==
  ASSUME NEW t \in Int, NEW k \in Int, NEW msg, WellFormed(msg), Timed(msg.type),
         msg.epoch = EpochTold(t, msg),
         Within(t, k, IF msg.type \in GloTypes THEN Day ELSE Week)
  PROVE  TimeOf(k, msg) = t
<1>1. /\ MsmOf(msg.type) # {} => msg.type \in 1071 .. 1127
      /\ SsrOf(msg.type) # {} => \/ msg.type \in 1057 .. 1068
                                 \/ msg.type \in 1240 .. 1263
      /\ msg.type \in Int
  BY KindsApart DEF WellFormed
<1>2. Within(t, k, Week)
  BY DEF Within, Day, Week
<1>3. CASE msg.type \in 1001 .. 1004
  <2>1. EpochTold(t, msg) = EpochOf(t, "GPS")
    BY <1>1, <1>3 DEF EpochTold
  <2>2. TimeOf(k, msg) = WeekTime(k, msg.epoch)
    BY <1>1, <1>3 DEF TimeOf
  <2> QED
    BY <1>2, <2>1, <2>2, TimesFound
<1>4. CASE msg.type \in 1009 .. 1012
  <2>1. EpochTold(t, msg) = EpochOf(t, "GLO")
    BY <1>1, <1>4 DEF EpochTold
  <2>2. TimeOf(k, msg) = DayTime(k, msg.epoch)
    BY <1>1, <1>4 DEF TimeOf
  <2>3. Within(t, k, Day)
    BY <1>4 DEF GloTypes
  <2> QED
    BY <2>1, <2>2, <2>3, TimesFound
<1>5. CASE MsmOf(msg.type) # {}
  <2>1. EpochTold(t, msg) = EpochOf(t, msg.sys)
    BY <1>1, <1>5 DEF EpochTold
  <2>2. TimeOf(k, msg) = MsmTime(k, msg, msg.sys)
    BY <1>1, <1>5 DEF TimeOf
  <2>3. msg.sys \in Systems /\ msg.kind \in 1 .. 7 /\ msg.type = MsmTypes[msg.sys] + msg.kind
    BY <1>5 DEF WellFormed
  <2>4. msg.sys = "GLO" => Within(t, k, Day)
    <3>1. msg.sys = "GLO" => msg.type \in 1081 .. 1087
      BY <2>3 DEF MsmTypes
    <3> QED
      BY <3>1 DEF GloTypes
  <2>5. CASE msg.sys = "GLO"
    BY <2>1, <2>2, <2>4, <2>5, TimesFound DEF MsmTime
  <2>6. CASE msg.sys = "CMP"
    BY <1>2, <2>1, <2>2, <2>6, TimesFound DEF MsmTime
  <2>7. CASE msg.sys \in Systems \ {"GLO", "CMP"}
    BY <1>2, <2>1, <2>2, <2>7, TimesFound DEF MsmTime
  <2> QED
    BY <2>3, <2>5, <2>6, <2>7
<1>6. CASE SsrOf(msg.type) # {}
  <2>0. msg.type \notin 1001 .. 1004 /\ msg.type \notin 1009 .. 1012 /\ MsmOf(msg.type) = {}
    BY <1>1, <1>6
  <2>1. EpochTold(t, msg) = EpochOf(t, IF msg.sys = "GLO" THEN "GLO" ELSE "GPS")
    BY <2>0 DEF EpochTold
  <2>2. TimeOf(k, msg) = SsrTimeOf(k, msg, msg.sys)
    BY <2>0 DEF TimeOf
  <2>3. msg.sys = "GLO" => Within(t, k, Day)
    <3>1. msg.kind \in 1 .. 6 /\ msg.type = SsrTypes[msg.sys] + msg.kind
      BY <1>6 DEF WellFormed
    <3>2. msg.sys = "GLO" => msg.type \in 1063 .. 1068
      BY <3>1 DEF SsrTypes
    <3> QED
      BY <3>2 DEF GloTypes
  <2>5. CASE msg.sys = "GLO"
    BY <2>1, <2>2, <2>3, <2>5, TimesFound DEF SsrTimeOf
  <2>6. CASE msg.sys # "GLO"
    BY <1>2, <2>1, <2>2, <2>6, TimesFound DEF SsrTimeOf
  <2> QED
    BY <2>5, <2>6
<1> QED
  BY <1>3, <1>4, <1>5, <1>6 DEF Timed, LegacyTypes

-----------------------------------------------------------------------------
(* Both ends.                                                              *)

\* Both ends begin with the structure that init_rtcm makes.
LEMMA StructureMade ==
  IsRtcm(init_rtcm) /\ init_rtcm.obs = <<>> /\ init_rtcm.time = 0 /\ init_rtcm.clock = 0
  /\ init_rtcm.ephsat = NoSat
BY Zenon DEF IsRtcm, Fields, init_rtcm

\* A receiver starts with an empty buffer.
LEMMA DecoderMade ==
  ASSUME NEW opt
  PROVE  Sound([init_rtcm EXCEPT !.opt = opt]) /\ [init_rtcm EXCEPT !.opt = opt].opt = opt
<1> DEFINE r == [init_rtcm EXCEPT !.opt = opt]
<1>1. /\ IsRtcm(r) /\ r.obs = <<>> /\ r.time = 0 /\ r.clock = 0 /\ r.ephsat = NoSat /\ r.opt = opt
  BY StructureMade DEF IsRtcm, Fields
<1> HIDE DEF r
<1>2. OneEpochEachOnce(r, {})
  <2>1. r.obs \in Seq({}) /\ Len(r.obs) = 0
    BY <1>1, EmptySeq, Zenon
  <2>2. Len(r.obs) <= MAXOBS /\ 1 .. Len(r.obs) = {}
    BY <2>1, SizesAssumption, SMT
  <2> QED
    BY <2>1, <2>2 DEF OneEpochEachOnce
<1>3. Buffer(r)
  BY <1>1, <1>2 DEF Buffer
<1> QED
  BY <1>1, <1>3 DEF Sound, r

\* A station's program fills the structure for an epoch.
LEMMA Observed ==
  ASSUME NEW p \in Plans, NEW rtcm, IsRtcm(rtcm), NEW sta, NEW time \in Int,
         NEW n, NEW jumped, NEW slips, NEW latest
  PROVE  LET r == Observe(p, rtcm, sta, time, n, jumped, slips, latest)
         IN  Sender(r) /\ r.time = time
<1> DEFINE known(kind) == IF kind \in p.renewed THEN latest ELSE 0
           obs == [i \in DOMAIN p.tracks |->
                     Measurement(p, p.tracks[i], time, n, jumped[p.tracks[i].sat],
                                 p.tracks[i].sat \in slips, sta)]
           eph == [s \in Sats |-> IF satsys(s) # "GLO" THEN EphOfIssue(p, s, known("eph")) ELSE rtcm.eph[s]]
           geph == [s \in Sats |-> IF satsys(s) = "GLO" THEN GephOfIssue(p, s, known("eph")) ELSE rtcm.geph[s]]
           ssr == [s \in Sats |-> IF s \in InView(p) THEN SsrOfIssue(known("ssr")) ELSE rtcm.ssr[s]]
           own == StaOfIssue(known("sta"))
           r == Observe(p, rtcm, sta, time, n, jumped, slips, latest)
<1>1. r = [rtcm EXCEPT !.time = time, !.staid = sta, !.obs = obs, !.eph = eph, !.geph = geph,
                       !.ssr = ssr, !.sta = own]
  BY Zenon DEF Observe
<1>2. p.tracks \in Seq([sat : Sats, code : [Slots -> STRING], phase : Int])
  BY PlansAssumption
<1>3. Len(p.tracks) \in Nat /\ DOMAIN p.tracks = 1 .. Len(p.tracks)
  BY <1>2
<1>4. obs = [i \in 1 .. Len(p.tracks) |-> obs[i]]
  BY <1>3
<1> HIDE DEF obs, eph, geph, ssr, own, r, known
<1>5. Counted(obs)
  BY <1>3, <1>4, CountedByDomain
<1>6. IsRtcm(r) /\ r.time = time /\ r.obs = obs
  BY <1>1 DEF IsRtcm, Fields
<1> QED
  BY <1>5, <1>6 DEF Sender, r

\* The station's program starts again and fills a new structure.
LEMMA StationRestarted ==
  ASSUME NEW old, Sender(old), NEW s
  PROVE  LET r == [init_rtcm EXCEPT !.time = old.time, !.staid = s, !.obs = old.obs,
                     !.eph = old.eph, !.geph = old.geph, !.ssr = old.ssr, !.sta = old.sta]
         IN  Sender(r) /\ r.time = old.time
<1> DEFINE r == [init_rtcm EXCEPT !.time = old.time, !.staid = s, !.obs = old.obs,
                     !.eph = old.eph, !.geph = old.geph, !.ssr = old.ssr, !.sta = old.sta]
<1>1. IsRtcm(r) /\ r.time = old.time /\ r.obs = old.obs
  BY StructureMade DEF IsRtcm, Fields
<1> HIDE DEF r
<1>2. Sender(r) /\ r.time = old.time
  BY <1>1 DEF Sender
<1> QED
  BY <1>2 DEF r

\* The program chooses the satellite of an ephemeris.
LEMMA Loaded ==
  ASSUME NEW r, Sender(r), NEW m
  PROVE  Sender(Load(r, m)) /\ Load(r, m).time = r.time
<1> DEFINE s == [r EXCEPT !.ephsat = m.sat]
<1>1. IsRtcm(s) /\ s.time = r.time /\ s.obs = r.obs
  BY DEF Sender, IsRtcm, Fields
<1> HIDE DEF s
<1>2. Sender(s) /\ s.time = r.time
  BY <1>1 DEF Sender
<1> QED
  BY <1>2 DEF Load, s

\* The receiver's clock is read when a message comes.
LEMMA ClockRead ==
  ASSUME NEW r, Sound(r), NEW c \in Int
  PROVE  LET s == [r EXCEPT !.clock = c]
         IN  Sound(s) /\ s.clock = c /\ s.opt = r.opt /\ s.time = r.time
<1> DEFINE s == [r EXCEPT !.clock = c]
<1>1. /\ IsRtcm(s) /\ s.time = r.time /\ s.obs = r.obs /\ s.obstime = r.obstime
      /\ s.clock = c /\ s.opt = r.opt /\ s.ephsat = r.ephsat
  BY DEF Sound, IsRtcm, Fields
<1> HIDE DEF s
<1>2. \A Obs : OneEpochEachOnce(r, Obs) => OneEpochEachOnce(s, Obs)
  BY <1>1 DEF OneEpochEachOnce
<1>3. Buffer(s)
  BY <1>1, <1>2 DEF Buffer, Sound
<1>4. Sound(s) /\ s.clock = c /\ s.opt = r.opt /\ s.time = r.time
  BY <1>1, <1>3 DEF Sound
<1> QED
  BY <1>4 DEF s

\* Encoding moves lock times and carrier phases of the sender only.
LEMMA SenderMoved ==
  ASSUME NEW r, Sender(r), NEW s, Moved(r, s)
  PROVE  Sender(s) /\ s.time = r.time
<1>1. s.time = r.time /\ s.obs = r.obs
  BY DEF Moved, Fields
<1> QED
  BY <1>1 DEF Sender, Moved

\* What holds at both ends and between them.
LinkInv ==
  /\ plan \in Plans /\ now \in Int
  /\ next \in 1 .. Len(plan.msgs) + 1 /\ epoch \in 0 .. plan.epochs
  /\ enc = [s \in Stations |-> enc[s]]
  /\ \A s \in Stations : Sender(enc[s]) /\ enc[s].time = now
  /\ Sound(dec) /\ dec.opt = plan.opt
  /\ answer.ret \in {-1, 0, 1, 2, 5, 10}
  /\ intact \in BOOLEAN /\ refused \in BOOLEAN

\* What becomes of a frame on its way.
Arrived(frame, damaged) == [frame EXCEPT !.parity = @ /\ ~damaged]

\* A message is made, its frame damaged or not, and decoded.
LEMMA FrameHeard ==
  ASSUME NEW e, Sender(e), NEW type \in Int, NEW sync \in BOOLEAN, NEW r, Sound(r),
         NEW damaged \in BOOLEAN, NEW g, g = gen_rtcm3(e, type, sync), NEW i,
         i = input_rtcm3(r, Arrived(g.frame, damaged))
  PROVE  /\ g.ret \in {0, 1} /\ Moved(e, g.rtcm)
         /\ Heard(r, i)
         /\ g.ret = 1 /\ ~damaged =>
              /\ type \in PlainTypes \/ Timed(type)
              /\ WellFormed(g.frame.msg) /\ g.frame.msg.type = type
              /\ Timed(type) =>
                   /\ g.frame.msg.epoch = EpochTold(e.time, g.frame.msg)
                   /\ i.ret >= 0 => i.rtcm.time = TimeOf(KnownTime(r), g.frame.msg)
<1> DEFINE f == [g.frame EXCEPT !.parity = @ /\ ~damaged]
           G == gen_rtcm3(e, type, sync)
<1>1. /\ G.ret \in {0, 1} /\ Moved(e, G.rtcm)
      /\ HasParity(G.frame)
      /\ G.frame.parity = IF G.ret = 1 THEN TRUE ELSE FALSE
      /\ G.ret = 1 =>
           /\ type \in PlainTypes \/ Timed(type)
           /\ WellFormed(G.frame.msg) /\ G.frame.msg.type = type
           /\ Timed(type) => G.frame.msg.epoch = EpochTold(e.time, G.frame.msg)
  BY ZenonT(60), FrameIsSound
<1>2. g = G
  OBVIOUS
<1> HIDE DEF G
<1>3. f.msg = g.frame.msg
  BY <1>1, <1>2 DEF HasParity
<1>4. i = input_rtcm3(r, f)
  BY DEF Arrived
<1>5. CASE g.ret = 1 /\ ~damaged
  <2> DEFINE msg == g.frame.msg
             d == decode_rtcm3(r, msg)
  <2>1. f.parity
    BY <1>1, <1>2, <1>5 DEF HasParity
  <2>2. i = d
    BY <1>3, <1>4, <2>1 DEF input_rtcm3
  <2>3. WellFormed(msg) /\ msg.type = type
    BY <1>1, <1>2, <1>5
  <2> HIDE DEF msg
  <2>4. /\ Heard(r, d)
        /\ Timed(msg.type) /\ d.ret >= 0 => d.rtcm.time = TimeOf(KnownTime(r), msg)
    BY <2>3, MessageDecoded
  <2> HIDE DEF d
  <2> QED
    BY <1>1, <1>2, <2>2, <2>3, <2>4 DEF msg
<1>6. CASE ~(g.ret = 1 /\ ~damaged)
  <2>1. ~f.parity
    BY <1>1, <1>2, <1>6 DEF HasParity
  <2>2. i = Nothing(r)
    BY <1>4, <2>1 DEF input_rtcm3
  <2>3. i.ret = 0 /\ i.rtcm = r
    BY <2>2 DEF Nothing
  <2> QED
    BY <1>1, <1>2, <1>6, <2>3 DEF Heard, Loose
<1> QED
  BY <1>5, <1>6

\* What is known of both ends when a message has been sent.
SentAs(type, damaged, clock, g, i) ==
  /\ g.ret \in {0, 1} /\ Sender(g.rtcm) /\ g.rtcm.time = now
  /\ i.ret \in {-1, 0, 1, 2, 5, 10} /\ Sound(i.rtcm)
  /\ i.rtcm.opt = dec.opt /\ i.rtcm.clock = clock
  /\ g.ret = 1 /\ ~damaged =>
       /\ type \in PlainTypes \/ Timed(type)
       /\ WellFormed(g.frame.msg) /\ g.frame.msg.type = type
       /\ Timed(type) =>
            /\ g.frame.msg.epoch = EpochTold(now, g.frame.msg)
            /\ i.ret >= 0 => i.rtcm.time = TimeOf(
                 IF dec.time = 0 \/ dec.opt.rtinp THEN utc2gpst(clock) ELSE dec.time, g.frame.msg)

\* The same of a message of the plan, sent as the invariant holds.
LEMMA MessageSent ==
  ASSUME LinkInv, NEW m, m.sta \in Stations, m.type \in Int, m.sync \in BOOLEAN,
         NEW damaged \in BOOLEAN, NEW g, g = gen_rtcm3(Load(enc[m.sta], m), m.type, m.sync),
         NEW clock \in Int, NEW i,
         i = input_rtcm3([dec EXCEPT !.clock = clock], Arrived(g.frame, damaged))
  PROVE  SentAs(m.type, damaged, clock, g, i)
<1>1. PICK e : Sender(e) /\ e.time = now /\ g = gen_rtcm3(e, m.type, m.sync)
  BY Loaded DEF LinkInv
<1>2. PICK r : /\ Sound(r) /\ r.clock = clock /\ r.opt = dec.opt /\ r.time = dec.time
               /\ i = input_rtcm3(r, Arrived(g.frame, damaged))
  BY ClockRead DEF LinkInv
<1>3. KnownTime(r) = IF dec.time = 0 \/ dec.opt.rtinp THEN utc2gpst(clock) ELSE dec.time
  BY <1>2 DEF KnownTime
<1>4. PICK type \in Int, sync \in BOOLEAN : type = m.type /\ g = gen_rtcm3(e, type, sync)
  BY <1>1
<1>5. /\ g.ret \in {0, 1} /\ Moved(e, g.rtcm)
      /\ Heard(r, i)
      /\ g.ret = 1 /\ ~damaged =>
              /\ type \in PlainTypes \/ Timed(type)
              /\ WellFormed(g.frame.msg) /\ g.frame.msg.type = type
              /\ Timed(type) =>
                   /\ g.frame.msg.epoch = EpochTold(e.time, g.frame.msg)
                   /\ i.ret >= 0 => i.rtcm.time = TimeOf(KnownTime(r), g.frame.msg)
  BY <1>1, <1>2, <1>4, FrameHeard
<1>6. Sender(g.rtcm) /\ g.rtcm.time = now
  BY <1>1, <1>5, SenderMoved
<1> QED
  BY <1>1, <1>2, <1>3, <1>4, <1>5, <1>6 DEF Heard, Loose, SentAs

\* The messages of a plan, and the stations that send them.
LEMMA MessagesOfPlan ==
  ASSUME plan \in Plans
  PROVE  /\ Len(plan.msgs) \in Nat /\ plan.epochs \in Nat /\ plan.start \in Int
         /\ plan.skew \in Int /\ plan.steps \subseteq Int
         /\ \A j \in 1 .. Len(plan.msgs) :
              LET m == plan.msgs[j]
              IN  m.sta \in Stations /\ m.type \in Int /\ m.sync \in BOOLEAN
<1>1. plan.msgs \in Seq([sta : Int, type : Int, sync : BOOLEAN, sat : Sats \union {NoSat}])
  BY PlansAssumption
<1>2. Len(plan.msgs) \in Nat /\ DOMAIN plan.msgs = 1 .. Len(plan.msgs)
  BY <1>1
<1>3. ASSUME NEW j \in 1 .. Len(plan.msgs)
      PROVE  plan.msgs[j] \in [sta : Int, type : Int, sync : BOOLEAN, sat : Sats \union {NoSat}]
  <2> DEFINE Msgs == [sta : Int, type : Int, sync : BOOLEAN, sat : Sats \union {NoSat}]
  <2>1. plan.msgs \in Seq(Msgs)
    BY <1>1
  <2> HIDE DEF Msgs
  <2>2. plan.msgs[j] \in Msgs
    BY <1>2, <2>1
  <2> QED
    BY <2>2 DEF Msgs
<1> QED
  BY <1>2, <1>3, PlansAssumption DEF Stations

\* The invariant holds at the start.
LEMMA InvInit ==
  ASSUME Init
  PROVE  LinkInv
<1>1. plan \in Plans /\ now \in Int /\ next \in 1 .. Len(plan.msgs) + 1 /\ epoch \in 0 .. plan.epochs
  BY MessagesOfPlan DEF Init
<1>2. IsRtcm(init_rtcm)
  BY StructureMade
<1>3. \A s \in Stations : LET r == Observe(plan, init_rtcm, s, now, 0, jumps, {}, 0)
                          IN  Sender(r) /\ r.time = now
  BY <1>1, <1>2, Observed
<1>4. enc = [s \in Stations |-> enc[s]] /\ \A s \in Stations : Sender(enc[s]) /\ enc[s].time = now
  BY <1>3 DEF Init
<1>5. Sound(dec) /\ dec.opt = plan.opt
  BY DecoderMade DEF Init, Decoder
<1>6. answer.ret \in {-1, 0, 1, 2, 5, 10} /\ intact \in BOOLEAN /\ refused \in BOOLEAN
  BY DEF Init, NoAnswer
<1> QED
  BY <1>1, <1>4, <1>5, <1>6 DEF LinkInv

\* A new epoch keeps it.
LEMMA InvMeasure ==
  ASSUME LinkInv, Measure
  PROVE  LinkInv'
<1>0. plan \in Plans /\ now \in Int /\ epoch \in 0 .. plan.epochs
      /\ \A s \in Stations : Sender(enc[s])
  BY DEF LinkInv
<1>1. plan' = plan /\ dec' = dec /\ refused' = refused /\ next' = 1 /\ intact' = TRUE /\ answer' = NoAnswer
  BY DEF Measure
<1>2. Stations' = Stations
  BY <1>1 DEF Stations
<1>3. now' \in Int /\ epoch' \in 0 .. plan.epochs
  BY <1>0, MessagesOfPlan DEF Measure
<1>4. PICK slips : enc' = [s \in Stations |->
                            Observe(plan, enc[s], s, now', epoch', jumps', slips, issue')]
  BY DEF Measure
<1>5. ASSUME NEW s \in Stations
      PROVE  Sender(enc'[s]) /\ enc'[s].time = now'
  <2> DEFINE r == Observe(plan, enc[s], s, now', epoch', jumps', slips, issue')
  <2>1. IsRtcm(enc[s])
    BY <1>0 DEF Sender
  <2>2. Sender(r) /\ r.time = now'
    BY <1>0, <1>3, <2>1, Observed
  <2>3. enc'[s] = r
    BY <1>4
  <2> HIDE DEF r
  <2> QED
    BY <2>2, <2>3
<1>6. enc' = [s \in Stations |-> enc'[s]]
  BY <1>4
<1>7. next' \in 1 .. Len(plan'.msgs) + 1
  BY <1>0, <1>1, MessagesOfPlan
<1>8. answer'.ret = 0
  BY <1>1 DEF NoAnswer
<1> QED
  BY <1>0, <1>1, <1>2, <1>3, <1>5, <1>6, <1>7, <1>8 DEF LinkInv

\* A message that is sent, heard or damaged, keeps it.
LEMMA InvSend ==
  ASSUME LinkInv, Send
  PROVE  LinkInv'
<1>0. plan \in Plans /\ now \in Int /\ epoch \in 0 .. plan.epochs /\ next \in 1 .. Len(plan.msgs)
  <2>1. plan \in Plans /\ next \in 1 .. Len(plan.msgs) + 1 /\ next <= Len(plan.msgs)
    BY DEF LinkInv, Send
  <2>2. Len(plan.msgs) \in Nat
    BY <2>1, MessagesOfPlan
  <2> QED
    BY <2>1, <2>2 DEF LinkInv
<1>e. enc = [s \in Stations |-> enc[s]] /\ \A s \in Stations : Sender(enc[s]) /\ enc[s].time = now
  BY DEF LinkInv
<1> DEFINE m == plan.msgs[next]
           clock == gpst2utc(now) + plan.skew
<1>1. m.sta \in Stations /\ m.type \in Int /\ m.sync \in BOOLEAN /\ clock \in Int
  BY <1>0, MessagesOfPlan DEF gpst2utc, Leaps
<1>2. PICK damaged \in IF faults < plan.losses THEN BOOLEAN ELSE {FALSE} :
        \E g \in {gen_rtcm3(Load(enc[m.sta], m), m.type, m.sync)} :
        \E i \in {input_rtcm3([dec EXCEPT !.clock = clock], [g.frame EXCEPT !.parity = @ /\ ~damaged])} :
          /\ enc' = [enc EXCEPT ![m.sta] = g.rtcm]
          /\ dec' = i.rtcm
          /\ faults' = IF damaged THEN faults + 1 ELSE faults
          /\ answer' = IF g.ret = 0 \/ damaged THEN NoAnswer
                       ELSE [ret |-> i.ret, type |-> m.type, sta |-> m.sta]
          /\ intact' = (intact /\ ~damaged /\ g.ret = 1 /\ i.ret >= 0)
          /\ refused' = IF i.ret = 1 THEN FALSE ELSE (refused \/ i.ret < 0)
          /\ handed' = IF i.ret = 1 THEN i.rtcm.time ELSE handed
          /\ last' = Note(g.rtcm, i.rtcm)
  BY Zenon DEF Send
<1>2a. damaged \in BOOLEAN
  OBVIOUS
<1>3. PICK g, i : /\ g = gen_rtcm3(Load(enc[m.sta], m), m.type, m.sync)
                  /\ i = input_rtcm3([dec EXCEPT !.clock = clock], [g.frame EXCEPT !.parity = @ /\ ~damaged])
                  /\ enc' = [enc EXCEPT ![m.sta] = g.rtcm]
                  /\ dec' = i.rtcm
                  /\ answer' = IF g.ret = 0 \/ damaged THEN NoAnswer
                               ELSE [ret |-> i.ret, type |-> m.type, sta |-> m.sta]
                  /\ intact' = (intact /\ ~damaged /\ g.ret = 1 /\ i.ret >= 0)
                  /\ refused' = IF i.ret = 1 THEN FALSE ELSE (refused \/ i.ret < 0)
  BY <1>2, Zenon
<1> HIDE DEF m, clock
<1>c. PICK mm, c : mm = m /\ c = clock
  OBVIOUS
<1>4. /\ g.ret \in {0, 1} /\ Sender(g.rtcm) /\ g.rtcm.time = now
      /\ i.ret \in {-1, 0, 1, 2, 5, 10} /\ Sound(i.rtcm) /\ i.rtcm.opt = dec.opt
  <2>1. mm.sta \in Stations /\ mm.type \in Int /\ mm.sync \in BOOLEAN /\ c \in Int
    BY <1>1, <1>c
  <2>2. /\ g = gen_rtcm3(Load(enc[mm.sta], mm), mm.type, mm.sync)
        /\ i = input_rtcm3([dec EXCEPT !.clock = c], Arrived(g.frame, damaged))
    BY <1>3, <1>c DEF Arrived
  <2>3. SentAs(mm.type, damaged, c, g, i)
    BY <1>2a, <2>1, <2>2, MessageSent
  <2> QED
    BY <2>3 DEF SentAs
<1>5. plan' = plan /\ now' = now /\ epoch' = epoch /\ next' = next + 1
  BY DEF Send, sentVars
<1>6. Stations' = Stations
  BY <1>5 DEF Stations
<1>7. enc' = [s \in Stations |-> enc'[s]] /\ \A s \in Stations : Sender(enc'[s]) /\ enc'[s].time = now
  BY <1>e, <1>1, <1>3, <1>4
<1>8. Sound(dec') /\ dec'.opt = plan'.opt
  BY <1>3, <1>4, <1>5 DEF LinkInv
<1>9. answer'.ret \in {-1, 0, 1, 2, 5, 10}
  BY <1>3, <1>4 DEF NoAnswer
<1>10. intact' \in BOOLEAN /\ refused' \in BOOLEAN
  BY <1>3 DEF LinkInv
<1>11. next' \in 1 .. Len(plan'.msgs) + 1
  BY <1>0, <1>5, MessagesOfPlan
<1> QED
  BY <1>0, <1>5, <1>6, <1>7, <1>8, <1>9, <1>10, <1>11 DEF LinkInv

\* An end that starts again keeps it.
LEMMA InvRestart ==
  ASSUME LinkInv, RestartSender \/ RestartReceiver
  PROVE  LinkInv'
<1>1. plan' = plan /\ now' = now /\ epoch' = epoch /\ next' = next /\ answer' = NoAnswer
  BY DEF RestartSender, RestartReceiver, sentVars
<1>2. Stations' = Stations
  BY <1>1 DEF Stations
<1>3. answer'.ret = 0
  BY <1>1 DEF NoAnswer
<1>4. CASE RestartSender
  <2>1. PICK s \in Stations :
          enc' = [enc EXCEPT ![s] = [init_rtcm EXCEPT
                   !.time = enc[s].time, !.staid = s, !.obs = enc[s].obs, !.eph = enc[s].eph,
                   !.geph = enc[s].geph, !.ssr = enc[s].ssr, !.sta = enc[s].sta]]
    BY <1>4 DEF RestartSender
  <2>2. PICK r : Sender(r) /\ r.time = now /\ enc' = [enc EXCEPT ![s] = r]
    BY <2>1, StationRestarted DEF LinkInv
  <2>3. enc' = [x \in Stations |-> enc'[x]] /\ \A x \in Stations : Sender(enc'[x]) /\ enc'[x].time = now
    BY <2>2 DEF LinkInv
  <2>4. dec' = dec /\ intact' = intact /\ refused' = refused
    BY <1>4 DEF RestartSender
  <2> QED
    BY <1>1, <1>2, <1>3, <2>3, <2>4 DEF LinkInv
<1>5. CASE RestartReceiver
  <2>1. enc' = enc /\ dec' = Decoder /\ intact' = FALSE /\ refused' = FALSE
    BY <1>5 DEF RestartReceiver
  <2>2. Sound(dec') /\ dec'.opt = plan.opt
    BY <2>1, DecoderMade DEF Decoder
  <2> QED
    BY <1>1, <1>2, <1>3, <2>1, <2>2 DEF LinkInv
<1> QED
  BY <1>4, <1>5

\* Both ends keep their structures in order, whatever is sent, lost or started anew.
THEOREM LinkInvariant == Spec => []LinkInv
<1>1. ASSUME LinkInv, [Next]_vars
      PROVE  LinkInv'
  <2>1. CASE UNCHANGED vars
    <3>1. /\ plan' = plan /\ now' = now /\ epoch' = epoch /\ next' = next /\ enc' = enc
          /\ dec' = dec /\ answer' = answer /\ intact' = intact /\ refused' = refused
      BY <2>1 DEF vars, sentVars, historyVars
    <3>2. Stations' = Stations
      BY <3>1 DEF Stations
    <3> QED
      BY <1>1, <3>1, <3>2 DEF LinkInv
  <2>2. CASE Measure
    BY <1>1, <2>2, InvMeasure
  <2>3. CASE Send
    BY <1>1, <2>3, InvSend
  <2>4. CASE RestartSender \/ RestartReceiver
    BY <1>1, <2>4, InvRestart
  <2>5. CASE Done
    BY <2>1, <2>5 DEF Done
  <2> QED
    BY <1>1, <2>1, <2>2, <2>3, <2>4, <2>5 DEF Next
<1> QED
  BY <1>1, InvInit, PTL DEF Spec

\* It implies what the variables hold.
LEMMA InvType ==
  ASSUME LinkInv
  PROVE  TypeOK
<1>1. Sound(dec) /\ Buffer(dec)
  BY DEF LinkInv, Sound
<1>2. PICK Obs : OneEpochEachOnce(dec, Obs)
  BY <1>1 DEF Buffer
<1>3. /\ DOMAIN dec.obs = 1 .. Len(dec.obs) /\ Len(dec.obs) <= MAXOBS
      /\ \A i, j \in 1 .. Len(dec.obs) : dec.obs[i].sat = dec.obs[j].sat => i = j
  BY <1>2 DEF OneEpochEachOnce
<1>4. \A i \in 1 .. Len(dec.obs) : dec.obs[i].sat \in Sats
  BY <1>1 DEF Buffer
<1>5. \A i, j \in DOMAIN dec.obs :
        dec.obs[i].sat \in Sats /\ (dec.obs[i].sat = dec.obs[j].sat => i = j)
  BY <1>3, <1>4
<1> QED
  BY <1>1, <1>3, <1>5 DEF TypeOK, LinkInv, Sound

\* The buffer never holds more than MAXOBS satellites nor one twice, and the
\* answer is one of those the library knows: whatever the stations measure, send
\* and lose, and however often an end starts again.
THEOREM LinkTypeCorrect == Spec => []TypeOK
BY LinkInvariant, InvType, PTL

\* A distance below half a period.
LEMMA WithinByAbs ==
  ASSUME NEW a \in Int, NEW b \in Int, NEW period \in Int, 2 * Abs(a - b) < period
  PROVE  Within(a, b, period)
BY DEF Within, Abs

\* What TimeRight says of a type and of the time that was known.
FoundOf(type, known) ==
  LET ssr == SsrKinds(type) # {}
      glo == type \in {1009, 1010, 1011, 1012} \union 1081 .. 1087 \union 1063 .. 1068
      timed == ssr \/ type \in 1001 .. 1004 \union 1009 .. 1012 \union 1071 .. 1127
  IN  timed /\ 2 * Abs(now - known) < (IF glo THEN Day ELSE Week) => dec'.time = now

\* A message that an encoder made and a decoder did not refuse has set the
\* receiver to the time of its epoch.
LEMMA TimeRightStep ==
  ASSUME LinkInv, Send, Sending, answer'.ret >= 0
  PROVE  FoundOf(answer'.type, IF dec.time = 0 \/ plan.opt.rtinp THEN utc2gpst(dec'.clock) ELSE dec.time)
<1>0. plan \in Plans /\ now \in Int /\ next \in 1 .. Len(plan.msgs)
  <2>1. plan \in Plans /\ next \in 1 .. Len(plan.msgs) + 1 /\ next <= Len(plan.msgs)
    BY DEF LinkInv, Send
  <2>2. Len(plan.msgs) \in Nat
    BY <2>1, MessagesOfPlan
  <2> QED
    BY <2>1, <2>2 DEF LinkInv
<1> DEFINE m == plan.msgs[next]
           clock == gpst2utc(now) + plan.skew
<1>1. m.sta \in Stations /\ m.type \in Int /\ m.sync \in BOOLEAN /\ clock \in Int
  BY <1>0, MessagesOfPlan DEF gpst2utc, Leaps
<1>2. PICK damaged \in IF faults < plan.losses THEN BOOLEAN ELSE {FALSE} :
        \E g \in {gen_rtcm3(Load(enc[m.sta], m), m.type, m.sync)} :
        \E i \in {input_rtcm3([dec EXCEPT !.clock = clock], [g.frame EXCEPT !.parity = @ /\ ~damaged])} :
          /\ enc' = [enc EXCEPT ![m.sta] = g.rtcm]
          /\ dec' = i.rtcm
          /\ faults' = IF damaged THEN faults + 1 ELSE faults
          /\ answer' = IF g.ret = 0 \/ damaged THEN NoAnswer
                       ELSE [ret |-> i.ret, type |-> m.type, sta |-> m.sta]
          /\ intact' = (intact /\ ~damaged /\ g.ret = 1 /\ i.ret >= 0)
          /\ refused' = IF i.ret = 1 THEN FALSE ELSE (refused \/ i.ret < 0)
          /\ handed' = IF i.ret = 1 THEN i.rtcm.time ELSE handed
          /\ last' = Note(g.rtcm, i.rtcm)
  BY Zenon DEF Send
<1>3. PICK g, i : /\ g = gen_rtcm3(Load(enc[m.sta], m), m.type, m.sync)
                  /\ i = input_rtcm3([dec EXCEPT !.clock = clock], [g.frame EXCEPT !.parity = @ /\ ~damaged])
                  /\ dec' = i.rtcm
                  /\ answer' = IF g.ret = 0 \/ damaged THEN NoAnswer
                               ELSE [ret |-> i.ret, type |-> m.type, sta |-> m.sta]
  BY <1>2, Zenon
<1> HIDE DEF m, clock
<1>4. PICK mm, c : mm = m /\ c = clock
  OBVIOUS
<1>5. damaged \in BOOLEAN /\ answer' # NoAnswer
  BY <1>2 DEF Sending
<1> DEFINE k == IF dec.time = 0 \/ dec.opt.rtinp THEN utc2gpst(c) ELSE dec.time
           type == mm.type
           msg == g.frame.msg
<1>6. /\ g.ret \in {0, 1} /\ i.rtcm.clock = c
      /\ g.ret = 1 /\ ~damaged =>
              /\ type \in PlainTypes \/ Timed(type)
              /\ WellFormed(msg) /\ msg.type = type
              /\ Timed(type) =>
                   /\ msg.epoch = EpochTold(now, msg)
                   /\ i.ret >= 0 => i.rtcm.time = TimeOf(k, msg)
  <2>1. mm.sta \in Stations /\ mm.type \in Int /\ mm.sync \in BOOLEAN /\ c \in Int
    BY <1>1, <1>4
  <2>2. /\ g = gen_rtcm3(Load(enc[mm.sta], mm), mm.type, mm.sync)
        /\ i = input_rtcm3([dec EXCEPT !.clock = c], Arrived(g.frame, damaged))
    BY <1>3, <1>4 DEF Arrived
  <2>3. SentAs(type, damaged, c, g, i)
    BY <1>5, <2>1, <2>2, MessageSent
  <2> QED
    BY <2>3 DEF SentAs
<1> HIDE DEF msg, type
<1>7. /\ g.ret = 1 /\ ~damaged
      /\ answer'.type = type /\ answer'.ret = i.ret
  BY <1>3, <1>4, <1>5, <1>6 DEF type
<1>8. dec'.clock = c /\ k \in Int /\ type \in Int
      /\ k = IF dec.time = 0 \/ plan.opt.rtinp THEN utc2gpst(dec'.clock) ELSE dec.time
  <2>1. utc2gpst(c) \in Int
    BY <1>1, <1>4 DEF utc2gpst, Leaps
  <2> QED
    BY <1>1, <1>3, <1>4, <1>6, <2>1 DEF LinkInv, Sound, type
<1> HIDE DEF k
<1> DEFINE ssr == SsrKinds(type) # {}
           glo == type \in {1009, 1010, 1011, 1012} \union 1081 .. 1087 \union 1063 .. 1068
           timed == ssr \/ type \in 1001 .. 1004 \union 1009 .. 1012 \union 1071 .. 1127
<1> SUFFICES ASSUME timed, 2 * Abs(now - k) < (IF glo THEN Day ELSE Week)
             PROVE  dec'.time = now
  <2>1. FoundOf(type, k)
    BY DEF FoundOf
  <2>2. FoundOf(answer'.type, IF dec.time = 0 \/ plan.opt.rtinp THEN utc2gpst(dec'.clock) ELSE dec.time)
    BY <1>7, <1>8, <2>1, Zenon
  <2> QED
    BY <2>2
<1>9. Timed(type)
  <2>1. CASE ssr
    <3>1. SsrOf(type) # {}
      BY <2>1 DEF SsrKinds, SsrOf
    <3> QED
      BY <3>1 DEF Timed
  <2>2. CASE type \in 1001 .. 1004 \union 1009 .. 1012
    BY <2>2 DEF Timed, LegacyTypes
  <2>3. CASE type \in 1071 .. 1127
    BY <1>6, <1>7, <2>3 DEF PlainTypes
  <2> QED
    BY <2>1, <2>2, <2>3
<1>10. glo <=> type \in GloTypes
  BY <1>8 DEF GloTypes
<1>11. Within(now, k, IF type \in GloTypes THEN Day ELSE Week)
  <2>1. 2 * Abs(now - k) < (IF type \in GloTypes THEN Day ELSE Week)
    BY <1>10
  <2>2. (IF type \in GloTypes THEN Day ELSE Week) \in Int
    BY DEF Day, Week
  <2> QED
    BY <1>0, <1>8, <2>1, <2>2, WithinByAbs
<1>12. TimeOf(k, msg) = now
  BY <1>0, <1>6, <1>7, <1>8, <1>9, <1>11, MessageTimed
<1>13. i.ret >= 0 => i.rtcm.time = now
  BY <1>6, <1>7, <1>9, <1>12
<1> QED
  BY <1>3, <1>7, <1>13

\* A time of week or of day becomes the right time as long as the receiver's
\* last time, or else its clock, is less than half a period away: for every plan.
THEOREM TimesAreRight == Spec => TimeRight
<1>1. ASSUME LinkInv, [Next]_vars, Sending, answer'.ret >= 0
      PROVE  Send
  <2>1. next \in Int
    BY <1>1, MessagesOfPlan DEF LinkInv
  <2>2. next' = next + 1 /\ answer' # NoAnswer
    BY <1>1 DEF Sending
  <2>3. ~UNCHANGED vars
    BY <2>1, <2>2 DEF vars
  <2>4. ~Measure /\ ~RestartSender /\ ~RestartReceiver /\ ~Done
    BY <2>2, <2>3 DEF Measure, RestartSender, RestartReceiver, Done
  <2> QED
    BY <1>1, <2>3, <2>4 DEF Next
<1>2. ASSUME LinkInv, [Next]_vars
      PROVE  [Sending /\ answer'.ret >= 0 =>
       LET ssr == SsrKinds(answer'.type) # {}
           glo == answer'.type \in {1009, 1010, 1011, 1012} \union 1081 .. 1087
                                    \union 1063 .. 1068
           timed == ssr \/ answer'.type \in 1001 .. 1004 \union 1009 .. 1012 \union 1071 .. 1127
           known == IF dec.time = 0 \/ plan.opt.rtinp THEN utc2gpst(dec'.clock) ELSE dec.time
       IN  timed /\ 2 * Abs(now - known) < (IF glo THEN Day ELSE Week) => dec'.time = now]_vars
  <2>1. CASE Sending /\ answer'.ret >= 0
    <3>1. FoundOf(answer'.type, IF dec.time = 0 \/ plan.opt.rtinp THEN utc2gpst(dec'.clock) ELSE dec.time)
      BY <1>1, <1>2, <2>1, TimeRightStep
    <3>2. LET ssr == SsrKinds(answer'.type) # {}
              glo == answer'.type \in {1009, 1010, 1011, 1012} \union 1081 .. 1087
                                       \union 1063 .. 1068
              timed == ssr \/ answer'.type \in 1001 .. 1004 \union 1009 .. 1012 \union 1071 .. 1127
              known == IF dec.time = 0 \/ plan.opt.rtinp THEN utc2gpst(dec'.clock) ELSE dec.time
          IN  timed /\ 2 * Abs(now - known) < (IF glo THEN Day ELSE Week) => dec'.time = now
      BY <3>1, Zenon DEF FoundOf
    <3> QED
      BY <3>2, SMTT(30)
  <2>2. CASE ~(Sending /\ answer'.ret >= 0)
    BY <2>2
  <2> QED
    BY <2>1, <2>2
<1> QED
  BY <1>2, LinkInvariant, PTL DEF Spec, TimeRight

-----------------------------------------------------------------------------
(* Corrections and their issues.                                           *)

\* In a finite set with different keys as many come before some element as one likes.
LEMMA RanksReached ==
  ASSUME NEW T, IsFiniteSet(T), \A x \in T : x[2] \in Int,
         \A x, y \in T : x[2] = y[2] => x = y, NEW i \in 1 .. Cardinality(T)
  PROVE  \E x \in T : Cardinality({y \in T : y[2] < x[2]}) = i - 1
<1> DEFINE n == Cardinality(T)
           Below(x) == {y \in T : y[2] < x[2]}
           rank == [x \in T |-> Cardinality(Below(x))]
<1>1. n \in Nat /\ i \in 1 .. n
  BY FS_CardinalityType
<1>2. ASSUME NEW x \in T
      PROVE  IsFiniteSet(Below(x)) /\ Cardinality(Below(x)) \in 0 .. n - 1
  <2>1. IsFiniteSet(T \ {x}) /\ Cardinality(T \ {x}) = n - 1
    BY FS_RemoveElement
  <2>2. Below(x) \in SUBSET (T \ {x})
    OBVIOUS
  <2> HIDE DEF Below, n
  <2>3. IsFiniteSet(Below(x)) /\ Cardinality(Below(x)) <= n - 1
    BY <2>1, <2>2, FS_Subset
  <2>4. Cardinality(Below(x)) \in Nat
    BY <2>3, FS_CardinalityType
  <2> QED
    BY <1>1, <2>3, <2>4
<1>3. ASSUME NEW x \in T, NEW y \in T, x[2] < y[2]
      PROVE  rank[x] < rank[y]
  <2>1. (Below(x) \union {x}) \in SUBSET Below(y) /\ x \notin Below(x)
    BY <1>3
  <2> HIDE DEF Below
  <2>2. Cardinality(Below(x) \union {x}) = Cardinality(Below(x)) + 1
    BY <1>2, <2>1, FS_AddElement
  <2>3. Cardinality(Below(x) \union {x}) <= Cardinality(Below(y))
    BY <1>2, <2>1, FS_Subset
  <2> QED
    BY <1>2, <2>2, <2>3
<1> HIDE DEF n
<1>4. rank \in [T -> 0 .. n - 1]
  BY <1>2
<1>5. \A x, y \in T : rank[x] = rank[y] => x = y
  <2> HIDE DEF rank
  <2>1. \A x \in T : rank[x] \in Int
    BY <1>4
  <2> QED
    BY <1>3, <2>1
<1>6. IsFiniteSet(0 .. n - 1) /\ Cardinality(0 .. n - 1) = n
  BY <1>1, FS_Interval
<1> HIDE DEF rank
<1>7. rank \in Surjection(T, 0 .. n - 1)
  BY <1>4, <1>5, <1>6, FS_Injection DEF Injection, IsInjective, n
<1>8. PICK x \in T : rank[x] = i - 1
  BY <1>1, <1>7 DEF Surjection
<1> QED
  BY <1>8 DEF rank

\* The satellites of a message are those that were updated.
LEMMA SatellitesListed ==
  ASSUME NEW r, NEW sys, NEW j \in DOMAIN SsrSats(r, sys)
  PROVE  SsrSats(r, sys)[j] \in {s \in Sats : satsys(s) = sys /\ r.ssr[s].update}
<1> DEFINE T == {s \in Sats : satsys(s) = sys /\ r.ssr[s].update}
           At(i) == CHOOSE x \in T : Cardinality({y \in T : y[2] < x[2]}) = i - 1
<1>1. SsrSats(r, sys) = [i \in 1 .. Cardinality(T) |-> At(i)]
  BY DEF SsrSats, InOrder
<1>2. T \in SUBSET Sats
  OBVIOUS
<1>3. \A s \in T : s \in Systems \X Nat /\ s[1] = sys
  BY SizesAssumption DEF satsys
<1> HIDE DEF T
<1>4. IsFiniteSet(T)
  BY <1>2, SizesAssumption, FS_Subset
<1>5. \A x \in T : x[2] \in Int
  BY <1>3
<1>6. \A x, y \in T : x[2] = y[2] => x = y
  BY <1>3
<1>7. \E x \in T : Cardinality({y \in T : y[2] < x[2]}) = j - 1
  BY <1>1, <1>4, <1>5, <1>6, RanksReached
<1>8. At(j) \in T
  BY <1>7
<1> HIDE DEF At
<1> QED
  BY <1>1, <1>8 DEF T

SsrFields == {"t0", "udi", "iod", "iode", "orbit", "clock", "c2", "cbias", "ura", "hrclk",
              "refd", "update"}

\* The value of a correction that was received belongs to the issue in iod.
OfIssue(x, value, k) == x.iod[k] = (value - 1) % 16 /\ x.udi[k] = 10
OfItsIssue(x) ==
  /\ DOMAIN x = SsrFields
  /\ x.t0[0] # 0 => OfIssue(x, x.orbit, 0) /\ x.iode = x.orbit
  /\ x.t0[1] # 0 => OfIssue(x, x.clock, 1)
  /\ x.t0[2] # 0 => OfIssue(x, x.hrclk, 2)
  /\ x.t0[3] # 0 => OfIssue(x, x.ura, 3)
  /\ x.t0[4] # 0 => x.cbias # <<>> /\ OfIssue(x, x.cbias[1], 4)
Table(ssr) == DOMAIN ssr = Sats /\ \A s \in Sats : OfItsIssue(ssr[s])

\* What is saved of a satellite is what the kinds of correction have, and
\* belongs to the issue in the message.
BringsIssue(c, msg, kinds) ==
  LET Of(value) == msg.iod = (value - 1) % 16
  IN  /\ DOMAIN c \subseteq {"iode", "orbit", "clock", "c2", "cbias", "ura", "hrclk", "refd"}
      /\ ssrudint[msg.udi + 1] = 10
      /\ {"iode", "orbit"} \subseteq DOMAIN c \/ ({"iode", "orbit"} \intersect DOMAIN c = {})
      /\ "orbit" \in DOMAIN c <=> 0 \in kinds
      /\ "clock" \in DOMAIN c <=> 1 \in kinds
      /\ "hrclk" \in DOMAIN c <=> 2 \in kinds
      /\ "ura" \in DOMAIN c <=> 3 \in kinds
      /\ "cbias" \in DOMAIN c <=> 4 \in kinds
      /\ 0 \in kinds => Of(c.orbit) /\ c.iode = c.orbit
      /\ 1 \in kinds => Of(c.clock)
      /\ 2 \in kinds => Of(c.hrclk)
      /\ 3 \in kinds => Of(c.ura)
      /\ 4 \in kinds => c.cbias # <<>> /\ Of(c.cbias[1])

\* One satellite of a message of one issue leaves the table in order.
LEMMA IssueSaved ==
  ASSUME NEW x, OfItsIssue(x), NEW r, NEW msg, NEW kinds, NEW c, BringsIssue(c, msg, kinds)
  PROVE  OfItsIssue(Joined(c, Issue(x, r, msg, kinds)))
<1> DEFINE y == Issue(x, r, msg, kinds)
           z == Joined(c, y)
<1>1. /\ DOMAIN y = SsrFields
      /\ \A k \in 0 .. 4 : /\ k \in kinds => y.iod[k] = msg.iod /\ y.udi[k] = 10
                           /\ k \notin kinds => /\ y.t0[k] = x.t0[k] /\ y.iod[k] = x.iod[k]
                                                /\ y.udi[k] = x.udi[k]
      /\ \A f \in {"iode", "orbit", "clock", "hrclk", "ura", "cbias"} : y[f] = x[f]
  BY DEF Issue, OfItsIssue, BringsIssue, SsrFields
<1> HIDE DEF y
<1>2. /\ DOMAIN z = SsrFields
      /\ \A f \in DOMAIN c : z[f] = c[f]
      /\ \A f \in SsrFields \ DOMAIN c : z[f] = y[f]
  BY <1>1 DEF Joined, BringsIssue, SsrFields
<1> HIDE DEF z
<1>3. z.t0 = y.t0 /\ z.iod = y.iod /\ z.udi = y.udi
  BY <1>2 DEF BringsIssue, SsrFields
<1>4. z.t0[0] # 0 => OfIssue(z, z.orbit, 0) /\ z.iode = z.orbit
  <2>1. CASE 0 \in kinds
    BY <1>1, <1>2, <1>3, <2>1 DEF BringsIssue, OfIssue, SsrFields
  <2>2. CASE 0 \notin kinds
    <3>1. z.orbit = x.orbit /\ z.iode = x.iode
      BY <1>1, <1>2, <2>2 DEF BringsIssue, SsrFields
    <3> QED
      BY <1>1, <1>3, <2>2, <3>1 DEF OfIssue, OfItsIssue
  <2> QED
    BY <2>1, <2>2
<1>5. z.t0[1] # 0 => OfIssue(z, z.clock, 1)
  <2>1. CASE 1 \in kinds
    BY <1>1, <1>2, <1>3, <2>1 DEF BringsIssue, OfIssue, SsrFields
  <2>2. CASE 1 \notin kinds
    <3>1. z.clock = x.clock
      BY <1>1, <1>2, <2>2 DEF BringsIssue, SsrFields
    <3> QED
      BY <1>1, <1>3, <2>2, <3>1 DEF OfIssue, OfItsIssue
  <2> QED
    BY <2>1, <2>2
<1>6. z.t0[2] # 0 => OfIssue(z, z.hrclk, 2)
  <2>1. CASE 2 \in kinds
    BY <1>1, <1>2, <1>3, <2>1 DEF BringsIssue, OfIssue, SsrFields
  <2>2. CASE 2 \notin kinds
    <3>1. z.hrclk = x.hrclk
      BY <1>1, <1>2, <2>2 DEF BringsIssue, SsrFields
    <3> QED
      BY <1>1, <1>3, <2>2, <3>1 DEF OfIssue, OfItsIssue
  <2> QED
    BY <2>1, <2>2
<1>7. z.t0[3] # 0 => OfIssue(z, z.ura, 3)
  <2>1. CASE 3 \in kinds
    BY <1>1, <1>2, <1>3, <2>1 DEF BringsIssue, OfIssue, SsrFields
  <2>2. CASE 3 \notin kinds
    <3>1. z.ura = x.ura
      BY <1>1, <1>2, <2>2 DEF BringsIssue, SsrFields
    <3> QED
      BY <1>1, <1>3, <2>2, <3>1 DEF OfIssue, OfItsIssue
  <2> QED
    BY <2>1, <2>2
<1>8. z.t0[4] # 0 => z.cbias # <<>> /\ OfIssue(z, z.cbias[1], 4)
  <2>1. CASE 4 \in kinds
    BY <1>1, <1>2, <1>3, <2>1 DEF BringsIssue, OfIssue, SsrFields
  <2>2. CASE 4 \notin kinds
    <3>1. z.cbias = x.cbias
      BY <1>1, <1>2, <2>2 DEF BringsIssue, SsrFields
    <3> QED
      BY <1>1, <1>3, <2>2, <3>1 DEF OfIssue, OfItsIssue
  <2> QED
    BY <2>1, <2>2
<1> QED
  BY <1>2, <1>4, <1>5, <1>6, <1>7, <1>8 DEF OfItsIssue, z, y

IssueGood(ctx, n, r) == IsRtcm(r) /\ Table(r.ssr)
IssueLoop == INSTANCE Loops WITH Step <- SsrPass, Good <- IssueGood

\* All satellites of a message of one issue leave the table in order.
LEMMA IssuesSaved ==
  ASSUME NEW head, IsRtcm(head.rtcm), Table(head.rtcm.ssr), NEW msg, HasSats(msg), NEW sys,
         NEW bits, NEW kinds, NEW saved,
         \A j \in 1 .. Len(msg.sats) : BringsIssue(saved[j], msg, kinds)
  PROVE  Table(SaveSsr(head, msg, sys, bits, kinds, saved).rtcm.ssr)
<1> DEFINE room == SsrRoom(msg, sys, bits)
           from == head.rtcm
           ctx == [sys |-> sys, msg |-> msg, saved |-> saved, kinds |-> kinds]
           seq == [j \in 1 .. Cardinality(room) |-> j]
           s == IssueLoop!Loop(ctx, from, seq)
<1>1. CASE head.ret < 0
  BY <1>1 DEF SaveSsr
<1>2. CASE ~(head.ret < 0)
  <2>1. SaveSsr(head, msg, sys, bits, kinds, saved) =
          [ret |-> IF msg.sync THEN 0 ELSE 10, rtcm |-> s]
    <3>1. IssueLoop!Loop(ctx, from, seq) = SsrLoop!Loop(ctx, from, seq)
      BY Zenon DEF IssueLoop!Loop, SsrLoop!Loop, IssueLoop!Greatest, SsrLoop!Greatest
    <3> QED
      BY <1>2, <3>1, SsrLooped
  <2>2. Cardinality(room) \in Nat /\ 1 .. Cardinality(room) \subseteq 1 .. Len(msg.sats)
    <3>1. PICK len \in Nat : Len(msg.sats) = len
      BY DEF HasSats
    <3>2. IsFiniteSet(1 .. len) /\ Cardinality(1 .. len) = len
      BY FS_Interval
    <3>3. room \in SUBSET (1 .. len)
      BY <3>1 DEF SsrRoom
    <3> HIDE DEF room
    <3>4. Cardinality(room) \in Nat /\ Cardinality(room) <= len
      BY <3>2, <3>3, FS_Subset, FS_CardinalityType
    <3> QED
      BY <3>1, <3>4
  <2>4. IssueGood(ctx, 0, from)
    BY DEF IssueGood
  <2>6. ASSUME NEW j \in 1 .. Cardinality(room), NEW q, IssueGood(ctx, j - 1, q)
        PROVE  IssueGood(ctx, j, SsrPass(ctx, q, seq[j]))
    <3> DEFINE sat == SsrSat(msg, sys, j)
               v == Joined(saved[j], Issue(q.ssr[sat], q, msg, kinds))
               e == [q EXCEPT !.ssr[sat] = v]
    <3>1. SsrPass(ctx, q, seq[j]) = IF sat = NoSat THEN q ELSE e
      BY Zenon DEF SsrPass
    <3>2. sat \in Sats \union {NoSat}
      BY DEF SsrSat, satno
    <3>3. IsRtcm(q) /\ Table(q.ssr)
      BY <2>6 DEF IssueGood
    <3>4. CASE sat = NoSat
      <4> HIDE DEF ctx, seq, sat
      <4> QED
        BY <3>1, <3>3, <3>4 DEF IssueGood
    <3>5. CASE sat # NoSat
      <4>1. sat \in Sats /\ BringsIssue(saved[j], msg, kinds) /\ OfItsIssue(q.ssr[sat])
        <5> HIDE DEF room, sat
        <5> QED
          BY <2>2, <3>2, <3>3, <3>5 DEF Table
      <4>2. OfItsIssue(v)
        <5> HIDE DEF sat
        <5> QED
          BY <4>1, IssueSaved
      <4> HIDE DEF v, sat
      <4>3. IsRtcm(e) /\ e.ssr = [q.ssr EXCEPT ![sat] = v]
        BY <3>3 DEF IsRtcm, Fields
      <4>4. Table([q.ssr EXCEPT ![sat] = v])
        BY <3>3, <4>1, <4>2 DEF Table
      <4> HIDE DEF e, ctx, seq
      <4>5. SsrPass(ctx, q, seq[j]) = e
        BY <3>1, <3>5
      <4>6. IssueGood(ctx, j, e)
        BY <4>3, <4>4 DEF IssueGood
      <4> QED
        BY <4>5, <4>6
    <3> QED
      BY <3>4, <3>5
  <2>7. DOMAIN seq = 1 .. Cardinality(room)
    OBVIOUS
  <2> HIDE DEF room, seq
  <2>8. IssueGood(ctx, Cardinality(room), IssueLoop!Loop(ctx, from, seq))
    BY <2>2, <2>4, <2>6, <2>7, IssueLoop!LoopKeeps
  <2>9. Table(s.ssr)
    BY <2>8 DEF IssueGood, s
  <2> HIDE DEF s
  <2> QED
    BY <2>1, <2>9
<1> QED
  BY <1>1, <1>2

\* What is said of one satellite belongs to the issue.
Told(c, kind, iod) ==
  LET Of(value) == iod = (value - 1) % 16
  IN  /\ kind \in {1, 4} => Of(c.orbit) /\ c.iode = c.orbit
      /\ kind \in {2, 4} => Of(c.clock)
      /\ kind = 3 => c.cbias # <<>> /\ Of(c.cbias[1])
      /\ kind = 5 => Of(c.ura)
      /\ kind = 6 => Of(c.hrclk)
\* What a message of corrections says of each satellite belongs to its issue.
IssueTold(msg) ==
  /\ {"iod", "udi", "kind", "sats"} \subseteq DOMAIN msg
  /\ \A j \in 1 .. Len(msg.sats) : ssrudint[msg.udi + 1] = 10 /\ Told(msg.sats[j], msg.kind, msg.iod)

\* decode_ssr brings the corrections of its kinds, all of the message's issue.
LEMMA IssuesBrought ==
  ASSUME NEW msg, HasSats(msg), IssueTold(msg), NEW j \in 1 .. Len(msg.sats)
  PROVE  /\ msg.kind = 1 => BringsIssue(Orbits(msg)[j], msg, {0})
         /\ msg.kind = 2 => BringsIssue(Clocks(msg)[j], msg, {1})
         /\ msg.kind = 3 => \A b : DOMAIN b = {"cbias"} /\ b.cbias = msg.sats[j].cbias => BringsIssue(b, msg, {4})
         /\ msg.kind = 4 => BringsIssue(Both(msg)[j], msg, {0, 1})
         /\ msg.kind = 5 => \A b : DOMAIN b = {"ura"} /\ b.ura = msg.sats[j].ura => BringsIssue(b, msg, {3})
         /\ msg.kind = 6 => \A b : DOMAIN b = {"hrclk"} /\ b.hrclk = msg.sats[j].hrclk => BringsIssue(b, msg, {2})
<1> DEFINE c == msg.sats[j]
           o == [iode |-> c.iode, orbit |-> c.orbit, refd |-> msg.refd]
           k == [clock |-> c.clock, c2 |-> 2 * c.c2]
<1>1. j \in DOMAIN msg.sats
  BY DEF HasSats
<1>2. Orbits(msg)[j] = o /\ Clocks(msg)[j] = k /\ Both(msg)[j] = Joined(o, k)
  BY <1>1 DEF Orbits, Clocks, Both
<1>3. /\ ssrudint[msg.udi + 1] = 10
      /\ msg.kind \in {1, 4} => msg.iod = (c.orbit - 1) % 16 /\ c.iode = c.orbit
      /\ msg.kind \in {2, 4} => msg.iod = (c.clock - 1) % 16
      /\ msg.kind = 3 => c.cbias # <<>> /\ msg.iod = (c.cbias[1] - 1) % 16
      /\ msg.kind = 5 => msg.iod = (c.ura - 1) % 16
      /\ msg.kind = 6 => msg.iod = (c.hrclk - 1) % 16
  BY DEF IssueTold, Told
<1>4. CASE msg.kind = 1
  <2>1. DOMAIN o = {"iode", "orbit", "refd"} /\ o.iode = c.iode /\ o.orbit = c.orbit
    OBVIOUS
  <2> HIDE DEF o, c
  <2>2. BringsIssue(o, msg, {0})
    BY <1>3, <1>4, <2>1 DEF BringsIssue
  <2> QED
    BY <1>2, <1>4, <2>2
<1>5. CASE msg.kind = 2
  <2>1. DOMAIN k = {"clock", "c2"} /\ k.clock = c.clock
    OBVIOUS
  <2> HIDE DEF k, c
  <2>2. BringsIssue(k, msg, {1})
    BY <1>3, <1>5, <2>1 DEF BringsIssue
  <2> QED
    BY <1>2, <1>5, <2>2
<1>6. CASE msg.kind = 3
  <2>1. ASSUME NEW b, DOMAIN b = {"cbias"}, b.cbias = c.cbias
        PROVE  BringsIssue(b, msg, {4})
    <3> HIDE DEF c
    <3> QED
      BY <1>3, <1>6, <2>1 DEF BringsIssue
  <2> QED
    BY <1>6, <2>1
<1>7. CASE msg.kind = 4
  <2> DEFINE b == Joined(o, k)
  <2>1. /\ DOMAIN b = {"iode", "orbit", "refd", "clock", "c2"}
        /\ b.iode = c.iode /\ b.orbit = c.orbit /\ b.clock = c.clock
    BY DEF Joined
  <2> HIDE DEF b, c
  <2>2. BringsIssue(b, msg, {0, 1})
    BY <1>3, <1>7, <2>1 DEF BringsIssue
  <2> QED
    BY <1>2, <1>7, <2>2 DEF b
<1>8. CASE msg.kind = 5
  <2>1. ASSUME NEW b, DOMAIN b = {"ura"}, b.ura = c.ura
        PROVE  BringsIssue(b, msg, {3})
    <3> HIDE DEF c
    <3> QED
      BY <1>3, <1>8, <2>1 DEF BringsIssue
  <2> QED
    BY <1>8, <2>1
<1>9. CASE msg.kind = 6
  <2>1. ASSUME NEW b, DOMAIN b = {"hrclk"}, b.hrclk = c.hrclk
        PROVE  BringsIssue(b, msg, {2})
    <3> HIDE DEF c
    <3> QED
      BY <1>3, <1>9, <2>1 DEF BringsIssue
  <2> QED
    BY <1>9, <2>1
<1> QED
  BY <1>4, <1>5, <1>6, <1>7, <1>8, <1>9

\* Of a message of one issue decode_ssr leaves the table in order.
LEMMA IssuesDecoded ==
  ASSUME NEW r, Sound(r), Table(r.ssr), NEW msg, HasEpoch(msg), HasSats(msg), IssueTold(msg),
         msg.kind \in 1 .. 6, NEW sys
  PROVE  Table(decode_ssr(r, msg, sys, msg.kind).rtcm.ssr)
<1> DEFINE h1 == decode_ssr1_head(r, msg, sys)
           h2 == decode_ssr2_head(r, msg, sys)
           h(x) == IsRtcm(x.rtcm) /\ Table(x.rtcm.ssr)
<1>1. h(h1) /\ h(h2)
  BY SsrHead DEF AfterAt, After, Follows, Sound
<1> DEFINE Whole(j) == /\ j <= msg.nsat
                       /\ Fits(msg, SsrHeadBits(sys, 0) + BiasBits(sys, SubSeq(msg.sats, 1, j)))
           n == Cardinality({j \in 1 .. Len(msg.sats) : Whole(j)})
           cbias == [j \in DOMAIN msg.sats |-> [cbias |-> msg.sats[j].cbias]]
           ura == [j \in DOMAIN msg.sats |-> [ura |-> msg.sats[j].ura]]
           hrclk == [j \in DOMAIN msg.sats |-> [hrclk |-> msg.sats[j].hrclk]]
           cut == [msg EXCEPT !.nsat = n]
<1>2. /\ decode_ssr1(r, msg, sys) = SaveSsr(h1, msg, sys, 121 + OrbitBits(sys), {0}, Orbits(msg))
      /\ decode_ssr2(r, msg, sys) = SaveSsr(h2, msg, sys, 70 + SsrSizes[sys].np, {1}, Clocks(msg))
      /\ decode_ssr3(r, msg, sys) = SaveSsr(h2, cut, msg.sys, 0, {4}, cbias)
      /\ decode_ssr4(r, msg, sys) = SaveSsr(h1, msg, sys, 191 + OrbitBits(sys), {0, 1}, Both(msg))
      /\ decode_ssr5(r, msg, sys) = SaveSsr(h2, msg, sys, 6 + SsrSizes[sys].np, {3}, ura)
      /\ decode_ssr6(r, msg, sys) = SaveSsr(h2, msg, sys, 22 + SsrSizes[sys].np, {2}, hrclk)
  BY Zenon DEF decode_ssr1, decode_ssr2, decode_ssr3, decode_ssr4, decode_ssr5, decode_ssr6
<1>3. HasSats(cut) /\ cut.sats = msg.sats /\ cut.iod = msg.iod /\ cut.udi = msg.udi
  BY DEF HasSats, IssueTold
<1>4. \A j \in 1 .. Len(msg.sats) :
         /\ DOMAIN cbias[j] = {"cbias"} /\ cbias[j].cbias = msg.sats[j].cbias
         /\ DOMAIN ura[j] = {"ura"} /\ ura[j].ura = msg.sats[j].ura
         /\ DOMAIN hrclk[j] = {"hrclk"} /\ hrclk[j].hrclk = msg.sats[j].hrclk
  BY DEF HasSats
<1> HIDE DEF h1, h2, cut, cbias, ura, hrclk
<1>5. msg.kind = 1 => Table(decode_ssr1(r, msg, sys).rtcm.ssr)
  BY <1>1, <1>2, IssuesBrought, IssuesSaved
<1>6. msg.kind = 2 => Table(decode_ssr2(r, msg, sys).rtcm.ssr)
  BY <1>1, <1>2, IssuesBrought, IssuesSaved
<1>7. msg.kind = 3 => Table(decode_ssr3(r, msg, sys).rtcm.ssr)
  <2>1. \A c : BringsIssue(c, msg, {4}) => BringsIssue(c, cut, {4})
    BY <1>3 DEF BringsIssue
  <2>2. msg.kind = 3 => \A j \in 1 .. Len(cut.sats) : BringsIssue(cbias[j], cut, {4})
    BY <1>3, <1>4, <2>1, IssuesBrought
  <2> QED
    BY <1>1, <1>2, <1>3, <2>2, IssuesSaved
<1>8. msg.kind = 4 => Table(decode_ssr4(r, msg, sys).rtcm.ssr)
  BY <1>1, <1>2, IssuesBrought, IssuesSaved
<1>9. msg.kind = 5 => Table(decode_ssr5(r, msg, sys).rtcm.ssr)
  <2>1. msg.kind = 5 => \A j \in 1 .. Len(msg.sats) : BringsIssue(ura[j], msg, {3})
    BY <1>4, IssuesBrought
  <2> QED
    BY <1>1, <1>2, <2>1, IssuesSaved
<1>10. msg.kind = 6 => Table(decode_ssr6(r, msg, sys).rtcm.ssr)
  <2>1. msg.kind = 6 => \A j \in 1 .. Len(msg.sats) : BringsIssue(hrclk[j], msg, {2})
    BY <1>4, IssuesBrought
  <2> QED
    BY <1>1, <1>2, <2>1, IssuesSaved
<1> QED
  BY <1>5, <1>6, <1>7, <1>8, <1>9, <1>10 DEF decode_ssr

\* Of the issue n are all corrections that a station has.
Fresh(ssr, n) == \A s \in Sats : ssr[s].update => ssr[s] = SsrOfIssue(n)
FieldsTold(c, kind, n) ==
  /\ kind \in {1, 4} => {"iode", "orbit"} \subseteq DOMAIN c /\ c.iode = n + 1 /\ c.orbit = n + 1
  /\ kind \in {2, 4} => "clock" \in DOMAIN c /\ c.clock = n + 1
  /\ kind = 3 => "cbias" \in DOMAIN c /\ c.cbias = <<n + 1>>
  /\ kind = 5 => "ura" \in DOMAIN c /\ c.ura = (n + 1) % 64
  /\ kind = 6 => "hrclk" \in DOMAIN c /\ c.hrclk = n + 1

Tells(msg, kind) == IssueTold(msg) /\ msg.kind = kind
EachTold(ssr, fields, kind, n) ==
  \A s \in Sats : ssr[s] = SsrOfIssue(n) => FieldsTold(fields[s], kind, n)

\* An update interval of 10 s is told as it is.
LEMMA IntervalTold == UdiIndex(10) = 3 /\ ssrudint[3 + 1] = 10
<1>1. {i \in 0 .. 14 : ssrudint[i + 1] >= 10} = 3 .. 14
  BY DEF ssrudint
<1>2. \A i \in 3 .. 14 : (\A j \in 3 .. 14 : i <= j) <=> i = 3
  OBVIOUS
<1>3. ssrudint[3 + 1] = 10
  BY DEF ssrudint
<1> QED
  BY <1>1, <1>2, <1>3 DEF UdiIndex

\* What the encoder says of a satellite is of the issue that the station has.
LEMMA IssueEncoded ==
  ASSUME NEW r, NEW n \in 0 .. 254, Fresh(r.ssr, n), NEW sys, NEW kind \in 1 .. 6,
         NEW slot \in 0 .. 4, NEW sync, NEW fields, NEW bits,
         EachTold(r.ssr, fields, kind, n)
  PROVE  Tells(EncodeSsr(r, sys, kind, slot, sync, fields, bits).msg, kind)
<1> DEFINE e == EncodeSsr(r, sys, kind, slot, sync, fields, bits)
           of == SsrSats(r, sys)
           Sat(s) == Joined([id |-> (s[2] - SsrSizes[sys].offp) % 2 ^ SsrSizes[sys].np], fields[s])
           sats == [j \in DOMAIN of |-> Sat(of[j])]
           final == IF of = <<>> THEN NoSsr ELSE r.ssr[Last(of)]
           h == encode_ssr_head(r, sys, kind, slot, sync)
           g == [sats |-> sats]
           m == Joined(h, g)
<1>1. e.msg = m
  BY DEF EncodeSsr, Accept
<1>2. /\ {"iod", "udi", "kind"} \subseteq DOMAIN h /\ "sats" \notin DOMAIN h
      /\ h.iod = final.iod[slot] % 16 /\ h.udi = UdiIndex(final.udi[slot]) /\ h.kind = kind
  BY DEF encode_ssr_head
<1>3. PICK len \in Nat : DOMAIN of = 1 .. len /\ Len(of) = len
  BY SatellitesCounted DEF Counted
<1>4. \A j \in 1 .. len : of[j] \in Sats /\ r.ssr[of[j]] = SsrOfIssue(n)
  BY <1>3, SatellitesListed DEF Fresh
<1> HIDE DEF of, Sat
<1>5. /\ DOMAIN sats = 1 .. len /\ Len(sats) = len
      /\ \A j \in 1 .. len : sats[j] = Sat(of[j])
  <2>1. sats = [j \in 1 .. len |-> sats[j]]
    BY <1>3
  <2> QED
    BY <1>3, <2>1, CountedByDomain
<1> HIDE DEF sats, e, h
<1>6. /\ m.iod = h.iod /\ m.udi = h.udi /\ m.kind = kind /\ m.sats = sats
      /\ {"iod", "udi", "kind", "sats"} \subseteq DOMAIN m
  <2>1. DOMAIN g = {"sats"} /\ g.sats = sats
    OBVIOUS
  <2> HIDE DEF g
  <2> QED
    BY <1>2, <2>1 DEF Joined
<1> HIDE DEF m
<1>7. ASSUME NEW j \in 1 .. len
      PROVE  /\ m.iod = n % 16 /\ ssrudint[m.udi + 1] = 10
  <2>1. of # <<>> /\ Last(of) = of[len] /\ len \in 1 .. len
    BY <1>3 DEF Last
  <2>2. final = SsrOfIssue(n)
    BY <1>4, <2>1
  <2>3. final.iod[slot] = n % 16 /\ final.udi[slot] = 10
    BY <2>2 DEF SsrOfIssue
  <2> HIDE DEF final
  <2>4. (n % 16) % 16 = n % 16
    OBVIOUS
  <2> QED
    BY <1>2, <1>6, <2>3, <2>4, IntervalTold
<1>8. ASSUME NEW j \in 1 .. len
      PROVE  FieldsTold(m.sats[j], kind, n)
  <2> DEFINE c == fields[of[j]]
             d == [id |-> (of[j][2] - SsrSizes[sys].offp) % 2 ^ SsrSizes[sys].np]
             b == Joined(d, c)
  <2>1. FieldsTold(c, kind, n)
    BY <1>4 DEF EachTold
  <2>2. m.sats[j] = b
    BY <1>5, <1>6 DEF Sat
  <2>3. DOMAIN d = {"id"}
    OBVIOUS
  <2> HIDE DEF c, d
  <2>4. \A f \in (DOMAIN c) \ {"id"} : f \in DOMAIN b /\ b[f] = c[f]
    BY <2>3 DEF Joined
  <2> HIDE DEF b
  <2>5. FieldsTold(b, kind, n)
    BY <2>1, <2>4 DEF FieldsTold
  <2> QED
    BY <2>2, <2>5
<1>9. /\ \A v : v = n + 1 => (v - 1) % 16 = n % 16
      /\ \A v : v = (n + 1) % 64 => (v - 1) % 16 = n % 16
  OBVIOUS
<1>10. IssueTold(m)
  <2>1. ASSUME NEW j \in 1 .. Len(m.sats)
        PROVE  ssrudint[m.udi + 1] = 10 /\ Told(m.sats[j], m.kind, m.iod)
    <3>1. j \in 1 .. len
      BY <1>5, <1>6
    <3>2. m.iod = n % 16 /\ ssrudint[m.udi + 1] = 10
      BY <1>7, <3>1
    <3>3. FieldsTold(m.sats[j], kind, n)
      BY <1>8, <3>1
    <3>4. <<n + 1>> # <<>> /\ <<n + 1>>[1] = n + 1
      OBVIOUS
    <3> DEFINE c == m.sats[j]
    <3> HIDE DEF c
    <3>5. /\ kind \in {1, 4} => c.orbit = n + 1 /\ c.iode = n + 1
          /\ kind \in {2, 4} => c.clock = n + 1
          /\ kind = 3 => c.cbias # <<>> /\ c.cbias[1] = n + 1
          /\ kind = 5 => c.ura = (n + 1) % 64
          /\ kind = 6 => c.hrclk = n + 1
      BY <3>3, <3>4 DEF FieldsTold, c
    <3>6. /\ kind \in {1, 4} => m.iod = (c.orbit - 1) % 16 /\ c.iode = c.orbit
          /\ kind \in {2, 4} => m.iod = (c.clock - 1) % 16
          /\ kind = 3 => c.cbias # <<>> /\ m.iod = (c.cbias[1] - 1) % 16
          /\ kind = 6 => m.iod = (c.hrclk - 1) % 16
      BY <1>9, <3>2, <3>5
    <3>7. kind = 5 => m.iod = (c.ura - 1) % 16
      BY <1>9, <3>2, <3>5
    <3> QED
      BY <1>6, <3>2, <3>6, <3>7 DEF c, Told
  <2> QED
    BY <1>6, <2>1 DEF IssueTold
<1> QED
  BY <1>1, <1>6, <1>10 DEF Tells, e

\* An issue of 8 bits is what the field of the shortest has room for.
LEMMA IssueFits ==
  ASSUME NEW n \in 0 .. 254, NEW sys \in Systems
  PROVE  (n + 1) % 2 ^ SsrSizes[sys].ni = n + 1
<1>1. 2 ^ 8 = 256 /\ 2 ^ 9 = 512 /\ 2 ^ 10 = 1024
  OBVIOUS
<1>2. SsrSizes[sys].ni \in {8, 9, 10}
  BY DEF SsrSizes, Systems
<1>3. CASE SsrSizes[sys].ni = 8
  BY <1>1, <1>3
<1>4. CASE SsrSizes[sys].ni = 9
  BY <1>1, <1>4
<1>5. CASE SsrSizes[sys].ni = 10
  BY <1>1, <1>5
<1> QED
  BY <1>2, <1>3, <1>4, <1>5

\* A message of corrections says of each satellite what the station has for it, and
\* one issue for all.
LEMMA IssuesEncoded ==
  ASSUME NEW r, NEW n \in 0 .. 254, Fresh(r.ssr, n), NEW sys \in Systems, NEW kind \in 1 .. 6,
         NEW sync
  PROVE  Tells(EncodeSsrKind(r, sys, kind, sync).msg, kind)
<1> DEFINE E(k, slot, fields, bits) == EncodeSsr(r, sys, k, slot, sync, fields, bits)
           orbit == Orbit(r, sys)
           clock == Clock(r)
           cbias == [s \in Sats |-> [cbias |-> r.ssr[s].cbias]]
           both == [s \in Sats |-> Joined(Orbit(r, sys)[s], Clock(r)[s])]
           ura == [s \in Sats |-> [ura |-> r.ssr[s].ura % 64]]
           hrclk == [s \in Sats |-> [hrclk |-> r.ssr[s].hrclk]]
           e3 == E(3, 4, cbias, 0)
<1>1. /\ encode_ssr1(r, sys, sync) = E(1, 0, orbit, 121 + OrbitBits(sys))
      /\ encode_ssr2(r, sys, sync) = E(2, 1, clock, 70 + SsrSizes[sys].np)
      /\ encode_ssr3(r, sys, sync) = [e3 EXCEPT !.bits = @ + BiasBits(sys, e3.msg.sats)]
      /\ encode_ssr4(r, sys, sync) = E(4, 0, both, 191 + OrbitBits(sys))
      /\ encode_ssr5(r, sys, sync) = E(5, 3, ura, 6 + SsrSizes[sys].np)
      /\ encode_ssr6(r, sys, sync) = E(6, 2, hrclk, 22 + SsrSizes[sys].np)
  BY Zenon DEF encode_ssr1, encode_ssr2, encode_ssr3, encode_ssr4, encode_ssr5, encode_ssr6
<1>2. ASSUME NEW s \in Sats, r.ssr[s] = SsrOfIssue(n)
      PROVE  /\ FieldsTold(orbit[s], 1, n) /\ FieldsTold(clock[s], 2, n)
             /\ FieldsTold(cbias[s], 3, n) /\ FieldsTold(both[s], 4, n)
             /\ FieldsTold(ura[s], 5, n) /\ FieldsTold(hrclk[s], 6, n)
  <2> DEFINE o == orbit[s]
             c == clock[s]
             b == Joined(o, c)
  <2>1. /\ r.ssr[s].iode = n + 1 /\ r.ssr[s].orbit = n + 1 /\ r.ssr[s].clock = n + 1
        /\ r.ssr[s].cbias = <<n + 1>> /\ r.ssr[s].ura = n + 1 /\ r.ssr[s].hrclk = n + 1
    BY <1>2 DEF SsrOfIssue
  <2>2. (n + 1) % 2 ^ SsrSizes[sys].ni = n + 1
    BY IssueFits
  <2>3. /\ DOMAIN o = {"iode", "orbit"} /\ o.orbit = n + 1
        /\ o.iode = r.ssr[s].iode % 2 ^ SsrSizes[sys].ni
    BY <2>1 DEF Orbit
  <2>4. o.iode = n + 1
    BY <2>1, <2>2, <2>3
  <2>5. DOMAIN c = {"clock", "c2"} /\ c.clock = n + 1
    BY <2>1 DEF Clock
  <2>6. both[s] = b
    OBVIOUS
  <2>7. FieldsTold(cbias[s], 3, n) /\ FieldsTold(ura[s], 5, n) /\ FieldsTold(hrclk[s], 6, n)
    <3>1. DOMAIN cbias[s] = {"cbias"} /\ cbias[s].cbias = <<n + 1>>
      BY <2>1
    <3>2. DOMAIN ura[s] = {"ura"} /\ ura[s].ura = (n + 1) % 64
      BY <2>1
    <3>3. DOMAIN hrclk[s] = {"hrclk"} /\ hrclk[s].hrclk = n + 1
      BY <2>1
    <3> HIDE DEF cbias, ura, hrclk
    <3> QED
      BY <3>1, <3>2, <3>3 DEF FieldsTold
  <2> HIDE DEF o, c, both
  <2>8. {"iode", "orbit", "clock"} \subseteq DOMAIN b /\ b.iode = o.iode /\ b.orbit = o.orbit
        /\ b.clock = c.clock
    BY <2>3, <2>5 DEF Joined
  <2> HIDE DEF b
  <2>9. FieldsTold(o, 1, n) /\ FieldsTold(c, 2, n) /\ FieldsTold(b, 4, n)
    BY <2>3, <2>4, <2>5, <2>8 DEF FieldsTold
  <2> QED
    BY <2>6, <2>7, <2>9 DEF o, c
<1>3. ASSUME NEW k \in 1 .. 6, NEW slot \in 0 .. 4, NEW fields, NEW bits,
             EachTold(r.ssr, fields, k, n)
      PROVE  Tells(E(k, slot, fields, bits).msg, k)
  <2>1. Tells(EncodeSsr(r, sys, k, slot, sync, fields, bits).msg, k)
    <3> HIDE DEF E, orbit, clock, cbias, both, ura, hrclk
    <3> QED
      BY <1>3, IssueEncoded
  <2> QED
    BY <2>1
<1>4. \E ret, msg, bits, rtcm : e3 = [ret |-> ret, msg |-> msg, bits |-> bits, rtcm |-> rtcm]
  BY DEF EncodeSsr, Accept
<1> HIDE DEF E, orbit, clock, cbias, both, ura, hrclk, e3
<1>5. encode_ssr3(r, sys, sync).msg = e3.msg
  BY <1>1, <1>4
<1>6. \A bits : /\ Tells(E(1, 0, orbit, bits).msg, 1)
                /\ Tells(E(2, 1, clock, bits).msg, 2)
                /\ Tells(E(3, 4, cbias, bits).msg, 3)
                /\ Tells(E(4, 0, both, bits).msg, 4)
                /\ Tells(E(5, 3, ura, bits).msg, 5)
                /\ Tells(E(6, 2, hrclk, bits).msg, 6)
  <2>1. /\ EachTold(r.ssr, orbit, 1, n) /\ EachTold(r.ssr, clock, 2, n)
        /\ EachTold(r.ssr, cbias, 3, n) /\ EachTold(r.ssr, both, 4, n)
        /\ EachTold(r.ssr, ura, 5, n) /\ EachTold(r.ssr, hrclk, 6, n)
    BY <1>2 DEF EachTold
  <2> QED
    BY <1>3, <2>1
<1>7. /\ kind = 1 => EncodeSsrKind(r, sys, kind, sync) = encode_ssr1(r, sys, sync)
      /\ kind = 2 => EncodeSsrKind(r, sys, kind, sync) = encode_ssr2(r, sys, sync)
      /\ kind = 3 => EncodeSsrKind(r, sys, kind, sync) = encode_ssr3(r, sys, sync)
      /\ kind = 4 => EncodeSsrKind(r, sys, kind, sync) = encode_ssr4(r, sys, sync)
      /\ kind = 5 => EncodeSsrKind(r, sys, kind, sync) = encode_ssr5(r, sys, sync)
      /\ kind = 6 => EncodeSsrKind(r, sys, kind, sync) = encode_ssr6(r, sys, sync)
  BY DEF EncodeSsrKind
<1>8. kind = 1 \/ kind = 2 \/ kind = 3 \/ kind = 4 \/ kind = 5 \/ kind = 6
  OBVIOUS
<1>9. CASE kind \in {1, 2}
  BY <1>1, <1>6, <1>7, <1>9
<1>10. CASE kind = 3
  BY <1>5, <1>6, <1>7, <1>10 DEF e3
<1>11. CASE kind \in {4, 5, 6}
  BY <1>1, <1>6, <1>7, <1>11
<1> QED
  BY <1>8, <1>9, <1>10, <1>11

\* A frame with corrections tells them with their issue.
LEMMA IssueSent ==
  ASSUME NEW r, NEW n \in 0 .. 254, Fresh(r.ssr, n), NEW type \in Int, SsrOf(type) # {},
         NEW sync, NEW g, g = gen_rtcm3(r, type, sync), g.ret = 1
  PROVE  IssueTold(g.frame.msg) /\ g.frame.msg.kind \in 1 .. 6
<1> DEFINE M == CHOOSE s \in MsmOf(type) : TRUE
           S == CHOOSE s \in SsrOf(type) : TRUE
           e == encode_rtcm3(r, type, sync)
           len == 3 + (e.bits + 7) \div 8
           m == Joined(e.msg, [len |-> len])
<1>1. type \in 1057 .. 1068 \/ type \in 1240 .. 1263
  BY KindsApart
<1>2. MsmOf(type) = {}
  BY <1>1, KindsApart
<1>3. S \in Systems /\ type - SsrTypes[S] \in 1 .. 6
  BY DEF SsrOf
<1>4. e = CASE type = 1001 -> encode_type1001(r, sync)
        [] type = 1002 -> encode_type1002(r, sync)
        [] type = 1003 -> encode_type1003(r, sync)
        [] type = 1004 -> encode_type1004(r, sync)
        [] type = 1005 -> encode_type1005(r)
        [] type = 1006 -> encode_type1006(r)
        [] type = 1007 -> encode_type1007(r)
        [] type = 1008 -> encode_type1008(r)
        [] type = 1009 -> encode_type1009(r, sync)
        [] type = 1010 -> encode_type1010(r, sync)
        [] type = 1011 -> encode_type1011(r, sync)
        [] type = 1012 -> encode_type1012(r, sync)
        [] type = 1019 -> encode_type1019(r)
        [] type = 1020 -> encode_type1020(r)
        [] type = 1033 -> encode_type1033(r)
        [] type = 1042 -> encode_type1042(r)
        [] type = 63   -> encode_type63(r)
        [] type = 1044 -> encode_type1044(r)
        [] type = 1045 -> encode_type1045(r)
        [] type = 1046 -> encode_type1046(r)
        [] MsmOf(type) # {} -> EncodeMsmKind(r, M, type - MsmTypes[M], sync)
        [] SsrOf(type) # {} -> EncodeSsrKind(r, S, type - SsrTypes[S], sync)
        [] OTHER -> Refuse(r)
  BY Zenon DEF encode_rtcm3, MsmOf, SsrOf
<1> HIDE DEF M, S, e
<1>5. e = EncodeSsrKind(r, S, type - SsrTypes[S], sync)
  BY <1>1, <1>2, <1>4
<1>6. IssueTold(e.msg) /\ e.msg.kind \in 1 .. 6
  <2>1. PICK k \in 1 .. 6 : e = EncodeSsrKind(r, S, k, sync)
    BY <1>3, <1>5
  <2>2. Tells(EncodeSsrKind(r, S, k, sync).msg, k)
    BY <1>3, IssuesEncoded
  <2> QED
    BY <2>1, <2>2 DEF Tells
<1>7. g = IF e.ret = 0 \/ len >= 3 + 1024
          THEN [ret |-> 0, frame |-> [parity |-> FALSE], rtcm |-> e.rtcm]
          ELSE [ret |-> 1, frame |-> [parity |-> TRUE, msg |-> m], rtcm |-> e.rtcm]
  BY DEF gen_rtcm3, Frame, e
<1> HIDE DEF len, m
<1>8. g.frame.msg = m
  BY <1>7
<1>9. \A x \in DOMAIN e.msg : x \in DOMAIN m /\ m[x] = e.msg[x]
  BY DEF m, Joined
<1>10. {"iod", "udi", "kind", "sats"} \subseteq DOMAIN e.msg
  BY <1>6 DEF IssueTold
<1>11. /\ {"iod", "udi", "kind", "sats"} \subseteq DOMAIN m
       /\ m.iod = e.msg.iod /\ m.udi = e.msg.udi /\ m.kind = e.msg.kind /\ m.sats = e.msg.sats
  BY <1>9, <1>10
<1>12. IssueTold(m)
  BY <1>6, <1>11 DEF IssueTold
<1> QED
  BY <1>6, <1>8, <1>11, <1>12

\* A message that a station sends leaves the receiver's table in order.
LEMMA TableKept ==
  ASSUME NEW e, Sender(e), NEW n \in 0 .. 254, Fresh(e.ssr, n), NEW type \in Int,
         NEW sync \in BOOLEAN, NEW r, Sound(r), Table(r.ssr), NEW damaged \in BOOLEAN,
         NEW g, g = gen_rtcm3(e, type, sync),
         NEW i, i = input_rtcm3(r, Arrived(g.frame, damaged))
  PROVE  Moved(e, g.rtcm) /\ Table(i.rtcm.ssr)
<1> DEFINE f == [g.frame EXCEPT !.parity = @ /\ ~damaged]
           G == gen_rtcm3(e, type, sync)
<1>1. /\ G.ret \in {0, 1} /\ Moved(e, G.rtcm)
      /\ HasParity(G.frame)
      /\ G.frame.parity = IF G.ret = 1 THEN TRUE ELSE FALSE
      /\ G.ret = 1 => WellFormed(G.frame.msg) /\ G.frame.msg.type = type
  BY ZenonT(60), FrameIsSound
<1>2. g = G
  OBVIOUS
<1> HIDE DEF G
<1>3. f.msg = g.frame.msg
  BY <1>1, <1>2 DEF HasParity
<1>4. i = input_rtcm3(r, f)
  BY DEF Arrived
<1>5. CASE g.ret = 1 /\ ~damaged
  <2> DEFINE msg == g.frame.msg
             d == decode_rtcm3(r, msg)
  <2>1. f.parity
    BY <1>1, <1>2, <1>5 DEF HasParity
  <2>2. i = d
    BY <1>3, <1>4, <2>1 DEF input_rtcm3
  <2>3. WellFormed(msg) /\ msg.type = type
    BY <1>1, <1>2, <1>5
  <2>4. CASE SsrOf(type) = {}
    <3> HIDE DEF msg
    <3>1. SsrOf(msg.type) = {} => d.rtcm.ssr = r.ssr
      BY <2>3, MessageDecoded
    <3> HIDE DEF d
    <3> QED
      BY <1>1, <1>2, <2>2, <2>3, <2>4, <3>1
  <2>5. CASE SsrOf(type) # {}
    <3>1. IssueTold(msg) /\ msg.kind \in 1 .. 6
      BY <1>5, <2>5, IssueSent
    <3> HIDE DEF msg
    <3>2. HasEpoch(msg) /\ HasSats(msg)
      BY <2>3, <2>5 DEF WellFormed
    <3> DEFINE q == IF r.opt.rtinp THEN [r EXCEPT !.time = utc2gpst(r.clock)] ELSE r
    <3>3. Sound(q) /\ Table(q.ssr)
      <4>1. utc2gpst(r.clock) \in Int
        BY TimesAreIntegers DEF Sound
      <4>2. Follows(r, [r EXCEPT !.time = utc2gpst(r.clock)])
        BY <4>1, FieldsWritten
      <4> QED
        BY <4>2 DEF Follows
    <3>4. Table(decode_ssr(q, msg, msg.sys, msg.kind).rtcm.ssr)
      <4> HIDE DEF q
      <4> QED
        BY <3>1, <3>2, <3>3, IssuesDecoded
    <3>5. d = decode_ssr(q, msg, msg.sys, msg.kind)
      <4>1. type \in 1057 .. 1068 \/ type \in 1240 .. 1263
        BY <2>5, KindsApart
      <4>2. MsmOf(type) = {}
        BY <4>1, KindsApart
      <4>3. d = CASE msg.type = 1001 -> decode_type1001(q, msg)
        [] msg.type = 1002 -> decode_type1002(q, msg)
        [] msg.type = 1003 -> decode_type1003(q, msg)
        [] msg.type = 1004 -> decode_type1004(q, msg)
        [] msg.type = 1005 -> decode_type1005(q, msg)
        [] msg.type = 1006 -> decode_type1006(q, msg)
        [] msg.type = 1007 -> decode_type1007(q, msg)
        [] msg.type = 1008 -> decode_type1008(q, msg)
        [] msg.type = 1009 -> decode_type1009(q, msg)
        [] msg.type = 1010 -> decode_type1010(q, msg)
        [] msg.type = 1011 -> decode_type1011(q, msg)
        [] msg.type = 1012 -> decode_type1012(q, msg)
        [] msg.type = 1019 -> decode_type1019(q, msg)
        [] msg.type = 1020 -> decode_type1020(q, msg)
        [] msg.type = 1033 -> decode_type1033(q, msg)
        [] msg.type \in {1042, 63} -> decode_type1042(q, msg)
        [] msg.type = 1044 -> decode_type1044(q, msg)
        [] msg.type = 1045 -> decode_type1045(q, msg)
        [] msg.type = 1046 -> decode_type1046(q, msg)
        [] MsmOf(msg.type) # {} -> decode_msm(q, msg, msg.sys, msg.kind)
        [] SsrOf(msg.type) # {} -> decode_ssr(q, msg, msg.sys, msg.kind)
        [] OTHER -> Nothing(q)
        BY Zenon DEF decode_rtcm3, MsmOf, SsrOf
      <4> HIDE DEF d, q
      <4> QED
        BY <2>3, <2>5, <4>1, <4>2, <4>3
    <3> HIDE DEF d, q
    <3> QED
      BY <1>1, <1>2, <2>2, <3>4, <3>5
  <2> QED
    BY <2>4, <2>5
<1>6. CASE ~(g.ret = 1 /\ ~damaged)
  <2>1. ~f.parity
    BY <1>1, <1>2, <1>6 DEF HasParity
  <2>2. i = Nothing(r)
    BY <1>4, <2>1 DEF input_rtcm3
  <2> QED
    BY <1>1, <1>2, <2>2 DEF Nothing
<1> QED
  BY <1>5, <1>6

\* What a station has for the satellites in view is of one issue, for others nothing.
Stocked(p, ssr, n) ==
  \A s \in Sats : IF s \in InView(p) THEN ssr[s] = SsrOfIssue(n) ELSE ~ssr[s].update

\* What a station has is of one issue that was measured, and the receiver's table is in order.
IssueInv ==
  /\ issue \in 0 .. epoch
  /\ \A s \in Stations : \E n \in 0 .. issue : Stocked(plan, enc[s].ssr, n)
  /\ Table(dec.ssr)

\* A station's corrections are of the issue it has.
LEMMA StockIsFresh ==
  ASSUME NEW p, NEW n, NEW ssr, Stocked(p, ssr, n)
  PROVE  Fresh(ssr, n)
BY DEF Stocked, Fresh

\* A new structure has no corrections.
LEMMA TableMade ==
  ASSUME NEW opt
  PROVE  /\ Table([init_rtcm EXCEPT !.opt = opt].ssr)
         /\ \A s \in Sats : ~init_rtcm.ssr[s].update
<1>1. /\ init_rtcm.ssr = [s \in Sats |-> NoSsr]
      /\ [init_rtcm EXCEPT !.opt = opt].ssr = init_rtcm.ssr
  BY Zenon DEF init_rtcm
<1>2. OfItsIssue(NoSsr) /\ ~NoSsr.update
  BY DEF NoSsr, OfItsIssue, SsrFields
<1> QED
  BY <1>1, <1>2 DEF Table

\* An epoch's measurements bring the corrections of the newest issue.
LEMMA CorrectionsObserved ==
  ASSUME NEW p, NEW rtcm, IsRtcm(rtcm), NEW sta, NEW time, NEW n, NEW jumped, NEW slips,
         NEW latest
  PROVE  Observe(p, rtcm, sta, time, n, jumped, slips, latest).ssr =
           [s \in Sats |-> IF s \in InView(p) THEN SsrOfIssue(IF "ssr" \in p.renewed THEN latest ELSE 0)
                           ELSE rtcm.ssr[s]]
<1> DEFINE known(kind) == IF kind \in p.renewed THEN latest ELSE 0
           obs == [i \in DOMAIN p.tracks |->
                     Measurement(p, p.tracks[i], time, n, jumped[p.tracks[i].sat],
                                 p.tracks[i].sat \in slips, sta)]
           eph == [s \in Sats |-> IF satsys(s) # "GLO" THEN EphOfIssue(p, s, known("eph")) ELSE rtcm.eph[s]]
           geph == [s \in Sats |-> IF satsys(s) = "GLO" THEN GephOfIssue(p, s, known("eph")) ELSE rtcm.geph[s]]
           ssr == [s \in Sats |-> IF s \in InView(p) THEN SsrOfIssue(known("ssr")) ELSE rtcm.ssr[s]]
           own == StaOfIssue(known("sta"))
           r == Observe(p, rtcm, sta, time, n, jumped, slips, latest)
<1>1. r = [rtcm EXCEPT !.time = time, !.staid = sta, !.obs = obs, !.eph = eph, !.geph = geph,
                       !.ssr = ssr, !.sta = own]
  BY Zenon DEF Observe
<1> HIDE DEF obs, eph, geph, own, r, known, ssr
<1>2. r.ssr = ssr
  BY <1>1 DEF IsRtcm, Fields
<1> QED
  BY <1>2 DEF r, ssr, known

\* The first epoch brings corrections of the first issue.
LEMMA IssueInit ==
  ASSUME Init, LinkInv
  PROVE  IssueInv
<1>1. issue = 0 /\ epoch = 0 /\ dec = Decoder
  BY DEF Init
<1>2. Table(dec.ssr)
  BY <1>1, TableMade DEF Decoder
<1>3. ASSUME NEW s \in Stations
      PROVE  Stocked(plan, enc[s].ssr, 0)
  <2>1. enc[s] = Observe(plan, init_rtcm, s, now, 0, jumps, {}, 0)
    BY DEF Init
  <2>2. enc[s].ssr = [x \in Sats |-> IF x \in InView(plan)
                                     THEN SsrOfIssue(IF "ssr" \in plan.renewed THEN 0 ELSE 0)
                                     ELSE init_rtcm.ssr[x]]
    BY <2>1, StructureMade, CorrectionsObserved
  <2>3. \A x \in Sats : ~init_rtcm.ssr[x].update
    BY TableMade
  <2> QED
    BY <1>1, <2>2, <2>3 DEF Stocked
<1> QED
  BY <1>1, <1>2, <1>3 DEF IssueInv

\* An epoch brings corrections of one issue.
LEMMA IssueMeasure ==
  ASSUME LinkInv, IssueInv, Measure
  PROVE  IssueInv'
<1>1. plan' = plan /\ dec' = dec /\ epoch' = epoch + 1
  BY DEF Measure
<1>2. issue' \in {issue, issue + 1}
  BY DEF Measure, IssueInv
<1>3. Stations' = Stations
  BY <1>1 DEF Stations
<1>4. PICK slips : enc' = [s \in Stations |->
                            Observe(plan, enc[s], s, now', epoch', jumps', slips, issue')]
  BY DEF Measure
<1>5. epoch \in Nat /\ issue \in 0 .. epoch
  BY MessagesOfPlan DEF LinkInv, IssueInv
<1>6. issue' \in 0 .. epoch'
  BY <1>1, <1>2, <1>5
<1>7. PICK n \in 0 .. issue' : n = IF "ssr" \in plan.renewed THEN issue' ELSE 0
  BY <1>6, <1>5, <1>1
<1>8. ASSUME NEW s \in Stations
      PROVE  Stocked(plan, enc'[s].ssr, n)
  <2>1. IsRtcm(enc[s])
    BY DEF LinkInv, Sender
  <2>2. enc'[s] = Observe(plan, enc[s], s, now', epoch', jumps', slips, issue')
    BY <1>4
  <2>3. enc'[s].ssr = [x \in Sats |-> IF x \in InView(plan) THEN SsrOfIssue(n) ELSE enc[s].ssr[x]]
    BY <1>7, <2>1, <2>2, CorrectionsObserved
  <2>4. \A x \in Sats : x \notin InView(plan) => ~enc[s].ssr[x].update
    BY DEF IssueInv, Stocked
  <2> QED
    BY <2>3, <2>4 DEF Stocked
<1> QED
  BY <1>1, <1>3, <1>6, <1>7, <1>8 DEF IssueInv

\* A restart of either end leaves no correction of another issue.
LEMMA IssueRestart ==
  ASSUME LinkInv, IssueInv, RestartSender \/ RestartReceiver
  PROVE  IssueInv'
<1>1. plan' = plan /\ epoch' = epoch /\ issue' = issue
  BY DEF RestartSender, RestartReceiver, sentVars
<1>2. Stations' = Stations
  BY <1>1 DEF Stations
<1>4. CASE RestartSender
  <2>1. PICK s \in Stations :
          enc' = [enc EXCEPT ![s] = [init_rtcm EXCEPT
                   !.time = enc[s].time, !.staid = s, !.obs = enc[s].obs, !.eph = enc[s].eph,
                   !.geph = enc[s].geph, !.ssr = enc[s].ssr, !.sta = enc[s].sta]]
    BY <1>4 DEF RestartSender
  <2>2. [init_rtcm EXCEPT
                   !.time = enc[s].time, !.staid = s, !.obs = enc[s].obs, !.eph = enc[s].eph,
                   !.geph = enc[s].geph, !.ssr = enc[s].ssr, !.sta = enc[s].sta].ssr = enc[s].ssr
    BY StructureMade DEF IsRtcm, Fields
  <2>3. enc = [x \in Stations |-> enc[x]]
    BY DEF LinkInv
  <2>4. \A x \in Stations : enc'[x].ssr = enc[x].ssr
    BY <2>1, <2>2, <2>3
  <2>5. dec' = dec
    BY <1>4 DEF RestartSender
  <2> QED
    BY <1>1, <1>2, <2>4, <2>5 DEF IssueInv
<1>5. CASE RestartReceiver
  <2>1. enc' = enc /\ dec' = Decoder
    BY <1>5 DEF RestartReceiver
  <2>2. Table(dec'.ssr)
    BY <2>1, TableMade DEF Decoder
  <2> QED
    BY <1>1, <1>2, <2>1, <2>2 DEF IssueInv
<1> QED
  BY <1>4, <1>5

\* A message, damaged or not, leaves the receiver's table in order.
LEMMA IssueSend ==
  ASSUME LinkInv, IssueInv, Send, plan.epochs < 255
  PROVE  IssueInv'
<1>0. plan \in Plans /\ now \in Int /\ next \in 1 .. Len(plan.msgs)
  <2>1. plan \in Plans /\ next \in 1 .. Len(plan.msgs) + 1 /\ next <= Len(plan.msgs)
    BY DEF LinkInv, Send
  <2>2. Len(plan.msgs) \in Nat
    BY <2>1, MessagesOfPlan
  <2> QED
    BY <2>1, <2>2 DEF LinkInv
<1> DEFINE m == plan.msgs[next]
           clock == gpst2utc(now) + plan.skew
<1>1. m.sta \in Stations /\ m.type \in Int /\ m.sync \in BOOLEAN /\ clock \in Int
  BY <1>0, MessagesOfPlan DEF gpst2utc, Leaps
<1>2. PICK damaged \in IF faults < plan.losses THEN BOOLEAN ELSE {FALSE} :
        \E g \in {gen_rtcm3(Load(enc[m.sta], m), m.type, m.sync)} :
        \E i \in {input_rtcm3([dec EXCEPT !.clock = clock], [g.frame EXCEPT !.parity = @ /\ ~damaged])} :
          /\ enc' = [enc EXCEPT ![m.sta] = g.rtcm]
          /\ dec' = i.rtcm
          /\ faults' = IF damaged THEN faults + 1 ELSE faults
          /\ answer' = IF g.ret = 0 \/ damaged THEN NoAnswer
                       ELSE [ret |-> i.ret, type |-> m.type, sta |-> m.sta]
          /\ intact' = (intact /\ ~damaged /\ g.ret = 1 /\ i.ret >= 0)
          /\ refused' = IF i.ret = 1 THEN FALSE ELSE (refused \/ i.ret < 0)
          /\ handed' = IF i.ret = 1 THEN i.rtcm.time ELSE handed
          /\ last' = Note(g.rtcm, i.rtcm)
  BY Zenon DEF Send
<1>3. damaged \in BOOLEAN
  OBVIOUS
<1>4. PICK g, i : /\ g = gen_rtcm3(Load(enc[m.sta], m), m.type, m.sync)
                  /\ i = input_rtcm3([dec EXCEPT !.clock = clock], [g.frame EXCEPT !.parity = @ /\ ~damaged])
                  /\ enc' = [enc EXCEPT ![m.sta] = g.rtcm]
                  /\ dec' = i.rtcm
  BY <1>2, Zenon
<1> HIDE DEF m, clock
<1>5. plan' = plan /\ epoch' = epoch /\ issue' = issue
  BY DEF Send, sentVars
<1>6. PICK e, n : /\ e = Load(enc[m.sta], m) /\ Sender(e) /\ e.ssr = enc[m.sta].ssr
                  /\ n \in 0 .. 254 /\ Stocked(plan, e.ssr, n)
  <2>1. Sender(enc[m.sta]) /\ IsRtcm(enc[m.sta])
    BY <1>1 DEF LinkInv, Sender
  <2>2. Sender(Load(enc[m.sta], m))
    BY <2>1, Loaded
  <2>3. Load(enc[m.sta], m).ssr = enc[m.sta].ssr
    BY <2>1 DEF Load, IsRtcm, Fields
  <2>4. PICK n \in 0 .. issue : Stocked(plan, enc[m.sta].ssr, n)
    BY <1>1 DEF IssueInv
  <2>5. n \in 0 .. 254
    <3>1. plan.epochs \in Nat /\ epoch \in 0 .. plan.epochs /\ issue \in 0 .. epoch
      BY <1>0, MessagesOfPlan DEF IssueInv, LinkInv
    <3> QED
      BY <2>4, <3>1
  <2> QED
    BY <2>2, <2>3, <2>4, <2>5
<1>7. PICK r : /\ r = [dec EXCEPT !.clock = clock] /\ Sound(r) /\ Table(r.ssr)
  <2>1. Sound([dec EXCEPT !.clock = clock])
    BY <1>1, ClockRead DEF LinkInv
  <2>2. [dec EXCEPT !.clock = clock].ssr = dec.ssr
    BY DEF LinkInv, Sound, IsRtcm, Fields
  <2> QED
    BY <2>1, <2>2 DEF IssueInv
<1>8. PICK type \in Int, sync \in BOOLEAN : type = m.type /\ sync = m.sync
  BY <1>1
<1>9. Moved(e, g.rtcm) /\ Table(i.rtcm.ssr)
  <2>1. Fresh(e.ssr, n)
    BY <1>6, StockIsFresh
  <2>2. g = gen_rtcm3(e, type, sync)
    BY <1>4, <1>6, <1>8
  <2>3. i = input_rtcm3(r, Arrived(g.frame, damaged))
    BY <1>4, <1>7 DEF Arrived
  <2> QED
    BY ZenonT(60), <1>3, <1>6, <1>7, <2>1, <2>2, <2>3, TableKept
<1>10. g.rtcm.ssr = enc[m.sta].ssr
  BY <1>6, <1>9 DEF Moved, Fields
<1>11. \A s \in Stations : enc'[s].ssr = enc[s].ssr
  <2>1. enc = [s \in Stations |-> enc[s]]
    BY DEF LinkInv
  <2> QED
    BY <1>4, <1>10, <2>1
<1>12. Stations' = Stations
  BY <1>5 DEF Stations
<1> QED
  BY <1>4, <1>5, <1>9, <1>11, <1>12 DEF IssueInv

\* The receiver never mixes corrections of two issues, as long as an issue fits the
\* IODE field of the shortest message, which has 8 bits.
THEOREM CorrectionsKeepToIssues ==
  ASSUME \A p \in Plans : p.epochs < 255
  PROVE  Spec => []CorrectionsOfTheirIssue
<1>1. Init /\ LinkInv => IssueInv
  BY IssueInit
<1>2. LinkInv /\ IssueInv /\ [Next]_vars => IssueInv'
  <2> SUFFICES ASSUME LinkInv, IssueInv, [Next]_vars
               PROVE  IssueInv'
    OBVIOUS
  <2>1. CASE UNCHANGED vars
    <3>1. plan' = plan /\ epoch' = epoch /\ issue' = issue /\ enc' = enc /\ dec' = dec
      BY <2>1 DEF vars, sentVars
    <3>2. Stations' = Stations
      BY <3>1 DEF Stations
    <3> QED
      BY <3>1, <3>2 DEF IssueInv
  <2>2. CASE Measure
    BY <2>2, IssueMeasure
  <2>3. CASE Send
    <3>1. plan.epochs < 255
      BY DEF LinkInv
    <3> QED
      BY <2>3, <3>1, IssueSend
  <2>4. CASE RestartSender \/ RestartReceiver
    BY <2>4, IssueRestart
  <2>5. CASE Done
    BY <2>1, <2>5 DEF Done
  <2> QED
    BY <2>1, <2>2, <2>3, <2>4, <2>5 DEF Next
<1>3. IssueInv => CorrectionsOfTheirIssue
  BY DEF IssueInv, Table, OfItsIssue, OfIssue, CorrectionsOfTheirIssue
<1> QED
  BY <1>1, <1>2, <1>3, LinkInvariant, PTL DEF Spec

-----------------------------------------------------------------------------
(* Ephemerides: what a station has is what the receiver holds, though      *)
(* their weeks, times and issues went through fields too short for them.   *)

\* The time of an ephemeris is a whole number of hours, 84 times two to a week.
LEMMA ToeIsEven ==
  ASSUME NEW p, p.start \in Int, NEW n \in Nat, NEW T, T = Toe(p, n)
  PROVE  /\ T \in Int /\ p.start < T /\ T <= p.start + 7200 * (n + 1)
         /\ \E w \in Int, k \in 0 .. 83 :
              /\ T = w * Week + 7200 * k
              /\ WeekOf(T) = w /\ Tow(T) = 7200 * k
<1>1. PICK a \in Int : a = p.start
  OBVIOUS
<1>2. PICK q \in Int : q = a \div 7200 /\ 7200 * q <= a /\ a < 7200 * q + 7200
  <2>1. a \div 7200 \in Int /\ 7200 * (a \div 7200) <= a /\ a < 7200 * (a \div 7200) + 7200
    BY SMT
  <2> QED
    BY <2>1
<1>3. PICK j \in Int : j = q + 1 + n /\ T = j * 7200
  BY <1>1, <1>2 DEF Toe
<1>4. T \in Int /\ a < T /\ T <= a + 7200 * (n + 1)
  BY <1>2, <1>3
<1>5. PICK w \in Int : w = j \div 84 /\ 84 * w <= j /\ j < 84 * w + 84
  <2>1. j \div 84 \in Int /\ 84 * (j \div 84) <= j /\ j < 84 * (j \div 84) + 84
    BY SMT
  <2> QED
    BY <2>1
<1>6. PICK k \in 0 .. 83 : k = j - 84 * w
  BY <1>5
<1>7. T = w * 604800 + 7200 * k
  BY <1>3, <1>6
<1>8. T % 604800 = 7200 * k /\ T \div 604800 = w
  <2>1. 0 <= 7200 * k /\ 7200 * k < 604800
    OBVIOUS
  <2> QED
    BY <1>7, <2>1
<1> QED
  BY <1>1, <1>4, <1>7, <1>8 DEF Tow, WeekOf, Week

\* Its time of week is a multiple of the units of every message.
LEMMA UnitsExact ==
  ASSUME NEW k \in Int
  PROVE  /\ Units(7200 * k, 16) = 7200 * k
         /\ Units(7200 * k, 60) = 7200 * k
         /\ Units(7200 * k, 8) = 7200 * k
<1>1. (2 * (7200 * k) + 16) \div (2 * 16) = 450 * k
  BY SMT
<1>2. (2 * (7200 * k) + 60) \div (2 * 60) = 120 * k
  BY SMT
<1>3. (2 * (7200 * k) + 8) \div (2 * 8) = 900 * k
  BY SMT
<1> QED
  BY <1>1, <1>2, <1>3 DEF Units

\* Times of at most 504 weeks apart are in weeks of at most 505 apart.
LEMMA WeeksNear ==
  ASSUME NEW a \in Int, NEW b \in Int, a - b <= 504 * Week, b - a <= 504 * Week
  PROVE  WeekOf(a) - WeekOf(b) <= 505 /\ WeekOf(b) - WeekOf(a) <= 505
<1>1. PICK u \in Int, x \in Int : u = WeekOf(a) /\ a = u * Week + x /\ 0 <= x /\ x < Week
  BY WeekAndTow
<1>2. PICK v \in Int, y \in Int : v = WeekOf(b) /\ b = v * Week + y /\ 0 <= y /\ y < Week
  BY WeekAndTow
<1>3. PICK d \in Int : d = u - v /\ a - b = d * 604800 + (x - y)
  BY <1>1, <1>2 DEF Week
<1>4. a - b <= 504 * 604800 /\ -(504 * 604800) <= a - b /\ x - y < 604800 /\ -604800 < x - y
  BY <1>1, <1>2 DEF Week
<1>5. d <= 505 /\ -d <= 505
  BY <1>3, <1>4
<1>6. u - v <= 505 /\ v - u <= 505
  BY <1>3, <1>5
<1> QED
  BY Zenon, <1>1, <1>2, <1>6

\* A week number of BeiDou of ten bits or more is found again in the same way.
LEMMA BeidouWeekFound ==
  ASSUME NEW rtcm, rtcm.clock \in Int, NEW w \in Nat,
         NEW u \in Int, u = WeekOf(gpst2bdt(utc2gpst(rtcm.clock))) - Bdt0Week,
         u - w <= 510, w - u <= 510
  PROVE  adjbdtweek(rtcm, w) = w
<1>2. PICK v \in Int : v = IF u < 1 THEN 1 ELSE u
  OBVIOUS
<1>3. 0 <= v - w + 512 /\ v - w + 512 < 1024
  BY <1>2
<1>4. Cdiv(v - w + 512, 1024) = 0
  BY <1>3 DEF Cdiv
<1>5. adjbdtweek(rtcm, w) = w + Cdiv(v - w + 512, 1024) * 1024
  BY SMTT(60), <1>2 DEF adjbdtweek
<1> QED
  BY <1>4, <1>5

\* A time of day of Moscow becomes the time it is of, if that is less than half a
\* day from the known one.
FullTime(known, x) ==
  LET utc == gpst2utc(known)
      tod == Tow(utc) % Day
  IN  utc2gpst(utc - tod + Near(x - MoscowOffset, tod, Day))

\* A time is found again from its time of the GLONASS day.
LEMMA TimeOfDayFound ==
  ASSUME NEW t \in Int, NEW known \in Int, Within(t, known, Day)
  PROVE  FullTime(known, Tow(GlonassDay(t)) % Day) = t
<1>1. PICK u \in Int : u = gpst2utc(t) /\ GlonassDay(t) = u + 10800
  BY DEF gpst2utc, Leaps, GlonassDay, MoscowOffset
<1>2. PICK c \in Int : c = gpst2utc(known)
  BY DEF gpst2utc, Leaps
<1>3. 2 * (u - c) < 86400 /\ 2 * (c - u) < 86400
  BY <1>1, <1>2 DEF Within, Day, gpst2utc, Leaps
<1>4. PICK m \in Int, x \in Int : x = Tod(u + 10800) /\ Cut(u + 10800, Day, m, x)
  BY DayAndTod
<1>5. PICK n \in Int, y \in Int : y = Tod(c) /\ Cut(c, Day, n, y)
  BY DayAndTod
<1>6. PICK z \in Int : z = x - 10800 /\ u = m * 86400 + z /\ -10800 <= z /\ z < 75600
  BY <1>4 DEF Cut, Day
<1>7. c = n * 86400 + y /\ 0 <= y /\ y < 86400
  BY <1>5 DEF Cut, Day
<1>8. m = n \/ m = n + 1 \/ m = n - 1
  <2>1. u - c = (m - n) * 86400 + (z - y)
    BY <1>6, <1>7
  <2>2. m - n < 2 /\ n - m < 2
    BY <1>3, <1>6, <1>7, <2>1
  <2> QED
    BY <2>2
<1>9. c - y + Near(z, y, 86400) = u
  <2>1. CASE m = n
    BY <1>3, <1>6, <1>7, <2>1 DEF Near
  <2>2. CASE m = n + 1
    BY <1>3, <1>6, <1>7, <2>2 DEF Near
  <2>3. CASE m = n - 1
    BY <1>3, <1>6, <1>7, <2>3 DEF Near
  <2> QED
    BY <1>8, <2>1, <2>2, <2>3
<1>10. Tow(GlonassDay(t)) % Day = x /\ Tow(c) % Day = y
  BY <1>1, <1>4, <1>5 DEF Tod
<1>11. FullTime(known, x) = utc2gpst(c - y + Near(z, y, 86400))
  BY <1>2, <1>6, <1>10 DEF FullTime, MoscowOffset, Day
<1> QED
  BY <1>1, <1>9, <1>10, <1>11 DEF utc2gpst, gpst2utc, Leaps

NavFields == {"type", "prn", "week", "iode", "iodc", "toes", "tocs", "code", "svh", "body"}

IsRecord(m) == m = [f \in DOMAIN m |-> m[f]]

\* The fields of a message that do not depend on its type.
EphFields(msg, prn, week, T, n, svh) ==
  /\ NavFields \subseteq DOMAIN msg /\ IsRecord(msg)
  /\ msg.prn = prn /\ msg.week = week
  /\ msg.toes = Tow(T) /\ msg.tocs = Tow(T)
  /\ msg.iode = n + 1 /\ msg.svh = svh /\ msg.body = n + 1

\* What a message says of the ephemeris of a satellite: its number and its week as the
\* fields of the type have them, and its issue.
EphTold(type, msg, sat, T, n) ==
  /\ EphFields(msg, IF type = 1044 THEN sat[2] - 192 ELSE sat[2],
               CASE type \in {1019, 1044} -> WeekOf(T) % 1024
                 [] type \in {1045, 1046} -> (WeekOf(T) - 1024) % 4096
                 [] OTHER                 -> (WeekOf(T) - Bdt0Week) % 8192,
               T, n, 0)
  /\ type \notin {1045, 1046} => msg.iodc = n + 1

NavSystem(type) ==
  CASE type = 1019           -> "GPS"
    [] type = 1044           -> "QZS"
    [] type \in {1045, 1046} -> "GAL"
    [] type \in {1042, 63}   -> "CMP"
    [] OTHER                 -> "GLO"

\* What EncodeEph makes of an ephemeris of the n-th issue.
LEMMA EphFieldsTold ==
  ASSUME NEW r, NEW type, NEW sys, NEW prn, NEW week, NEW T, NEW unit,
         Units(Tow(T), unit) = Tow(T), NEW svh, NEW bits,
         NEW n \in Nat, NEW iodes \in Nat, (n + 1) % iodes = n + 1, NEW iodcs \in Nat,
         NEW eph, eph = r.eph[r.ephsat], eph.iode = n + 1, eph.iodc = n + 1, eph.body = n + 1,
         NEW e, e = EncodeEph(r, type, sys, prn, week, unit, iodes, iodcs, T, T, svh, bits)
  PROVE  EphFields(e.msg, prn, week, T, n, svh) /\ e.msg.iodc = (n + 1) % iodcs
<1> DEFINE m == [type |-> type, prn |-> prn, week |-> week, iode |-> eph.iode % iodes,
                 iodc |-> eph.iodc % iodcs, toes |-> Units(Tow(T), unit),
                 tocs |-> Units(Tow(T), unit), code |-> eph.code % 4, svh |-> svh,
                 body |-> eph.body]
<1>4. e = [ret |-> 1, msg |-> m, bits |-> bits, rtcm |-> r]
  BY Zenon DEF EncodeEph, Accept
<1>5. /\ NavFields \subseteq DOMAIN m /\ IsRecord(m)
      /\ m.prn = prn /\ m.week = week
      /\ m.toes = Units(Tow(T), unit) /\ m.tocs = Units(Tow(T), unit)
      /\ m.iode = eph.iode % iodes /\ m.svh = svh /\ m.body = eph.body
      /\ m.iodc = eph.iodc % iodcs
  BY DEF NavFields, IsRecord
<1> HIDE DEF m
<1>6. e.msg = m
  BY <1>4
<1> QED
  BY <1>5, <1>6 DEF EphFields

\* The fields of the ephemeris of an issue.
LEMMA IssueOfEph ==
  ASSUME NEW p, NEW n, NEW sat, NEW T, T = Toe(p, n), T \in Int, NEW eph, eph = EphOfIssue(p, sat, n)
  PROVE  /\ eph.sat = sat /\ eph.iode = n + 1 /\ eph.iodc = n + 1 /\ eph.svh = 0 /\ eph.body = n + 1
         /\ eph.toe = eph.toc
         /\ satsys(sat) # "CMP" => eph.toe = T
         /\ satsys(sat) = "CMP" => eph.toe = T + 14 /\ gpst2bdt(eph.toe) = T
<1> DEFINE toe == IF satsys(sat) = "CMP" THEN bdt2gpst(Toe(p, n)) ELSE Toe(p, n)
           code == IF satsys(sat) \in {"GPS", "QZS"} THEN 1 ELSE 0
<1>1. eph = [sat |-> sat, iode |-> n + 1, iodc |-> n + 1, toe |-> toe, toc |-> toe, ttr |-> 0,
             code |-> code, svh |-> 0, body |-> n + 1]
  BY DEF EphOfIssue
<1>2. toe = IF satsys(sat) = "CMP" THEN T + 14 ELSE T
  BY DEF bdt2gpst
<1> HIDE DEF toe, code
<1> QED
  BY <1>1, <1>2 DEF gpst2bdt

\* The encoder of each ephemeris.
NavEncoded(r, type) ==
  CASE type = 1019 -> encode_type1019(r)
    [] type = 1020 -> encode_type1020(r)
    [] type = 1042 -> encode_type1042(r)
    [] type = 63   -> encode_type63(r)
    [] type = 1044 -> encode_type1044(r)
    [] type = 1045 -> encode_type1045(r)
    [] OTHER       -> encode_type1046(r)

\* The message of an ephemeris of GPS or QZSS has the week and the times of it.
LEMMA GpsEphMade ==
  ASSUME NEW r, NEW type, NEW sys, NEW first, NEW bits, HasEph(r, sys),
         NEW sat, sat = r.ephsat, NEW T, r.eph[sat].toe = T, r.eph[sat].toc = T,
         NEW week, week = WeekOf(T) % 1024, NEW svh, svh = r.eph[sat].svh % 64
  PROVE  EncodeGpsEph(r, type, sys, first, bits) =
           EncodeEph(r, type, sys, sat[2] - first, week, 16, 256, 1024, T, T, svh, bits)
BY DEF EncodeGpsEph

\* That of one of Galileo has the week of Galileo,
LEMMA GalEphMade ==
  ASSUME NEW r, NEW type, NEW svh, NEW bits, HasEph(r, "GAL"),
         NEW sat, sat = r.ephsat, NEW T, r.eph[sat].toe = T, r.eph[sat].toc = T,
         NEW week, week = (WeekOf(T) - 1024) % 4096
  PROVE  EncodeGalEph(r, type, svh, bits) =
           EncodeEph(r, type, "GAL", sat[2], week, 60, 1024, 1, T, T, svh, bits)
BY DEF EncodeGalEph

\* and that of one of BeiDou its week and its times.
LEMMA CmpEphMade ==
  ASSUME NEW r, NEW type, HasEph(r, "CMP"),
         NEW sat, sat = r.ephsat, NEW T, gpst2bdt(r.eph[sat].toe) = T, gpst2bdt(r.eph[sat].toc) = T,
         NEW week, week = (WeekOf(T) - Bdt0Week) % 8192, NEW svh, svh = r.eph[sat].svh % 2
  PROVE  EncodeCmpEph(r, type) =
           EncodeEph(r, type, "CMP", sat[2], week, 8, 32, 32, T, T, svh, 511)
BY DEF EncodeCmpEph

\* The two messages of Galileo differ in the health that they tell.
LEMMA GalHealth ==
  ASSUME NEW r, NEW type, type = 1045 \/ type = 1046, NEW h, h = r.eph[r.ephsat].svh,
         NEW svh, svh = IF type = 1045 THEN ((h \div 8) % 8) * 8 ELSE ((h \div 64) % 8) * 64 + (h % 8),
         NEW bits, bits = IF type = 1045 THEN 496 ELSE 502
  PROVE  NavEncoded(r, type) = EncodeGalEph(r, type, svh, bits)
<1>1. CASE type = 1045
  <2>1. PICK x : x = ((h \div 8) % 8) * 8
    OBVIOUS
  <2>2. type = 1045 /\ svh = x /\ bits = 496
    BY <1>1, <2>1
  <2>3. encode_type1045(r) = EncodeGalEph(r, 1045, x, 496)
    BY <2>1 DEF encode_type1045
  <2>4. NavEncoded(r, type) = encode_type1045(r)
    BY <1>1 DEF NavEncoded
  <2> QED
    BY <2>2, <2>3, <2>4
<1>2. CASE type = 1046
  <2>1. PICK x : x = ((h \div 64) % 8) * 64 + (h % 8)
    OBVIOUS
  <2>2. type = 1046 /\ svh = x /\ bits = 502
    BY <1>2, <2>1
  <2>3. encode_type1046(r) = EncodeGalEph(r, 1046, x, 502)
    BY <2>1 DEF encode_type1046
  <2>4. NavEncoded(r, type) = encode_type1046(r)
    BY <1>2 DEF NavEncoded
  <2> QED
    BY <2>2, <2>3, <2>4
<1> QED
  BY <1>1, <1>2

\* A station that has the ephemeris of an issue sends it.
LEMMA EphEncoded ==
  ASSUME NEW p, p.start \in Int, NEW n \in Nat, n < 255, NEW r, NEW sat, sat = r.ephsat,
         r.eph[sat] = EphOfIssue(p, sat, n), NEW T, T = Toe(p, n),
         NEW type \in {1019, 1044, 1045, 1046, 1042, 63}, type \in {1042, 63} => n < 31,
         NEW e, e = NavEncoded(r, type), e.ret # 0
  PROVE  EphTold(type, e.msg, sat, T, n) /\ sat \in Sats /\ satsys(sat) = NavSystem(type)
<1>1. T \in Int /\ \E k \in 0 .. 83 : Tow(T) = 7200 * k
  BY ToeIsEven
<1>2. Units(Tow(T), 8) = Tow(T) /\ Units(Tow(T), 16) = Tow(T) /\ Units(Tow(T), 60) = Tow(T)
  <2>1. PICK k \in 0 .. 83, t \in Int : t = Tow(T) /\ t = 7200 * k
    BY <1>1
  <2>2. Units(t, 8) = t /\ Units(t, 16) = t /\ Units(t, 60) = t
    BY <2>1, UnitsExact
  <2> QED
    BY <2>1, <2>2
<1>3. PICK eph : eph = r.eph[sat]
  OBVIOUS
<1>4. /\ eph.sat = sat /\ eph.iode = n + 1 /\ eph.iodc = n + 1 /\ eph.svh = 0 /\ eph.body = n + 1
      /\ eph.toe = eph.toc
      /\ satsys(sat) # "CMP" => eph.toe = T
      /\ satsys(sat) = "CMP" => gpst2bdt(eph.toe) = T
  BY <1>1, <1>3, IssueOfEph
<1>5. Refuse(r).ret = 0
  BY DEF Refuse
<1>m. /\ (n + 1) % 256 = n + 1 /\ (n + 1) % 1024 = n + 1
      /\ type \in {1042, 63} => (n + 1) % 32 = n + 1
  <2>1. PICK v \in Nat : v = n + 1 /\ v < 256 /\ (type \in {1042, 63} => v < 32)
    OBVIOUS
  <2>2. v % 256 = v /\ v % 1024 = v /\ (v < 32 => v % 32 = v)
    BY <2>1
  <2> QED
    BY <2>1, <2>2
<1> DEFINE Goal == EphTold(type, e.msg, sat, T, n) /\ sat \in Sats /\ satsys(sat) = NavSystem(type)
           gps == WeekOf(T) % 1024
           gal == (WeekOf(T) - 1024) % 4096
           cmp == (WeekOf(T) - Bdt0Week) % 8192
<1>w. ASSUME type \in {1019, 1044}, e.msg.iodc = n + 1,
             EphFields(e.msg, IF type = 1044 THEN sat[2] - 192 ELSE sat[2], gps, T, n, 0)
      PROVE  EphTold(type, e.msg, sat, T, n)
  <2>1. (CASE type \in {1019, 1044} -> gps [] type \in {1045, 1046} -> gal [] OTHER -> cmp) = gps
    BY <1>w
  <2> QED
    BY <1>w, <2>1 DEF EphTold
<1>x. ASSUME type \in {1045, 1046}, EphFields(e.msg, sat[2], gal, T, n, 0)
      PROVE  EphTold(type, e.msg, sat, T, n)
  <2>1. (CASE type \in {1019, 1044} -> gps [] type \in {1045, 1046} -> gal [] OTHER -> cmp) = gal
    BY <1>x
  <2>2. type # 1044
    BY <1>x
  <2> QED
    BY <1>x, <2>1, <2>2 DEF EphTold
<1>y. ASSUME type \in {1042, 63}, e.msg.iodc = n + 1, EphFields(e.msg, sat[2], cmp, T, n, 0)
      PROVE  EphTold(type, e.msg, sat, T, n)
  <2>1. (CASE type \in {1019, 1044} -> gps [] type \in {1045, 1046} -> gal [] OTHER -> cmp) = cmp
    BY <1>y
  <2>2. type # 1044
    BY <1>y
  <2> QED
    BY <1>y, <2>1, <2>2 DEF EphTold
<1>z. 0 % 64 = 0 /\ 0 % 2 = 0 /\ ((0 \div 8) % 8) * 8 = 0 /\ ((0 \div 64) % 8) * 64 + (0 % 8) = 0
  OBVIOUS
<1>s. sat \in Sats => sat[2] \in Int
  BY SizesAssumption
<1> HIDE DEF gps, gal, cmp
<1>6. CASE type \in {1019, 1044}
  <2> DEFINE sys == IF type = 1019 THEN "GPS" ELSE "QZS"
             first == IF type = 1019 THEN 0 ELSE 192
             bits == IF type = 1019 THEN 488 ELSE 485
  <2>1. e = EncodeGpsEph(r, type, sys, first, bits)
    BY <1>6 DEF NavEncoded, encode_type1019, encode_type1044
  <2> HIDE DEF sys, first, bits
  <2>2. HasEph(r, sys)
    BY <1>5, <2>1 DEF EncodeGpsEph
  <2>3. sat \in Sats /\ satsys(sat) = sys
    BY <2>2 DEF HasEph
  <2>d. satsys(sat) # "CMP"
    BY <2>3 DEF sys
  <2> DEFINE prn == sat[2] - first
             svh == 0 % 64
  <2>4. e = EncodeEph(r, type, sys, prn, gps, 16, 256, 1024, T, T, svh, bits)
    BY <1>3, <1>4, <2>1, <2>2, <2>d, GpsEphMade DEF gps
  <2> HIDE DEF prn, svh
  <2>9. PICK d : d = EncodeEph(r, type, sys, prn, gps, 16, 256, 1024, T, T, svh, bits)
    OBVIOUS
  <2>10. EphFields(d.msg, prn, gps, T, n, svh) /\ d.msg.iodc = (n + 1) % 1024
    BY <1>2, <1>3, <1>4, <1>m, <2>9, EphFieldsTold
  <2>5. EphFields(e.msg, prn, gps, T, n, svh) /\ e.msg.iodc = (n + 1) % 1024
    BY <2>4, <2>9, <2>10
  <2>6. svh = 0
    BY <1>z DEF svh
  <2>7. prn = IF type = 1044 THEN sat[2] - 192 ELSE sat[2]
    BY <1>6, <1>s, <2>3 DEF prn, first
  <2>8. EphTold(type, e.msg, sat, T, n)
    BY <1>6, <1>m, <1>w, <2>5, <2>6, <2>7
  <2> QED
    BY <1>6, <2>3, <2>8 DEF NavSystem, sys
<1>7. CASE type \in {1045, 1046}
  <2> DEFINE svh == IF type = 1045 THEN ((r.eph[r.ephsat].svh \div 8) % 8) * 8
                    ELSE ((r.eph[r.ephsat].svh \div 64) % 8) * 64 + (r.eph[r.ephsat].svh % 8)
             bits == IF type = 1045 THEN 496 ELSE 502
  <2>1. e = EncodeGalEph(r, type, svh, bits)
    BY <1>7, GalHealth
  <2>6. svh = 0
    BY <1>3, <1>4, <1>z
  <2> HIDE DEF svh, bits
  <2>2. HasEph(r, "GAL")
    BY <1>5, <2>1 DEF EncodeGalEph
  <2>3. sat \in Sats /\ satsys(sat) = "GAL"
    BY <2>2 DEF HasEph
  <2>4. e = EncodeEph(r, type, "GAL", sat[2], gal, 60, 1024, 1, T, T, svh, bits)
    BY <1>3, <1>4, <2>1, <2>2, <2>3, GalEphMade DEF gal
  <2>9. PICK d : d = EncodeEph(r, type, "GAL", sat[2], gal, 60, 1024, 1, T, T, svh, bits)
    OBVIOUS
  <2>10. EphFields(d.msg, sat[2], gal, T, n, svh)
    BY <1>2, <1>3, <1>4, <1>m, <2>9, EphFieldsTold
  <2>5. EphFields(e.msg, sat[2], gal, T, n, svh)
    BY <2>4, <2>9, <2>10
  <2>8. EphTold(type, e.msg, sat, T, n)
    BY <1>7, <1>x, <2>5, <2>6
  <2> QED
    BY <1>7, <2>3, <2>8 DEF NavSystem
<1>8. CASE type \in {1042, 63}
  <2>1. e = EncodeCmpEph(r, type)
    BY <1>8 DEF NavEncoded, encode_type1042, encode_type63
  <2>2. HasEph(r, "CMP")
    BY <1>5, <2>1 DEF EncodeCmpEph
  <2>3. sat \in Sats /\ satsys(sat) = "CMP"
    BY <2>2 DEF HasEph
  <2> DEFINE svh == 0 % 2
  <2>4. e = EncodeEph(r, type, "CMP", sat[2], cmp, 8, 32, 32, T, T, svh, 511)
    BY <1>3, <1>4, <2>1, <2>2, <2>3, CmpEphMade DEF cmp
  <2> HIDE DEF svh
  <2>9. PICK d : d = EncodeEph(r, type, "CMP", sat[2], cmp, 8, 32, 32, T, T, svh, 511)
    OBVIOUS
  <2>10. EphFields(d.msg, sat[2], cmp, T, n, svh) /\ d.msg.iodc = (n + 1) % 32
    BY <1>2, <1>3, <1>4, <1>8, <1>m, <2>9, EphFieldsTold
  <2>5. EphFields(e.msg, sat[2], cmp, T, n, svh) /\ e.msg.iodc = (n + 1) % 32
    BY <2>4, <2>9, <2>10
  <2>6. svh = 0
    BY <1>z DEF svh
  <2>8. EphTold(type, e.msg, sat, T, n)
    BY <1>8, <1>m, <1>y, <2>5, <2>6
  <2> QED
    BY <1>8, <2>3, <2>8 DEF NavSystem
<1> QED
  BY <1>6, <1>7, <1>8

\* The receiver's clock is less than 504 weeks from a time.
Reach == 503 * Week + Day
Close(a, b) == a - b <= Reach /\ b - a <= Reach
ClockNear(rtcm, T) == Close(utc2gpst(rtcm.clock), T)

\* The plan starts in the weeks that the fields of all systems hold.
Timely(p) == p.start \in Int /\ 1560 <= WeekOf(p.start) /\ WeekOf(p.start) <= 5000

InWeeks(w) == w \in Nat /\ 1560 <= w /\ w <= 5004

\* The weeks of ephemerides are those of the plan.
LEMMA WeekOfToe ==
  ASSUME NEW p, Timely(p), NEW n \in Nat, n < 255,
         NEW T, T = Toe(p, n)
  PROVE  /\ T \in Int /\ InWeeks(WeekOf(T)) /\ T = WeekOf(T) * Week + Tow(T)
         /\ p.start < T /\ T <= p.start + 7200 * 255
<1>1. T \in Int /\ p.start < T /\ T <= p.start + 7200 * (n + 1)
  BY ToeIsEven DEF Timely
<1>2. PICK a \in Int, w \in Int, x \in Int :
        a = p.start /\ w = WeekOf(a) /\ a = w * Week + x /\ 0 <= x /\ x < Week
        /\ 1560 <= w /\ w <= 5000
  BY WeekAndTow DEF Timely
<1>3. PICK v \in Int, y \in Int :
        v = WeekOf(T) /\ y = Tow(T) /\ T = v * Week + y /\ 0 <= y /\ y < Week
  BY <1>1, WeekAndTow
<1>5. a < T /\ T <= a + 7200 * 255
  BY <1>1, <1>2
<1>6. v >= w /\ v <= w + 4
  BY <1>2, <1>3, <1>5 DEF Week
<1>7. InWeeks(v)
  BY <1>2, <1>6 DEF InWeeks
<1>8. T = WeekOf(T) * Week + Tow(T)
  BY <1>1, WeekAndTow
<1> QED
  BY <1>1, <1>2, <1>3, <1>5, <1>7, <1>8

\* The week numbers of GPS and of BeiDou are found again.
LEMMA WeeksFound ==
  ASSUME NEW q, q.clock \in Int, NEW T \in Int, InWeeks(WeekOf(T)), ClockNear(q, T)
  PROVE  /\ adjgpsweek(q, WeekOf(T) % 1024) = WeekOf(T)
         /\ adjbdtweek(q, (WeekOf(T) - Bdt0Week) % 8192) = WeekOf(T) - Bdt0Week
         /\ (WeekOf(T) - 1024) % 4096 = WeekOf(T) - 1024
<1>1. PICK k \in Int : k = utc2gpst(q.clock)
  BY DEF utc2gpst, Leaps
<1>c. k - T <= 304300800 /\ T - k <= 304300800
  <2>1. Close(k, T)
    BY <1>1 DEF ClockNear
  <2> QED
    BY <2>1 DEF Close, Reach, Week, Day
<1>2. PICK w \in Nat : w = WeekOf(T) /\ 1560 <= w /\ w <= 5004
  BY DEF InWeeks
<1>3. WeekOf(k) - w <= 505 /\ w - WeekOf(k) <= 505
  <2>1. k - T <= 504 * Week /\ T - k <= 504 * Week
    BY <1>c DEF Week
  <2> QED
    BY <1>2, <2>1, WeeksNear
<1>4. WeekOf(k) \in Int
  BY WeekAndTow
<1>5. adjgpsweek(q, w % 1024) = w
  <2>1. PICK v \in Int : v = WeekOf(k) /\ v - w <= 505 /\ w - v <= 505
    BY <1>3, <1>4
  <2>2. Now(q) = IF v < 1560 THEN 1560 ELSE v
    BY <1>1, <2>1 DEF Now
  <2>3. w - 512 <= Now(q) /\ Now(q) <= w + 511
    BY <1>2, <2>1, <2>2
  <2> QED
    BY <2>3, WeekNumberResolved
<1>6. adjbdtweek(q, w - 1356) = w - 1356
  <2>1. PICK b \in Int : b = gpst2bdt(k) /\ b = k - 14
    BY DEF gpst2bdt
  <2>2. b - T <= 504 * Week /\ T - b <= 504 * Week
    BY <1>c, <2>1 DEF Week
  <2>3. WeekOf(b) - w <= 505 /\ w - WeekOf(b) <= 505
    BY <1>2, <2>2, WeeksNear
  <2>4. WeekOf(b) \in Int
    BY WeekAndTow
  <2>5. PICK u \in Int : u = WeekOf(b) - Bdt0Week
    BY <2>4 DEF Bdt0Week
  <2>6. PICK v \in Nat : v = w - 1356 /\ u - v <= 510 /\ v - u <= 510
    BY <1>2, <2>3, <2>4, <2>5 DEF Bdt0Week
  <2>7. u = WeekOf(gpst2bdt(utc2gpst(q.clock))) - Bdt0Week
    BY <1>1, <2>1, <2>5
  <2>8. adjbdtweek(q, v) = v
    BY <2>6, <2>7, BeidouWeekFound
  <2> QED
    BY <2>6, <2>8
<1>7. (w - 1356) % 8192 = w - 1356 /\ (w - 1024) % 4096 = w - 1024
  <2>1. PICK x \in Nat, y \in Nat : x = w - 1356 /\ y = w - 1024 /\ x < 8192 /\ y < 4096
    BY <1>2
  <2>2. x % 8192 = x /\ y % 4096 = y
    BY <2>1
  <2> QED
    BY <2>1, <2>2
<1> QED
  BY <1>2, <1>5, <1>6, <1>7 DEF Bdt0Week

SameEph(x, y) ==
  /\ \A f \in {"iode", "toe", "toc", "svh", "body"} : x[f] = y[f]
  /\ satsys(y.sat) # "GAL" => x.iodc = y.iodc

\* The receiver keeps an ephemeris of a satellite.
KeepEph(q, sat, eph) == [ret |-> 2, rtcm |-> [q EXCEPT !.eph[sat] = eph, !.ephsat = sat]]

\* A message is refused, is of an issue that the receiver has, or is kept.
Found(i, q, sat, msg, eph) ==
  \/ i = Error(q)
  \/ i = Nothing(q) /\ msg.iode = q.eph[sat].iode
  \/ i = KeepEph(q, sat, eph)

\* The messages of every system, with the week of the field found.
LEMMA Dec1019 ==
  ASSUME NEW q, NEW msg, NEW sat, GpsSat(msg.prn) = sat, NEW week, adjgpsweek(q, msg.week) = week,
         NEW T, gpst2time(week, msg.toes) = T, gpst2time(week, msg.tocs) = T
  PROVE  Found(decode_type1019(q, msg), q, sat, msg, EphOf(q, msg, sat, T, T, msg.code))
BY ZenonT(60) DEF decode_type1019, SaveEph, Found, KeepEph

\* What the message of a QZSS ephemeris is decoded to, in the week and times that are found.
LEMMA Dec1044 ==
  ASSUME NEW q, NEW msg, NEW sat, satno("QZS", msg.prn + 192) = sat, NEW week, adjgpsweek(q, msg.week) = week,
         NEW T, gpst2time(week, msg.toes) = T, gpst2time(week, msg.tocs) = T
  PROVE  Found(decode_type1044(q, msg), q, sat, msg, EphOf(q, msg, sat, T, T, msg.code))
<1> DEFINE x == satno("QZS", msg.prn + 192)
           w == adjgpsweek(q, msg.week)
<1>1. Found(decode_type1044(q, msg), q, x, msg, EphOf(q, msg, x, gpst2time(w, msg.toes), gpst2time(w, msg.tocs), msg.code))
  BY ZenonT(60) DEF decode_type1044, SaveEph, Found, KeepEph
<1> HIDE DEF x, w
<1>2. x = sat /\ gpst2time(w, msg.toes) = T /\ gpst2time(w, msg.tocs) = T
  BY DEF x, w
<1> QED
  BY <1>1, <1>2

\* The same of Galileo, whose message has no issue of the clock.
LEMMA DecGal ==
  ASSUME NEW q, NEW msg, NEW sat, satno("GAL", msg.prn) = sat, NEW week, msg.week + 1024 = week,
         NEW T, gpst2time(week, msg.toes) = T, gpst2time(week, msg.tocs) = T, NEW bits, NEW code
  PROVE  Found(GalEph(q, msg, bits, code), q, sat, msg, EphOf(q, [msg EXCEPT !.iodc = 0], sat, T, T, code))
<1> DEFINE x == satno("GAL", msg.prn)
           w == msg.week + 1024
<1>1. Found(GalEph(q, msg, bits, code), q, x, msg,
            EphOf(q, [msg EXCEPT !.iodc = 0], x, gpst2time(w, msg.toes), gpst2time(w, msg.tocs), code))
  BY SMTT(60) DEF GalEph, SaveEph, Found, KeepEph
<1> HIDE DEF x, w
<1>2. x = sat /\ gpst2time(w, msg.toes) = T /\ gpst2time(w, msg.tocs) = T
  BY DEF x, w
<1> QED
  BY <1>1, <1>2

\* The same of BeiDou, in its own weeks and times.
LEMMA DecCmp ==
  ASSUME NEW q, NEW msg, NEW sat, satno("CMP", msg.prn) = sat, NEW week, adjbdtweek(q, msg.week) = week,
         NEW T, bdt2gpst(bdt2time(week, msg.toes)) = T, bdt2gpst(bdt2time(week, msg.tocs)) = T
  PROVE  Found(decode_type1042(q, msg), q, sat, msg, EphOf(q, msg, sat, T, T, 0))
<1> DEFINE x == satno("CMP", msg.prn)
           w == adjbdtweek(q, msg.week)
<1>1. Found(decode_type1042(q, msg), q, x, msg,
            EphOf(q, msg, x, bdt2gpst(bdt2time(w, msg.toes)), bdt2gpst(bdt2time(w, msg.tocs)), 0))
  BY ZenonT(60) DEF decode_type1042, SaveEph, Found, KeepEph
<1> HIDE DEF x, w
<1>2. x = sat /\ bdt2gpst(bdt2time(w, msg.toes)) = T /\ bdt2gpst(bdt2time(w, msg.tocs)) = T
  BY DEF x, w
<1> QED
  BY <1>1, <1>2

\* The fields of Galileo but one are those of the message.
LEMMA IodcOnly ==
  ASSUME NEW msg, IsRecord(msg), NavFields \subseteq DOMAIN msg, NEW m, m = [msg EXCEPT !.iodc = 0]
  PROVE  m.iode = msg.iode /\ m.svh = msg.svh /\ m.body = msg.body
<1>1. PICK D : D = DOMAIN msg
  OBVIOUS
<1>2. "iode" \in D /\ "svh" \in D /\ "body" \in D
  BY <1>1 DEF NavFields
<1>3. m = [f \in D |-> IF f = "iodc" THEN 0 ELSE msg[f]]
  BY <1>1 DEF IsRecord
<1> QED
  BY <1>2, <1>3
\* A message brings the ephemeris x of a satellite, or finds its issue there.
Brings(i, q, sat, x) ==
  \/ i = Error(q)
  \/ i = Nothing(q) /\ q.eph[sat].iode = x.iode
  \/ \E eph : SameEph(eph, x) /\ i = KeepEph(q, sat, eph)

\* The fields of what a message brings.
LEMMA BroughtFields ==
  ASSUME NEW q, NEW m, NEW sat, NEW toe, NEW toc, NEW code, NEW eph, eph = EphOf(q, m, sat, toe, toc, code)
  PROVE  /\ eph.iode = m.iode /\ eph.iodc = m.iodc /\ eph.toe = toe /\ eph.toc = toc
         /\ eph.svh = m.svh /\ eph.body = m.body
BY Zenon DEF EphOf

\* The decoder of each ephemeris.
NavDecoded(q, type, msg) ==
  CASE type = 1019         -> decode_type1019(q, msg)
    [] type = 1020         -> decode_type1020(q, msg)
    [] type = 1044         -> decode_type1044(q, msg)
    [] type = 1045         -> decode_type1045(q, msg)
    [] type = 1046         -> decode_type1046(q, msg)
    [] OTHER               -> decode_type1042(q, msg)

\* The receiver makes of a message the ephemeris that the station has.
LEMMA EphDecoded ==
  ASSUME NEW p, Timely(p), NEW n \in Nat, n < 255,
         NEW T, T = Toe(p, n), NEW q, q.clock \in Int, ClockNear(q, T),
         NEW type \in {1019, 1044, 1045, 1046, 1042, 63},
         NEW sat \in Sats, satsys(sat) = NavSystem(type), satsys(sat) = "GPS" => sat[2] < 40,
         NEW msg, EphTold(type, msg, sat, T, n),
         NEW i, i = NavDecoded(q, type, msg)
  PROVE  Brings(i, q, sat, EphOfIssue(p, sat, n))
<1>1. T \in Int /\ InWeeks(WeekOf(T)) /\ T = WeekOf(T) * Week + Tow(T)
  BY WeekOfToe
<1>2. /\ adjgpsweek(q, WeekOf(T) % 1024) = WeekOf(T)
      /\ adjbdtweek(q, (WeekOf(T) - Bdt0Week) % 8192) = WeekOf(T) - Bdt0Week
      /\ (WeekOf(T) - 1024) % 4096 = WeekOf(T) - 1024
  BY <1>1, WeeksFound
<1>3. PICK x : x = EphOfIssue(p, sat, n)
  OBVIOUS
<1>4. /\ x.sat = sat /\ x.iode = n + 1 /\ x.iodc = n + 1 /\ x.svh = 0 /\ x.body = n + 1
      /\ x.toe = x.toc
      /\ satsys(sat) # "CMP" => x.toe = T
      /\ satsys(sat) = "CMP" => x.toe = T + 14
  BY <1>1, <1>3, IssueOfEph
<1>5. sat[2] \in Nat /\ sat = <<satsys(sat), sat[2]>>
  <2>1. sat \in Systems \X Nat
    BY SizesAssumption
  <2> QED
    BY <2>1 DEF satsys
<1>6. sat # NoSat
  <2>1. sat[1] \in Systems
    BY SizesAssumption
  <2>2. NoSat[1] = "none" /\ "none" \notin Systems
    BY DEF NoSat, Systems
  <2> QED
    BY <2>1, <2>2
<1>a. msg.toes = Tow(T) /\ msg.tocs = Tow(T)
  BY SMTT(60) DEF EphTold, EphFields
<1>7. /\ msg.prn = IF type = 1044 THEN sat[2] - 192 ELSE sat[2]
      /\ msg.toes = Tow(T) /\ msg.tocs = Tow(T)
      /\ msg.iode = n + 1 /\ msg.svh = 0 /\ msg.body = n + 1
      /\ type \in {1019, 1044} => msg.week = WeekOf(T) % 1024
      /\ type \in {1045, 1046} => msg.week = (WeekOf(T) - 1024) % 4096
      /\ type \in {1042, 63} => msg.week = (WeekOf(T) - Bdt0Week) % 8192
      /\ type \notin {1045, 1046} => msg.iodc = n + 1
  BY DEF EphTold, EphFields
<1>8. gpst2time(WeekOf(T), Tow(T)) = T /\ bdt2gpst(bdt2time(WeekOf(T) - Bdt0Week, Tow(T))) = T + 14
  <2>1. PICK w \in Int, y \in Int : w = WeekOf(T) /\ y = Tow(T) /\ T = w * Week + y
    BY <1>1, WeekAndTow
  <2>2. Bdt0Week + (w - Bdt0Week) = w
    BY DEF Bdt0Week
  <2> QED
    BY <2>1, <2>2 DEF gpst2time, bdt2time, bdt2gpst
<1>9. ASSUME NEW m, m.iode = n + 1, m.svh = 0, m.body = n + 1,
             satsys(sat) # "GAL" => m.iodc = n + 1,
             NEW toe, toe = x.toe, NEW code
      PROVE  SameEph(EphOf(q, m, sat, toe, toe, code), x)
  <2>1. PICK eph : eph = EphOf(q, m, sat, toe, toe, code)
    OBVIOUS
  <2>2. /\ eph.iode = m.iode /\ eph.iodc = m.iodc /\ eph.toe = toe /\ eph.toc = toe
        /\ eph.svh = m.svh /\ eph.body = m.body
    BY <2>1, BroughtFields
  <2>3. SameEph(eph, x)
    BY <1>4, <1>9, <2>2 DEF SameEph
  <2> QED
    BY <2>1, <2>3
<1>10. ASSUME NEW eph, SameEph(eph, x), Found(i, q, sat, msg, eph)
       PROVE  Brings(i, q, sat, x)
  <2>1. msg.iode = x.iode
    BY <1>4, <1>7
  <2> QED
    BY <1>10, <2>1, SMT DEF Brings, Found
<1>11. CASE type = 1019
  <2>1. sat = <<"GPS", sat[2]>> /\ sat[2] < 40 /\ msg.prn = sat[2] /\ satsys(sat) = "GPS"
    BY <1>5, <1>7, <1>11 DEF NavSystem
  <2>2. GpsSat(msg.prn) = sat
    BY <2>1 DEF GpsSat, satno
  <2>3. adjgpsweek(q, msg.week) = WeekOf(T)
    BY <1>2, <1>7, <1>11
  <2>4. PICK eph : eph = EphOf(q, msg, sat, T, T, msg.code)
    OBVIOUS
  <2>5. SameEph(eph, x)
    BY <1>4, <1>7, <1>9, <1>11, <2>1, <2>4
  <2>6. Found(i, q, sat, msg, eph)
    <3>1. i = decode_type1019(q, msg)
      BY <1>11 DEF NavDecoded
    <3>2. gpst2time(adjgpsweek(q, msg.week), msg.toes) = T /\ gpst2time(adjgpsweek(q, msg.week), msg.tocs) = T
      BY <1>8, <1>a, <2>3
    <3> QED
      BY <2>2, <2>3, <2>4, <3>1, <3>2, Dec1019
  <2> QED
    BY <1>3, <1>10, <2>5, <2>6
<1>12. CASE type = 1044
  <2>1. sat = <<"QZS", sat[2]>> /\ msg.prn = sat[2] - 192 /\ satsys(sat) = "QZS"
    BY <1>5, <1>7, <1>12 DEF NavSystem
  <2>2. satno("QZS", msg.prn + 192) = sat
    <3>1. msg.prn + 192 = sat[2]
      BY <1>5, <2>1
    <3> QED
      BY <2>1, <3>1 DEF satno
  <2>3. adjgpsweek(q, msg.week) = WeekOf(T)
    BY <1>2, <1>7, <1>12
  <2>4. PICK eph : eph = EphOf(q, msg, sat, T, T, msg.code)
    OBVIOUS
  <2>5. SameEph(eph, x)
    BY <1>4, <1>7, <1>9, <1>12, <2>1, <2>4
  <2>6. Found(i, q, sat, msg, eph)
    <3>1. i = decode_type1044(q, msg)
      BY <1>12 DEF NavDecoded
    <3>2. gpst2time(adjgpsweek(q, msg.week), msg.toes) = T /\ gpst2time(adjgpsweek(q, msg.week), msg.tocs) = T
      BY <1>8, <1>a, <2>3
    <3> QED
      BY <2>2, <2>3, <2>4, <3>1, <3>2, Dec1044
  <2> QED
    BY <1>3, <1>10, <2>5, <2>6
<1>13. CASE type \in {1045, 1046}
  <2>1. sat = <<"GAL", sat[2]>> /\ msg.prn = sat[2] /\ satsys(sat) = "GAL"
    <3>1. msg.prn = sat[2]
      BY <1>7, <1>13
    <3>2. satsys(sat) = "GAL"
      BY <1>13 DEF NavSystem
    <3> QED
      BY <1>5, <3>1, <3>2
  <2>2. satno("GAL", msg.prn) = sat
    <3>1. <<"GAL", msg.prn>> = sat
      BY <2>1
    <3>2. <<"GAL", msg.prn>> \in Sats
      BY <3>1
    <3> QED
      BY <3>1, <3>2 DEF satno
  <2>3. msg.week + 1024 = WeekOf(T)
    <3>1. PICK w \in Int : w = WeekOf(T)
      BY <1>1 DEF InWeeks
    <3>2. msg.week = w - 1024
      BY <1>2, <1>7, <1>13, <3>1
    <3> QED
      BY <3>1, <3>2
  <2> DEFINE m == [msg EXCEPT !.iodc = 0]
  <2>4. m = [msg EXCEPT !.iodc = 0]
    OBVIOUS
  <2> HIDE DEF m
  <2>5. m.iode = n + 1 /\ m.svh = 0 /\ m.body = n + 1
    <3>1. NavFields \subseteq DOMAIN msg /\ IsRecord(msg)
      BY SMTT(60) DEF EphTold, EphFields
    <3>3. m.iode = msg.iode /\ m.svh = msg.svh /\ m.body = msg.body
      BY <2>4, <3>1, IodcOnly
    <3> QED
      BY <1>7, <3>3
  <2> DEFINE code == IF type = 1045 THEN 1 ELSE 0
             bits == IF type = 1045 THEN 496 ELSE 504
  <2>8. i = GalEph(q, msg, bits, code)
    BY <1>13 DEF NavDecoded, decode_type1045, decode_type1046
  <2> HIDE DEF code, bits
  <2>9. PICK eph : eph = EphOf(q, m, sat, T, T, code)
    OBVIOUS
  <2>10. SameEph(eph, x)
    BY <1>4, <1>9, <2>1, <2>5, <2>9
  <2>11. Found(i, q, sat, msg, eph)
    <3>2. gpst2time(msg.week + 1024, msg.toes) = T /\ gpst2time(msg.week + 1024, msg.tocs) = T
      BY <1>8, <1>a, <2>3
    <3> QED
      BY <2>2, <2>3, <2>4, <2>8, <2>9, <3>2, DecGal
  <2> QED
    BY <1>3, <1>10, <2>10, <2>11
<1>14. CASE type \in {1042, 63}
  <2>1. sat = <<"CMP", sat[2]>> /\ msg.prn = sat[2] /\ satsys(sat) = "CMP" /\ msg.iodc = n + 1
    <3>1. msg.prn = sat[2] /\ msg.iodc = n + 1
      BY <1>7, <1>14
    <3>2. satsys(sat) = "CMP"
      BY <1>14 DEF NavSystem
    <3> QED
      BY <1>5, <3>1, <3>2
  <2>2. satno("CMP", msg.prn) = sat
    BY <2>1 DEF satno
  <2>3. adjbdtweek(q, msg.week) = WeekOf(T) - Bdt0Week
    BY <1>2, <1>7, <1>14
  <2>4. PICK eph : eph = EphOf(q, msg, sat, T + 14, T + 14, 0)
    OBVIOUS
  <2>5. SameEph(eph, x)
    BY <1>4, <1>7, <1>9, <2>1, <2>4
  <2>6. Found(i, q, sat, msg, eph)
    <3>1. i = decode_type1042(q, msg)
      BY <1>14 DEF NavDecoded
    <3>2. /\ bdt2gpst(bdt2time(adjbdtweek(q, msg.week), msg.toes)) = T + 14
          /\ bdt2gpst(bdt2time(adjbdtweek(q, msg.week), msg.tocs)) = T + 14
      BY <1>8, <1>a, <2>3
    <3> QED
      BY <2>2, <2>3, <2>4, <3>1, <3>2, DecCmp
  <2> QED
    BY <1>3, <1>10, <2>5, <2>6
<1> QED
  BY <1>11, <1>12, <1>13, <1>14

\* The time of the GLONASS day, and that of the ephemeris of an issue.
DayTimeOf(t) == Tow(GlonassDay(t)) % Day
GlonassToe(a, n) == utc2gpst((a \div 1800 + 1 + n) * 1800)
OnHalfHour(t) == \E j \in 0 .. 47 : DayTimeOf(t) = 1800 * j

\* A time of whole half hours is one of a half hour of its day.
LEMMA HalfHours ==
  ASSUME NEW k \in Int, NEW t, t = utc2gpst(k * 1800)
  PROVE  \E j \in 0 .. 47 : DayTimeOf(t) = 1800 * j
<1>1. PICK m \in Int : m = k + 6
  OBVIOUS
<1>2. GlonassDay(t) = 1800 * m
  BY <1>1 DEF GlonassDay, gpst2utc, utc2gpst, Leaps, MoscowOffset
<1>3. PICK w \in Int, x \in 0 .. 335 : m = 336 * w + x
  <2>1. m \div 336 \in Int /\ 336 * (m \div 336) <= m /\ m < 336 * (m \div 336) + 336
    BY SMT
  <2>2. PICK w \in Int : 336 * w <= m /\ m < 336 * w + 336
    BY <2>1
  <2>3. m - 336 * w \in 0 .. 335 /\ m = 336 * w + (m - 336 * w)
    BY <2>2
  <2> QED
    BY ZenonT(60), <2>3
<1>4. Tow(1800 * m) = 1800 * x
  <2>1. 1800 * m = w * 604800 + 1800 * x /\ 0 <= 1800 * x /\ 1800 * x < 604800
    BY <1>3
  <2>2. (1800 * m) % 604800 = 1800 * x
    BY <2>1
  <2> QED
    BY <2>2 DEF Tow, Week
<1>5. PICK d \in Int, j \in 0 .. 47 : x = 48 * d + j
  <2>1. x \div 48 \in Int /\ 48 * (x \div 48) <= x /\ x < 48 * (x \div 48) + 48
    BY SMT
  <2>2. PICK d \in Int : 48 * d <= x /\ x < 48 * d + 48
    BY <2>1
  <2>3. x - 48 * d \in 0 .. 47 /\ x = 48 * d + (x - 48 * d)
    BY <2>2
  <2> QED
    BY <2>3
<1>6. (1800 * x) % 86400 = 1800 * j
  <2>1. 1800 * x = d * 86400 + 1800 * j /\ 0 <= 1800 * j /\ 1800 * j < 86400
    BY <1>5
  <2> QED
    BY <2>1
<1> QED
  BY <1>2, <1>4, <1>6 DEF DayTimeOf, Day

\* The times of a GLONASS ephemeris.
LEMMA GlonassTimes ==
  ASSUME NEW a \in Int, NEW n \in Nat, NEW toe, toe = GlonassToe(a, n),
         NEW tof, tof = toe - 1800
  PROVE  /\ toe \in Int /\ a < toe - 18 /\ toe - 18 <= a + 1800 * (n + 1)
         /\ OnHalfHour(toe) /\ OnHalfHour(tof)
<1>2. PICK q \in Int : q = a \div 1800 /\ 1800 * q <= a /\ a < 1800 * q + 1800
  <2>1. a \div 1800 \in Int /\ 1800 * (a \div 1800) <= a /\ a < 1800 * (a \div 1800) + 1800
    BY SMT
  <2> QED
    BY <2>1
<1>3. PICK j \in Int : j = q + 1 + n
  OBVIOUS
<1>4. toe = utc2gpst(j * 1800)
  BY <1>2, <1>3 DEF GlonassToe
<1>5. toe = j * 1800 + 18
  BY <1>4 DEF utc2gpst, Leaps
<1>6. a < toe - 18 /\ toe - 18 <= a + 1800 * (n + 1)
  BY <1>2, <1>3, <1>5
<1>10. PICK u \in Int : u = j - 1
  OBVIOUS
<1>7. tof = utc2gpst(u * 1800)
  BY <1>5, <1>10 DEF utc2gpst, Leaps
<1>8. OnHalfHour(toe)
  BY <1>4, HalfHours DEF OnHalfHour
<1>9. OnHalfHour(tof)
  BY <1>7, HalfHours DEF OnHalfHour
<1> QED
  BY <1>5, <1>6, <1>8, <1>9

\* Equal times are of equal issues.
LEMMA GlonassIssues ==
  ASSUME NEW a \in Int, NEW n \in Nat, NEW m \in Nat, NEW t, GlonassToe(a, n) = t, GlonassToe(a, m) = t
  PROVE  n = m
<1>1. PICK q \in Int : q = a \div 1800
  BY SMT
<1>2. t = (q + 1 + n) * 1800 + 18
  BY <1>1 DEF GlonassToe, utc2gpst, Leaps
<1>3. t = (q + 1 + m) * 1800 + 18
  BY <1>1 DEF GlonassToe, utc2gpst, Leaps
<1>4. (q + 1 + n) * 1800 + 18 = (q + 1 + m) * 1800 + 18
  BY <1>2, <1>3
<1> QED
  BY <1>4

GephFields == {"prn", "tk", "tb", "frq", "svh", "body"}

\* What a message says of a GLONASS ephemeris.
GephTold(msg, sat, toe, tof, n) ==
  /\ GephFields \subseteq DOMAIN msg
  /\ msg.prn = sat[2] /\ msg.tk = DayTimeOf(tof) /\ msg.tb * 900 = DayTimeOf(toe)
  /\ msg.tb = DayTimeOf(toe) \div 900 /\ msg.frq = 3 /\ msg.svh = 0 /\ msg.body = n + 1

\* The fields of the time of a frame and of an ephemeris hold half hours.
LEMMA GlonassUnits ==
  ASSUME NEW j \in 0 .. 47, NEW t, t = 1800 * j
  PROVE  /\ (t \div 60) * 60 + 30 * ((((t % 60) + 15) \div 30) % 2) = t
         /\ ((t + 450) \div 900) % 128 = t \div 900
         /\ (((t + 450) \div 900) % 128) * 900 = t
<1>1. t \div 60 = 30 * j /\ t % 60 = 0
  BY SMT
<1>2. (t + 450) \div 900 = 2 * j /\ t \div 900 = 2 * j
  BY SMT
<1>3. PICK v \in Nat : v = 2 * j /\ v < 128
  OBVIOUS
<1>4. v % 128 = v
  BY <1>3
<1>5. ((0 + 15) \div 30) % 2 = 0
  BY SMT
<1> QED
  BY <1>1, <1>2, <1>3, <1>4, <1>5

\* A station that has a GLONASS ephemeris of an issue sends it.
LEMMA GephEncoded ==
  ASSUME NEW p, NEW a \in Int, a = p.start, NEW n \in Nat, NEW r, NEW sat, sat = r.ephsat,
         r.geph[sat] = GephOfIssue(p, sat, n), NEW toe, toe = GlonassToe(a, n),
         NEW tof, tof = toe - 1800,
         NEW e, e = encode_type1020(r), e.ret # 0
  PROVE  GephTold(e.msg, sat, toe, tof, n) /\ sat \in Sats /\ satsys(sat) = "GLO"
<1>0. OnHalfHour(toe) /\ OnHalfHour(tof)
  BY GlonassTimes
<1>11. PICK j \in 0 .. 47 : DayTimeOf(toe) = 1800 * j
  BY <1>0 DEF OnHalfHour
<1>12. PICK i \in 0 .. 47 : DayTimeOf(tof) = 1800 * i
  BY <1>0 DEF OnHalfHour
<1>1. DayTimeOf(toe) = 1800 * j /\ DayTimeOf(tof) = 1800 * i
  BY <1>11, <1>12
<1>2. PICK geph : geph = r.geph[sat]
  OBVIOUS
<1>3. /\ geph.sat = sat /\ geph.frq = 3 /\ geph.svh = 0 /\ geph.body = n + 1
      /\ geph.toe = toe /\ geph.tof = tof
  BY <1>2 DEF GephOfIssue, GlonassToe
<1> DEFINE c == Tow(GlonassDay(geph.tof)) % Day
           b == Tow(GlonassDay(geph.toe)) % Day
           tk == (c \div 60) * 60 + 30 * ((((c % 60) + 15) \div 30) % 2)
           tb == ((b + 450) \div 900) % 128
           svh == geph.svh % 2
           m == [type |-> 1020, prn |-> sat[2], tk |-> tk, tb |-> tb, frq |-> geph.frq,
                 svh |-> svh, body |-> geph.body]
<1>4. e = IF sat \in Sats /\ satsys(sat) = "GLO" /\ geph.sat = sat THEN Accept(r, m, 360) ELSE Refuse(r)
  BY SMTT(60), <1>2 DEF encode_type1020
<1>5. c = 1800 * i /\ b = 1800 * j
  BY <1>1, <1>3 DEF DayTimeOf
<1> HIDE DEF c, b
<1>6. tk = c /\ tb = b \div 900 /\ tb * 900 = b /\ svh = 0
  BY <1>3, <1>5, GlonassUnits
<1> HIDE DEF tk, tb, svh
<1>7. /\ GephFields \subseteq DOMAIN m
      /\ m.prn = sat[2] /\ m.tk = tk /\ m.tb = tb /\ m.frq = geph.frq /\ m.svh = svh /\ m.body = geph.body
  BY DEF GephFields
<1> HIDE DEF m
<1>8. Refuse(r).ret = 0 /\ Accept(r, m, 360).msg = m
  BY DEF Refuse, Accept
<1>9. sat \in Sats /\ satsys(sat) = "GLO" /\ e = Accept(r, m, 360)
  BY <1>4, <1>8
<1>10. e.msg = m /\ c = DayTimeOf(tof) /\ b = DayTimeOf(toe)
  BY <1>1, <1>5, <1>8, <1>9
<1> QED
  BY <1>3, <1>6, <1>7, <1>9, <1>10 DEF GephTold

KeepGeph(q, sat, geph) == [ret |-> 2, rtcm |-> [q EXCEPT !.geph[sat] = geph, !.ephsat = sat]]

\* A message brings the GLONASS ephemeris x of a satellite, or finds its time there.
GephBrings(i, q, sat, x) ==
  \/ i = Error(q)
  \/ i = Nothing(StartClock(q)) /\ q.geph[sat].toe = x.toe
  \/ i = KeepGeph(StartClock(q), sat, x)

\* The receiver makes of a message the GLONASS ephemeris that the station has.
LEMMA GephDecoded ==
  ASSUME NEW p, NEW a \in Int, a = p.start, NEW n \in Nat, NEW toe \in Int, toe = GlonassToe(a, n),
         NEW tof \in Int, tof = toe - 1800, NEW q, Sound(q), NEW k \in Int, k = Known(q),
         Within(toe, k, Day), Within(tof, k, Day),
         NEW sat \in Sats, satsys(sat) = "GLO", NEW msg, GephTold(msg, sat, toe, tof, n),
         NEW i, i = decode_type1020(q, msg)
  PROVE  GephBrings(i, q, sat, GephOfIssue(p, sat, n))
<1> DEFINE Full(t, x) == utc2gpst(gpst2utc(t) - (Tow(gpst2utc(t)) % Day) + Near(x - MoscowOffset, Tow(gpst2utc(t)) % Day, Day))
           c == StartClock(q)
           s == satno("GLO", msg.prn)
           geph(t) == [sat |-> s, iode |-> msg.tb, frq |-> msg.frq, svh |-> msg.svh,
                    tof |-> Full(t, msg.tk), toe |-> Full(t, msg.tb * 900), body |-> msg.body]
<1>1. \/ i = Error(q)
      \/ i = Nothing(c) /\ geph(c.time).toe = q.geph[s].toe
      \/ i = KeepGeph(c, s, geph(c.time))
  BY SMTT(60) DEF decode_type1020, KeepGeph
<1>2. c.time = k
  BY ClockStarted
<1>4. s = sat
  <2>1. sat \in Systems \X Nat
    BY SizesAssumption
  <2>2. sat = <<"GLO", sat[2]>> /\ msg.prn = sat[2]
    BY <2>1 DEF satsys, GephTold
  <2>3. <<"GLO", msg.prn>> = sat
    BY <2>2
  <2> QED
    BY <2>3 DEF satno
<1>5. Full(k, msg.tk) = tof /\ Full(k, msg.tb * 900) = toe
  <2>1. FullTime(k, DayTimeOf(toe)) = toe
    BY TimeOfDayFound DEF DayTimeOf
  <2>2. FullTime(k, DayTimeOf(tof)) = tof
    BY TimeOfDayFound DEF DayTimeOf
  <2>3. msg.tk = DayTimeOf(tof) /\ msg.tb * 900 = DayTimeOf(toe)
    BY DEF GephTold
  <2> QED
    BY <2>1, <2>2, <2>3 DEF FullTime
<1> HIDE DEF c, s, Full
<1>6. geph(k) = GephOfIssue(p, sat, n)
  <2>1. geph(k) = [sat |-> sat, iode |-> DayTimeOf(toe) \div 900, frq |-> 3, svh |-> 0,
                   tof |-> tof, toe |-> toe, body |-> n + 1]
    BY <1>4, <1>5 DEF GephTold
  <2> QED
    BY <2>1 DEF GephOfIssue, GlonassToe, DayTimeOf
<1>7. PICK x : x = GephOfIssue(p, sat, n)
  OBVIOUS
<1> HIDE DEF geph
<1>8. geph(c.time) = x
  BY <1>2, <1>6, <1>7
<1>9. \/ i = Error(q)
      \/ i = Nothing(c) /\ q.geph[sat].toe = x.toe
      \/ i = KeepGeph(c, sat, x)
  BY <1>1, <1>4, <1>8
<1> QED
  BY <1>7, <1>9 DEF GephBrings, c

\* What the receiver has of a satellite: nothing, or what some issue of the plan told.
HeldEph(p, x, s) == x = NoEph \/ \E n \in Nat : SameEph(x, EphOfIssue(p, s, n))
HeldGeph(p, x, s) == x = NoGeph \/ \E n \in Nat : x = GephOfIssue(p, s, n)
Held(p, eph, geph) ==
  /\ DOMAIN eph = Sats /\ DOMAIN geph = Sats
  /\ \A s \in Sats : IF satsys(s) = "GLO" THEN HeldGeph(p, geph[s], s) ELSE HeldEph(p, eph[s], s)

\* One ephemeris more is held.
LEMMA HeldMore ==
  ASSUME NEW p, NEW eph, NEW geph, Held(p, eph, geph), NEW sat \in Sats, NEW x
  PROVE  /\ satsys(sat) # "GLO" /\ HeldEph(p, x, sat) => Held(p, [eph EXCEPT ![sat] = x], geph)
         /\ satsys(sat) = "GLO" /\ HeldGeph(p, x, sat) => Held(p, eph, [geph EXCEPT ![sat] = x])
<1>1. ASSUME satsys(sat) # "GLO", HeldEph(p, x, sat)
      PROVE  Held(p, [eph EXCEPT ![sat] = x], geph)
  <2>1. DOMAIN eph = Sats /\ DOMAIN geph = Sats
    BY DEF Held
  <2> DEFINE y == [eph EXCEPT ![sat] = x]
  <2>2. DOMAIN y = Sats /\ y[sat] = x /\ \A s \in Sats \ {sat} : y[s] = eph[s]
    BY <2>1
  <2> HIDE DEF y
  <2>3. Held(p, y, geph)
    BY <1>1, <2>1, <2>2 DEF Held
  <2> QED
    BY <2>3 DEF y
<1>2. ASSUME satsys(sat) = "GLO", HeldGeph(p, x, sat)
      PROVE  Held(p, eph, [geph EXCEPT ![sat] = x])
  <2>1. DOMAIN eph = Sats /\ DOMAIN geph = Sats
    BY DEF Held
  <2> DEFINE y == [geph EXCEPT ![sat] = x]
  <2>2. DOMAIN y = Sats /\ y[sat] = x /\ \A s \in Sats \ {sat} : y[s] = geph[s]
    BY <2>1
  <2> HIDE DEF y
  <2>3. Held(p, eph, y)
    BY <1>2, <2>1, <2>2 DEF Held
  <2> QED
    BY <2>3 DEF y
<1> QED
  BY <1>1, <1>2

\* What a message that keeps an ephemeris writes of the two tables.
LEMMA EphKept ==
  ASSUME NEW q, IsRtcm(q), NEW sat, NEW x, NEW i, i = KeepEph(q, sat, x)
  PROVE  i.ret = 2 /\ i.rtcm.eph = [q.eph EXCEPT ![sat] = x] /\ i.rtcm.geph = q.geph
<1> DEFINE r == [q EXCEPT !.eph[sat] = x, !.ephsat = sat]
<1>1. r.eph = [q.eph EXCEPT ![sat] = x] /\ r.geph = q.geph
  BY DEF IsRtcm, Fields
<1>2. i = [ret |-> 2, rtcm |-> r]
  BY DEF KeepEph
<1> HIDE DEF r
<1>3. i.ret = 2 /\ i.rtcm = r
  BY <1>2
<1> QED
  BY <1>1, <1>3

\* The same of a message that keeps a GLONASS ephemeris.
LEMMA GephKept ==
  ASSUME NEW q, IsRtcm(q), NEW sat, NEW x, NEW i, i = KeepGeph(q, sat, x)
  PROVE  i.ret = 2 /\ i.rtcm.geph = [q.geph EXCEPT ![sat] = x] /\ i.rtcm.eph = q.eph
<1> DEFINE r == [q EXCEPT !.geph[sat] = x, !.ephsat = sat]
<1>1. r.geph = [q.geph EXCEPT ![sat] = x] /\ r.eph = q.eph
  BY DEF IsRtcm, Fields
<1>2. i = [ret |-> 2, rtcm |-> r]
  BY DEF KeepGeph
<1> HIDE DEF r
<1>3. i.ret = 2 /\ i.rtcm = r
  BY <1>2
<1> QED
  BY <1>1, <1>3

\* The receiver has of a satellite what a station has.
Agree(eph, geph, e, sat) ==
  IF satsys(sat) = "GLO" THEN geph[sat] = e.geph[sat]
  ELSE /\ \A f \in {"iode", "toe", "toc", "svh", "body"} : eph[sat][f] = e.eph[sat][f]
       /\ satsys(sat) # "GAL" => eph[sat].iodc = e.eph[sat].iodc

\* A message that brings an ephemeris leaves it at the receiver, unless it is refused.
LEMMA EphArrives ==
  ASSUME NEW p, NEW q, IsRtcm(q), Held(p, q.eph, q.geph), NEW n \in Nat,
         NEW sat \in Sats, satsys(sat) # "GLO", NEW e, e.eph[sat] = EphOfIssue(p, sat, n),
         NEW i, Brings(i, q, sat, EphOfIssue(p, sat, n))
  PROVE  /\ Held(p, i.rtcm.eph, i.rtcm.geph)
         /\ i.ret >= 0 => Agree(i.rtcm.eph, i.rtcm.geph, e, sat)
<1>1. PICK x : x = EphOfIssue(p, sat, n)
  OBVIOUS
<1>2. \A m : EphOfIssue(p, sat, m).iode = m + 1 /\ EphOfIssue(p, sat, m).sat = sat
  BY DEF EphOfIssue
<1>3. ASSUME NEW eph, eph[sat] = eph[sat], SameEph(eph[sat], x), NEW geph
      PROVE  Agree(eph, geph, e, sat)
  BY <1>1, <1>2, <1>3 DEF SameEph, Agree
<1>4. CASE i = Error(q)
  <2>1. i.ret = -1 /\ i.rtcm = q
    BY <1>4 DEF Error
  <2> QED
    BY <2>1
<1>5. CASE i = Nothing(q) /\ q.eph[sat].iode = x.iode
  <2>1. i.rtcm = q
    BY <1>5 DEF Nothing
  <2>2. HeldEph(p, q.eph[sat], sat)
    BY DEF Held
  <2>3. q.eph[sat].iode = n + 1
    BY <1>1, <1>2, <1>5
  <2>4. q.eph[sat] # NoEph
    <3>1. NoEph.iode = -1
      BY DEF NoEph
    <3>2. n + 1 # -1
      OBVIOUS
    <3> QED
      BY Zenon, <2>3, <3>1, <3>2
  <2>5. PICK m \in Nat : SameEph(q.eph[sat], EphOfIssue(p, sat, m))
    BY <2>2, <2>4 DEF HeldEph
  <2>6. m = n
    <3>1. q.eph[sat].iode = EphOfIssue(p, sat, m).iode
      BY <2>5 DEF SameEph
    <3>2. m + 1 = n + 1
      BY <1>2, <2>3, <3>1
    <3> QED
      BY <3>2
  <2>7. SameEph(q.eph[sat], x)
    BY <1>1, <2>5, <2>6
  <2> QED
    BY <1>3, <2>1, <2>7
<1>6. CASE \E y : SameEph(y, x) /\ i = KeepEph(q, sat, y)
  <2>1. PICK y : SameEph(y, x) /\ i = KeepEph(q, sat, y)
    BY <1>6
  <2>2. i.rtcm.eph = [q.eph EXCEPT ![sat] = y] /\ i.rtcm.geph = q.geph
    BY <2>1, EphKept
  <2>3. HeldEph(p, y, sat)
    BY <1>1, <2>1 DEF HeldEph
  <2>4. Held(p, [q.eph EXCEPT ![sat] = y], q.geph)
    BY <2>3, HeldMore
  <2>5. [q.eph EXCEPT ![sat] = y][sat] = y
    BY DEF Held
  <2>6. i.rtcm.eph[sat] = y
    BY <2>2, <2>5
  <2> QED
    BY <1>3, <2>1, <2>2, <2>4, <2>6
<1> QED
  BY <1>1, <1>4, <1>5, <1>6 DEF Brings

\* A GLONASS ephemeris is of a time after the start.
LEMMA GlonassLater ==
  ASSUME NEW a \in Int, NEW n \in Nat, NEW toe, toe = GlonassToe(a, n)
  PROVE  toe \in Int /\ a < toe - 18 /\ toe - 18 <= a + 1800 * (n + 1)
<1>2. PICK tof : tof = toe - 1800
  OBVIOUS
<1> QED
  BY <1>2, GlonassTimes

\* The ephemeris of an issue is not taken for none.
LEMMA IssueIsSome ==
  ASSUME NEW a \in Int, a > 0, NEW n \in Nat
  PROVE  GlonassToe(a, n) # NoGeph.toe
<1>1. PICK toe : toe = GlonassToe(a, n)
  OBVIOUS
<1>2. toe \in Int /\ a < toe - 18
  BY <1>1, GlonassLater
<1>3. NoGeph.toe = 0
  BY DEF NoGeph
<1> QED
  BY <1>1, <1>2, <1>3

\* The same of a GLONASS ephemeris.
LEMMA GephArrives ==
  ASSUME NEW p, NEW a \in Int, a = p.start, a > 0, NEW q, Sound(q), Held(p, q.eph, q.geph),
         NEW n \in Nat, NEW sat \in Sats, satsys(sat) = "GLO",
         NEW e, e.geph[sat] = GephOfIssue(p, sat, n),
         NEW i, GephBrings(i, q, sat, GephOfIssue(p, sat, n))
  PROVE  /\ Held(p, i.rtcm.eph, i.rtcm.geph)
         /\ i.ret >= 0 => Agree(i.rtcm.eph, i.rtcm.geph, e, sat)
<1>1. PICK x : x = GephOfIssue(p, sat, n)
  OBVIOUS
<1>2. \A m : GephOfIssue(p, sat, m).toe = GlonassToe(a, m)
  BY DEF GephOfIssue, GlonassToe
<1>3. PICK c : c = StartClock(q) /\ IsRtcm(c) /\ c.eph = q.eph /\ c.geph = q.geph
  BY ClockStarted DEF Fields
<1>4. CASE i = Error(q)
  <2>1. i.ret = -1 /\ i.rtcm = q
    BY <1>4 DEF Error
  <2> QED
    BY <2>1
<1>5. CASE i = Nothing(c) /\ q.geph[sat].toe = x.toe
  <2>1. i.rtcm = c
    BY <1>5 DEF Nothing
  <2>2. HeldGeph(p, q.geph[sat], sat)
    BY DEF Held
  <2>3. q.geph[sat].toe = GlonassToe(a, n)
    BY <1>1, <1>2, <1>5
  <2>4. q.geph[sat] # NoGeph
    <3>1. GlonassToe(a, n) # NoGeph.toe
      BY IssueIsSome
    <3> QED
      BY Zenon, <2>3, <3>1
  <2>5. PICK m \in Nat : q.geph[sat] = GephOfIssue(p, sat, m)
    BY <2>2, <2>4 DEF HeldGeph
  <2>6. m = n
    <3>1. PICK t : t = GlonassToe(a, m) /\ t = GlonassToe(a, n)
      BY <1>2, <2>3, <2>5
    <3> QED
      BY <3>1, GlonassIssues
  <2> QED
    BY <1>3, <2>1, <2>5, <2>6 DEF Agree
<1>6. CASE i = KeepGeph(c, sat, x)
  <2>2. i.rtcm.geph = [q.geph EXCEPT ![sat] = x] /\ i.rtcm.eph = q.eph
    BY <1>3, <1>6, GephKept
  <2>3. HeldGeph(p, x, sat)
    BY <1>1 DEF HeldGeph
  <2>4. Held(p, q.eph, [q.geph EXCEPT ![sat] = x])
    BY <2>3, HeldMore
  <2>1. DOMAIN q.geph = Sats
    BY DEF Held
  <2>5. [q.geph EXCEPT ![sat] = x][sat] = x
    BY <2>1
  <2>6. i.rtcm.geph[sat] = x
    BY <2>2, <2>5
  <2> QED
    BY <1>1, <2>2, <2>4, <2>6 DEF Agree
<1> QED
  BY <1>1, <1>3, <1>4, <1>5, <1>6 DEF GephBrings

\* A message on the line has its length.
WithLength(msg, len) == Joined(msg, [len |-> len])

\* A frame with an ephemeris has what its encoder made, and the length.
LEMMA NavFrame ==
  ASSUME NEW r, NEW type \in NavTypes, NEW sync, NEW g, g = gen_rtcm3(r, type, sync), g.ret = 1
  PROVE  \E e, len : /\ e = NavEncoded(r, type) /\ e.ret # 0
                     /\ g.frame.msg = WithLength(e.msg, len)
<1> DEFINE M == CHOOSE s \in MsmOf(type) : TRUE
           S == CHOOSE s \in SsrOf(type) : TRUE
           e == encode_rtcm3(r, type, sync)
           len == 3 + (e.bits + 7) \div 8
           m == Joined(e.msg, [len |-> len])
<1>1. e = CASE type = 1001 -> encode_type1001(r, sync)
        [] type = 1002 -> encode_type1002(r, sync)
        [] type = 1003 -> encode_type1003(r, sync)
        [] type = 1004 -> encode_type1004(r, sync)
        [] type = 1005 -> encode_type1005(r)
        [] type = 1006 -> encode_type1006(r)
        [] type = 1007 -> encode_type1007(r)
        [] type = 1008 -> encode_type1008(r)
        [] type = 1009 -> encode_type1009(r, sync)
        [] type = 1010 -> encode_type1010(r, sync)
        [] type = 1011 -> encode_type1011(r, sync)
        [] type = 1012 -> encode_type1012(r, sync)
        [] type = 1019 -> encode_type1019(r)
        [] type = 1020 -> encode_type1020(r)
        [] type = 1033 -> encode_type1033(r)
        [] type = 1042 -> encode_type1042(r)
        [] type = 63   -> encode_type63(r)
        [] type = 1044 -> encode_type1044(r)
        [] type = 1045 -> encode_type1045(r)
        [] type = 1046 -> encode_type1046(r)
        [] MsmOf(type) # {} -> EncodeMsmKind(r, M, type - MsmTypes[M], sync)
        [] SsrOf(type) # {} -> EncodeSsrKind(r, S, type - SsrTypes[S], sync)
        [] OTHER -> Refuse(r)
  BY Zenon DEF encode_rtcm3, MsmOf, SsrOf
<1>2. MsmOf(type) = {} /\ SsrOf(type) = {}
  <2>1. type \in Int /\ type \notin 1071 .. 1127 /\ type \notin 1057 .. 1068 /\ type \notin 1240 .. 1263
    BY DEF NavTypes
  <2> QED
    BY <2>1, KindsApart
<1> HIDE DEF M, S, e
<1>3. e = NavEncoded(r, type)
  <2>1. type = 1019 \/ type = 1020 \/ type = 1042 \/ type = 63 \/ type = 1044 \/ type = 1045 \/ type = 1046
    BY DEF NavTypes
  <2>2. CASE type = 1019
    BY <1>1, <1>2, <2>2 DEF NavEncoded
  <2>3. CASE type = 1020
    BY <1>1, <1>2, <2>3 DEF NavEncoded
  <2>4. CASE type = 1042
    BY <1>1, <1>2, <2>4 DEF NavEncoded
  <2>5. CASE type = 63
    BY <1>1, <1>2, <2>5 DEF NavEncoded
  <2>6. CASE type = 1044
    BY <1>1, <1>2, <2>6 DEF NavEncoded
  <2>7. CASE type = 1045
    BY <1>1, <1>2, <2>7 DEF NavEncoded
  <2>8. CASE type = 1046
    BY <1>1, <1>2, <2>8 DEF NavEncoded
  <2> QED
    BY <2>1, <2>2, <2>3, <2>4, <2>5, <2>6, <2>7, <2>8
<1>4. g = IF e.ret = 0 \/ len >= 3 + 1024
          THEN [ret |-> 0, frame |-> [parity |-> FALSE], rtcm |-> e.rtcm]
          ELSE [ret |-> 1, frame |-> [parity |-> TRUE, msg |-> m], rtcm |-> e.rtcm]
  BY DEF gen_rtcm3, Frame, e
<1>5. e.ret # 0 /\ g.frame.msg = WithLength(e.msg, len)
  <2> HIDE DEF len, m
  <2>1. e.ret # 0 /\ g.frame.msg = m
    BY <1>4
  <2> QED
    BY <2>1 DEF m, WithLength
<1> QED
  BY <1>3, <1>5

\* An ephemeris is sent of a satellite of the system of the message only.
LEMMA NavOfSystem ==
  ASSUME NEW r, NEW type \in NavTypes, NavEncoded(r, type).ret # 0
  PROVE  r.ephsat \in Sats /\ satsys(r.ephsat) = NavSystem(type)
<1>1. Refuse(r).ret = 0
  BY DEF Refuse
<1>2. type = 1019 \/ type = 1020 \/ type = 1042 \/ type = 63 \/ type = 1044 \/ type = 1045 \/ type = 1046
  BY DEF NavTypes
<1>3. CASE type = 1019 \/ type = 1044
  <2>1. PICK sys, first, bits : /\ sys = NavSystem(type)
                                /\ NavEncoded(r, type) = EncodeGpsEph(r, type, sys, first, bits)
    BY <1>3 DEF NavEncoded, NavSystem, encode_type1019, encode_type1044
  <2>2. HasEph(r, sys)
    BY <1>1, <2>1 DEF EncodeGpsEph
  <2> QED
    BY <2>1, <2>2 DEF HasEph
<1>4. CASE type = 1045 \/ type = 1046
  <2>1. NavSystem(type) = "GAL" /\ \E svh, bits : NavEncoded(r, type) = EncodeGalEph(r, type, svh, bits)
    BY <1>4, GalHealth DEF NavSystem
  <2>2. HasEph(r, "GAL")
    BY <1>1, <2>1 DEF EncodeGalEph
  <2> QED
    BY <2>1, <2>2 DEF HasEph
<1>5. CASE type = 1042 \/ type = 63
  <2>1. NavSystem(type) = "CMP" /\ NavEncoded(r, type) = EncodeCmpEph(r, type)
    BY <1>5 DEF NavEncoded, NavSystem, encode_type1042, encode_type63
  <2>2. HasEph(r, "CMP")
    BY <1>1, <2>1 DEF EncodeCmpEph
  <2> QED
    BY <2>1, <2>2 DEF HasEph
<1>6. CASE type = 1020
  <2>1. NavSystem(type) = "GLO" /\ NavEncoded(r, type) = encode_type1020(r)
    BY <1>6 DEF NavEncoded, NavSystem
  <2>2. r.ephsat \in Sats /\ satsys(r.ephsat) = "GLO"
    BY <1>1, <2>1 DEF encode_type1020
  <2> QED
    BY <2>1, <2>2
<1> QED
  BY <1>2, <1>3, <1>4, <1>5, <1>6

\* An ephemeris is decoded by the decoder of its type.
LEMMA NavDispatched ==
  ASSUME NEW r, NEW msg, msg.type \in NavTypes, NEW q,
         q = IF r.opt.rtinp THEN [r EXCEPT !.time = utc2gpst(r.clock)] ELSE r
  PROVE  decode_rtcm3(r, msg) = NavDecoded(q, msg.type, msg)
<1> DEFINE d == decode_rtcm3(r, msg)
<1>1. d = CASE msg.type = 1001 -> decode_type1001(q, msg)
        [] msg.type = 1002 -> decode_type1002(q, msg)
        [] msg.type = 1003 -> decode_type1003(q, msg)
        [] msg.type = 1004 -> decode_type1004(q, msg)
        [] msg.type = 1005 -> decode_type1005(q, msg)
        [] msg.type = 1006 -> decode_type1006(q, msg)
        [] msg.type = 1007 -> decode_type1007(q, msg)
        [] msg.type = 1008 -> decode_type1008(q, msg)
        [] msg.type = 1009 -> decode_type1009(q, msg)
        [] msg.type = 1010 -> decode_type1010(q, msg)
        [] msg.type = 1011 -> decode_type1011(q, msg)
        [] msg.type = 1012 -> decode_type1012(q, msg)
        [] msg.type = 1019 -> decode_type1019(q, msg)
        [] msg.type = 1020 -> decode_type1020(q, msg)
        [] msg.type = 1033 -> decode_type1033(q, msg)
        [] msg.type \in {1042, 63} -> decode_type1042(q, msg)
        [] msg.type = 1044 -> decode_type1044(q, msg)
        [] msg.type = 1045 -> decode_type1045(q, msg)
        [] msg.type = 1046 -> decode_type1046(q, msg)
        [] MsmOf(msg.type) # {} -> decode_msm(q, msg, msg.sys, msg.kind)
        [] SsrOf(msg.type) # {} -> decode_ssr(q, msg, msg.sys, msg.kind)
        [] OTHER -> Nothing(q)
  BY Zenon DEF decode_rtcm3, MsmOf, SsrOf
<1> HIDE DEF d
<1> DEFINE type == msg.type
<1>2. MsmOf(type) = {} /\ SsrOf(type) = {}
  <2>1. type \in Int /\ type \notin 1071 .. 1127 /\ type \notin 1057 .. 1068 /\ type \notin 1240 .. 1263
    BY DEF NavTypes
  <2> HIDE DEF type
  <2> QED
    BY <2>1, KindsApart
<1>3. d = NavDecoded(q, type, msg)
  <2>1. type = 1019 \/ type = 1020 \/ type \in {1042, 63} \/ type = 1044 \/ type = 1045 \/ type = 1046
    BY DEF NavTypes
  <2>2. CASE type = 1019
    BY <1>1, <1>2, <2>2 DEF NavDecoded
  <2>3. CASE type = 1020
    BY <1>1, <1>2, <2>3 DEF NavDecoded
  <2>4. CASE type \in {1042, 63}
    BY <1>1, <1>2, <2>4 DEF NavDecoded
  <2>6. CASE type = 1044
    BY <1>1, <1>2, <2>6 DEF NavDecoded
  <2>7. CASE type = 1045
    BY <1>1, <1>2, <2>7 DEF NavDecoded
  <2>8. CASE type = 1046
    BY <1>1, <1>2, <2>8 DEF NavDecoded
  <2> QED
    BY <2>1, <2>2, <2>3, <2>4, <2>6, <2>7, <2>8
<1> QED
  BY <1>3 DEF d

\* What a station knows of the satellites is of one issue.
StockedEph(p, e, n) ==
  \A s \in Sats : IF satsys(s) = "GLO" THEN e.geph[s] = GephOfIssue(p, s, n)
                  ELSE e.eph[s] = EphOfIssue(p, s, n)

\* A field more in the message says no less.
LEMMA ToldOnTheLine ==
  ASSUME NEW msg, NEW len, NEW type, NEW sat, NEW T, NEW toe, NEW tof, NEW n
  PROVE  /\ EphTold(type, msg, sat, T, n) => EphTold(type, WithLength(msg, len), sat, T, n)
         /\ GephTold(msg, sat, toe, tof, n) => GephTold(WithLength(msg, len), sat, toe, tof, n)
<1>h. PICK h : h = [len |-> len]
  OBVIOUS
<1> DEFINE m == Joined(msg, h)
<1>0. m = WithLength(msg, len)
  BY <1>h DEF WithLength
<1>1. IsRecord(m)
  BY DEF Joined, IsRecord
<1>2. DOMAIN msg \subseteq DOMAIN m /\ \A x \in DOMAIN msg : m[x] = msg[x]
  BY FieldsJoined
<1> HIDE DEF m
<1>3. EphTold(type, msg, sat, T, n) => EphTold(type, m, sat, T, n)
  <2> SUFFICES ASSUME EphTold(type, msg, sat, T, n)
               PROVE  EphTold(type, m, sat, T, n)
    OBVIOUS
  <2>1. NavFields \subseteq DOMAIN msg
    BY DEF EphTold, EphFields
  <2>2. /\ NavFields \subseteq DOMAIN m /\ m.prn = msg.prn /\ m.week = msg.week /\ m.toes = msg.toes
        /\ m.tocs = msg.tocs /\ m.iode = msg.iode /\ m.svh = msg.svh /\ m.body = msg.body
        /\ m.iodc = msg.iodc
    BY <1>2, <2>1 DEF NavFields
  <2> QED
    BY <1>1, <2>2 DEF EphTold, EphFields
<1>4. GephTold(msg, sat, toe, tof, n) => GephTold(m, sat, toe, tof, n)
  <2> SUFFICES ASSUME GephTold(msg, sat, toe, tof, n)
               PROVE  GephTold(m, sat, toe, tof, n)
    OBVIOUS
  <2>1. GephFields \subseteq DOMAIN msg
    BY DEF GephTold
  <2>2. /\ GephFields \subseteq DOMAIN m /\ m.prn = msg.prn /\ m.tk = msg.tk /\ m.tb = msg.tb
        /\ m.frq = msg.frq /\ m.svh = msg.svh /\ m.body = msg.body
    BY <1>2, <2>1 DEF GephFields
  <2> QED
    BY <2>2 DEF GephTold
<1> QED
  BY <1>0, <1>3, <1>4

\* A frame with an ephemeris tells the one that the station has.
LEMMA EphSent ==
  ASSUME NEW p, NEW a \in Int, a = p.start, NEW n \in Nat, n < 255, NEW r, StockedEph(p, r, n),
         NEW T, T = Toe(p, n), NEW toe, toe = GlonassToe(a, n), NEW tof, tof = toe - 1800,
         NEW type \in NavTypes, type \in {1042, 63} => n < 31,
         NEW sync, NEW g, g = gen_rtcm3(r, type, sync), g.ret = 1, NEW msg, msg = g.frame.msg
  PROVE  /\ r.ephsat \in Sats /\ satsys(r.ephsat) = NavSystem(type)
         /\ type # 1020 => EphTold(type, msg, r.ephsat, T, n)
         /\ type = 1020 => GephTold(msg, r.ephsat, toe, tof, n)
<1>1. PICK e, len : /\ e = NavEncoded(r, type) /\ e.ret # 0
                    /\ msg = WithLength(e.msg, len)
  BY NavFrame
<1>2. r.ephsat \in Sats /\ satsys(r.ephsat) = NavSystem(type)
  BY <1>1, NavOfSystem
<1>3. PICK sat \in Sats : sat = r.ephsat
  BY <1>2
<1>4. CASE type # 1020
  <2>1. type \in {1019, 1044, 1045, 1046, 1042, 63}
    BY <1>4 DEF NavTypes
  <2>2. satsys(sat) # "GLO"
    BY <1>2, <1>3, <2>1 DEF NavSystem
  <2>3. r.eph[sat] = EphOfIssue(p, sat, n)
    BY <2>2 DEF StockedEph
  <2>5. p.start \in Int
    OBVIOUS
  <2>6. EphTold(type, e.msg, sat, T, n)
    BY <1>1, <1>3, <2>1, <2>3, <2>5, EphEncoded
  <2> QED
    BY <1>1, <1>2, <1>3, <1>4, <2>6, ToldOnTheLine
<1>5. CASE type = 1020
  <2>2. satsys(sat) = "GLO"
    BY <1>2, <1>3, <1>5 DEF NavSystem
  <2>3. r.geph[sat] = GephOfIssue(p, sat, n)
    BY <2>2 DEF StockedEph
  <2>4. e = encode_type1020(r)
    BY <1>1, <1>5 DEF NavEncoded
  <2>5. n \in Nat
    OBVIOUS
  <2>6. GephTold(e.msg, sat, toe, tof, n)
    BY <1>1, <1>3, <2>3, <2>4, <2>5, GephEncoded
  <2> QED
    BY <1>1, <1>2, <1>3, <1>5, <2>6, ToldOnTheLine
<1> QED
  BY <1>4, <1>5

\* What must be so of the receiver's clock and time for an ephemeris to be found:
\* the clock decides for the week, the last time for the day of GLONASS.
InReach(p, n, r, type) ==
  /\ type # 1020 => ClockNear(r, Toe(p, n))
  /\ type = 1020 => /\ Within(GlonassToe(p.start, n), KnownTime(r), Day)
                    /\ Within(GlonassToe(p.start, n) - 1800, KnownTime(r), Day)

\* A plan starts after the first week of GPS time.
LEMMA StartsLater ==
  ASSUME NEW p, Timely(p)
  PROVE  p.start \in Int /\ p.start > 0
<1>1. PICK a \in Int : a = p.start /\ WeekOf(a) >= 1560
  BY DEF Timely
<1>2. a > 0
  BY <1>1 DEF WeekOf, Week
<1> QED
  BY <1>1, <1>2

\* A message that a station sends leaves at the receiver ephemerides of issues of the
\* plan, and the one it tells is there, be it new or dropped as unchanged.
LEMMA EphemerisKept ==
  ASSUME GpsIsNotSbs,
         NEW p, Timely(p), NEW n \in Nat, n < 255, NEW e, StockedEph(p, e, n),
         NEW type \in NavTypes, type \in {1042, 63} => n < 31,
         NEW r, Sound(r), Held(p, r.eph, r.geph), InReach(p, n, r, type),
         NEW sync, NEW g, g = gen_rtcm3(e, type, sync), g.ret = 1,
         NEW msg, msg = g.frame.msg, msg.type = type,
         NEW i, i = decode_rtcm3(r, msg)
  PROVE  /\ Held(p, i.rtcm.eph, i.rtcm.geph)
         /\ i.ret >= 0 => Agree(i.rtcm.eph, i.rtcm.geph, e, e.ephsat)
<1>1. PICK a \in Int : a = p.start
  BY DEF Timely
<1>2. PICK T, toe : T = Toe(p, n) /\ toe = GlonassToe(a, n)
  OBVIOUS
<1>3. PICK tof : tof = toe - 1800
  OBVIOUS
<1>4. /\ e.ephsat \in Sats /\ satsys(e.ephsat) = NavSystem(type)
      /\ type # 1020 => EphTold(type, msg, e.ephsat, T, n)
      /\ type = 1020 => GephTold(msg, e.ephsat, toe, tof, n)
  BY <1>1, <1>2, <1>3, EphSent
<1>5. PICK sat \in Sats : sat = e.ephsat
  BY <1>4
<1>6. PICK q : q = IF r.opt.rtinp THEN [r EXCEPT !.time = utc2gpst(r.clock)] ELSE r
  OBVIOUS
<1>7. i = NavDecoded(q, type, msg)
  BY <1>6, NavDispatched
<1>8. /\ Sound(q) /\ q.eph = r.eph /\ q.geph = r.geph /\ q.clock = r.clock /\ q.clock \in Int
      /\ IsRtcm(q) /\ Known(q) = KnownTime(r) /\ Known(q) \in Int
  <2>1. utc2gpst(r.clock) \in Int
    BY TimesAreIntegers DEF Sound
  <2>2. CASE r.opt.rtinp
    <3> DEFINE s == [r EXCEPT !.time = utc2gpst(r.clock)]
    <3>1. Follows(r, s) /\ s.time = utc2gpst(r.clock)
      BY <2>1, FieldsWritten, TimeSetKeeps DEF Sound
    <3> HIDE DEF s
    <3>2. q = s
      BY <1>6, <2>2 DEF s
    <3> QED
      BY <2>1, <2>2, <3>1, <3>2 DEF Known, KnownTime, Follows, Sound
  <2>3. CASE ~r.opt.rtinp
    BY <1>6, <2>1, <2>3 DEF Known, KnownTime, Sound
  <2> QED
    BY <2>2, <2>3
<1>9. Held(p, q.eph, q.geph) /\ n \in Nat
  BY <1>8
<1>10. CASE type # 1020
  <2>1. type \in {1019, 1044, 1045, 1046, 1042, 63}
    BY <1>10 DEF NavTypes
  <2>2. satsys(sat) = NavSystem(type) /\ satsys(sat) # "GLO"
    BY <1>4, <1>5, <2>1 DEF NavSystem
  <2>3. e.eph[sat] = EphOfIssue(p, sat, n)
    BY <2>2 DEF StockedEph
  <2>a. satsys(sat) = "GPS" => sat[2] < 40
    BY DEF GpsIsNotSbs
  <2>4. ClockNear(q, T)
    BY <1>2, <1>8, <1>10 DEF InReach, ClockNear
  <2>6. EphTold(type, msg, sat, T, n)
    BY <1>4, <1>5, <1>10
  <2>7. Brings(i, q, sat, EphOfIssue(p, sat, n))
    BY <1>2, <1>7, <1>8, <2>1, <2>2, <2>4, <2>6, <2>a, EphDecoded
  <2> QED
    BY <1>5, <1>8, <1>9, <2>2, <2>3, <2>7, EphArrives
<1>11. CASE type = 1020
  <2>1. satsys(sat) = "GLO"
    BY <1>4, <1>5, <1>11 DEF NavSystem
  <2>2. e.geph[sat] = GephOfIssue(p, sat, n)
    BY <2>1 DEF StockedEph
  <2>3. a > 0
    BY <1>1, StartsLater
  <2>b. toe \in Int
    BY <1>2, <1>9, GlonassLater
  <2>4. toe \in Int /\ tof \in Int
    BY <1>3, <2>b
  <2>5. PICK k \in Int : k = Known(q)
    BY <1>8
  <2>6. Within(toe, k, Day) /\ Within(tof, k, Day)
    BY <1>1, <1>2, <1>3, <1>8, <1>11, <2>5 DEF InReach
  <2>7. i = decode_type1020(q, msg)
    BY <1>7, <1>11 DEF NavDecoded
  <2>8. GephTold(msg, sat, toe, tof, n)
    BY <1>4, <1>5, <1>11
  <2>9. GephBrings(i, q, sat, GephOfIssue(p, sat, n))
    BY <1>1, <1>2, <1>3, <1>8, <1>9, <2>1, <2>4, <2>5, <2>6, <2>7, <2>8, GephDecoded
  <2> QED
    BY <1>1, <1>5, <1>8, <1>9, <2>1, <2>2, <2>3, <2>9, GephArrives
<1> QED
  BY <1>10, <1>11

\* A frame that comes leaves at the receiver ephemerides of issues of the plan, and
\* with an ephemeris the one that the station has, unless it is damaged or refused.
LEMMA EphHeard ==
  ASSUME GpsIsNotSbs,
         NEW p, Timely(p), NEW n \in Nat, n < 255, NEW e, Sender(e), StockedEph(p, e, n),
         NEW type \in Int, type \in {1042, 63} => n < 31,
         NEW r, Sound(r), Held(p, r.eph, r.geph), type \in NavTypes => InReach(p, n, r, type),
         NEW sync \in BOOLEAN, NEW damaged \in BOOLEAN, NEW g, g = gen_rtcm3(e, type, sync),
         NEW i, i = input_rtcm3(r, Arrived(g.frame, damaged))
  PROVE  /\ Moved(e, g.rtcm) /\ g.ret \in {0, 1} /\ Held(p, i.rtcm.eph, i.rtcm.geph)
         /\ g.ret = 1 /\ ~damaged /\ type \in NavTypes /\ i.ret >= 0 =>
              Agree(i.rtcm.eph, i.rtcm.geph, e, e.ephsat)
<1> DEFINE f == [g.frame EXCEPT !.parity = @ /\ ~damaged]
           G == gen_rtcm3(e, type, sync)
<1>1. /\ G.ret \in {0, 1} /\ Moved(e, G.rtcm)
      /\ HasParity(G.frame)
      /\ G.frame.parity = IF G.ret = 1 THEN TRUE ELSE FALSE
      /\ G.ret = 1 => WellFormed(G.frame.msg) /\ G.frame.msg.type = type
  BY ZenonT(60), FrameIsSound
<1>2. g = G
  OBVIOUS
<1> HIDE DEF G
<1>3. f.msg = g.frame.msg
  BY <1>1, <1>2 DEF HasParity
<1>4. i = input_rtcm3(r, f)
  BY DEF Arrived
<1>5. CASE g.ret = 1 /\ ~damaged
  <2>1. f.parity
    BY <1>1, <1>2, <1>5 DEF HasParity
  <2>2. PICK msg : msg = g.frame.msg
    OBVIOUS
  <2>3. i = decode_rtcm3(r, msg)
    BY <1>3, <1>4, <2>1, <2>2 DEF input_rtcm3
  <2>4. WellFormed(msg) /\ msg.type = type
    BY <1>1, <1>2, <1>5, <2>2
  <2> HIDE DEF f
  <2>5. CASE type \notin NavTypes
    <3> DEFINE d == decode_rtcm3(r, msg)
    <3>1. msg.type \notin NavTypes => d.rtcm.eph = r.eph /\ d.rtcm.geph = r.geph
      BY <2>4, MessageDecoded
    <3> HIDE DEF d
    <3>2. i = d
      BY <2>3 DEF d
    <3> QED
      BY <1>1, <1>2, <2>4, <2>5, <3>1, <3>2
  <2>6. CASE type \in NavTypes
    <3>1. /\ Held(p, i.rtcm.eph, i.rtcm.geph)
          /\ i.ret >= 0 => Agree(i.rtcm.eph, i.rtcm.geph, e, e.ephsat)
      BY <1>5, <2>2, <2>3, <2>4, <2>6, EphemerisKept
    <3> QED
      BY <1>1, <1>2, <3>1
  <2> QED
    BY <2>5, <2>6
<1>6. CASE ~(g.ret = 1 /\ ~damaged)
  <2>1. ~f.parity
    BY <1>1, <1>2, <1>6 DEF HasParity
  <2>2. i = Nothing(r)
    BY <1>4, <2>1 DEF input_rtcm3
  <2>3. i.rtcm = r
    BY <2>2 DEF Nothing
  <2> QED
    BY <1>1, <1>2, <1>6, <2>3
<1> QED
  BY <1>5, <1>6

\* A frame leaves the receiver the time it had, the one that its clock tells, or that
\* of the epoch, if that is within half a day of the time known.
LEMMA TimeHeard ==
  ASSUME NEW e, Sender(e), NEW type \in Int, NEW sync \in BOOLEAN, NEW r, Sound(r),
         NEW damaged \in BOOLEAN, NEW g, g = gen_rtcm3(e, type, sync), NEW i,
         i = input_rtcm3(r, Arrived(g.frame, damaged)),
         NEW t \in Int, t = e.time, NEW k \in Int, k = KnownTime(r), Within(t, k, Day)
  PROVE  i.rtcm.time \in {r.time, k, t}
<1> DEFINE f == [g.frame EXCEPT !.parity = @ /\ ~damaged]
           G == gen_rtcm3(e, type, sync)
<1>1. /\ G.ret \in {0, 1}
      /\ HasParity(G.frame)
      /\ G.frame.parity = IF G.ret = 1 THEN TRUE ELSE FALSE
      /\ G.ret = 1 =>
           /\ WellFormed(G.frame.msg) /\ G.frame.msg.type = type
           /\ Timed(type) => G.frame.msg.epoch = EpochTold(e.time, G.frame.msg)
  BY ZenonT(60), FrameIsSound
<1>2. g = G
  OBVIOUS
<1> HIDE DEF G
<1>3. f.msg = g.frame.msg
  BY <1>1, <1>2 DEF HasParity
<1>4. i = input_rtcm3(r, f)
  BY DEF Arrived
<1>5. CASE g.ret = 1 /\ ~damaged
  <2>1. f.parity
    BY <1>1, <1>2, <1>5 DEF HasParity
  <2>2. PICK msg : msg = g.frame.msg
    OBVIOUS
  <2> DEFINE d == decode_rtcm3(r, msg)
  <2>3. i = d
    BY <1>3, <1>4, <2>1, <2>2 DEF input_rtcm3
  <2>4. WellFormed(msg) /\ msg.type = type /\ (Timed(type) => msg.epoch = EpochTold(t, msg))
    BY <1>1, <1>2, <1>5, <2>2
  <2> HIDE DEF f
  <2>5. \/ d.rtcm.time \in {r.time, KnownTime(r)}
        \/ Timed(msg.type) /\ d.rtcm.time = TimeOf(KnownTime(r), msg)
    BY <2>4, MessageDecoded
  <2> HIDE DEF d
  <2>6. Within(t, k, IF msg.type \in GloTypes THEN Day ELSE Week)
    BY DEF Within, Day, Week
  <2>7. ASSUME Timed(msg.type)
        PROVE  TimeOf(k, msg) = t
    BY <2>4, <2>6, <2>7, MessageTimed
  <2> QED
    BY <2>3, <2>5, <2>7
<1>6. CASE ~(g.ret = 1 /\ ~damaged)
  <2>1. ~f.parity
    BY <1>1, <1>2, <1>6 DEF HasParity
  <2>2. i = Nothing(r)
    BY <1>4, <2>1 DEF input_rtcm3
  <2> QED
    BY <2>2 DEF Nothing
<1> QED
  BY <1>5, <1>6

\* Such a time between epochs.
Pace(p) == CHOOSE S \in Nat : Paced(p, S)

\* The numbers of a plan that is paced: E epochs, S seconds, x seconds of error of the clock.
PaceOf(p, a, E, S, d) ==
  /\ a = p.start /\ a \in Int /\ E = p.epochs /\ E \in Nat /\ S = Pace(p) /\ S \in Nat
  /\ d = Abs(p.skew) /\ d \in Nat
  /\ p.skew \in Int /\ -d <= p.skew /\ p.skew <= d
  /\ p.steps \subseteq 0 .. S
  /\ Timely(p)
  /\ E < 255 /\ (Sends(p, {1042, 63}) => E < 31)
  /\ E * S + d <= 500 * Week
  /\ Sends(p, {1020}) => 2 * (E * S + d) + 3600 * (E + 2) < Day

\* A paced plan has such numbers.
LEMMA PaceKnown ==
  ASSUME \A p \in Plans : \E S \in Nat : Paced(p, S),
         NEW p \in Plans
  PROVE  \E a, E, S, d : PaceOf(p, a, E, S, d)
<1>1. p.start \in Int /\ p.epochs \in Nat /\ p.skew \in Int
  BY PlansAssumption
<1>2. Pace(p) \in Nat /\ Paced(p, Pace(p))
  BY DEF Pace
<1>3. PICK a \in Int, E \in Nat, S \in Nat : a = p.start /\ E = p.epochs /\ S = Pace(p)
  BY <1>1, <1>2
<1>4. PICK d \in Nat : d = Abs(p.skew) /\ -d <= p.skew /\ p.skew <= d
  BY <1>1 DEF Abs
<1>5. Paced(p, S)
  BY <1>2, <1>3
<1>6. Timely(p)
  BY <1>1, <1>5 DEF Paced, Timely
<1>7. /\ p.steps \subseteq 0 .. S
      /\ E < (IF Sends(p, {1042, 63}) THEN 31 ELSE 255)
      /\ E * S + d <= 500 * Week
      /\ Sends(p, {1020}) => 2 * (E * S + d) + 3600 * (E + 2) < Day
  BY <1>3, <1>4, <1>5 DEF Paced
<1>8. E < 255 /\ (Sends(p, {1042, 63}) => E < 31)
  BY <1>7
<1> QED
  BY <1>1, <1>3, <1>4, <1>6, <1>7, <1>8 DEF PaceOf

\* More epochs take no less time.
LEMMA LaterIsLonger ==
  ASSUME NEW m \in Nat, NEW E \in Nat, m <= E, NEW S \in Nat
  PROVE  m * S \in Nat /\ E * S \in Nat /\ m * S <= E * S
<1>1. E * S = m * S + (E - m) * S
  OBVIOUS
<1>2. m * S \in Nat /\ E * S \in Nat /\ (E - m) * S \in Nat
  OBVIOUS
<1> QED
  BY <1>1, <1>2

\* The times that the receiver may know: of epochs, and of its clock.
MayKnow(a, most, d, t) == a - d <= t /\ t <= a + most + d

\* Within a paced plan an ephemeris is in reach of the receiver's clock and time.
LEMMA EphInReach ==
  ASSUME NEW p, NEW a, NEW E, NEW S, NEW d, PaceOf(p, a, E, S, d),
         NEW n \in Nat, n <= E, NEW type, type = 1020 => Sends(p, {1020}),
         NEW r, NEW c \in Int, c = utc2gpst(r.clock), MayKnow(a, E * S, d, c),
         NEW k \in Int, k = KnownTime(r), type = 1020 => MayKnow(a, E * S, d, k)
  PROVE  InReach(p, n, r, type)
<1>1. /\ a \in Int /\ a = p.start /\ E \in Nat /\ S \in Nat /\ d \in Nat /\ E < 255
      /\ E * S + d <= 500 * Week
      /\ type = 1020 => 2 * (E * S + d) + 3600 * (E + 2) < Day
  BY DEF PaceOf
<1>2. PICK most \in Nat : most = E * S
  BY <1>1, LaterIsLonger
<1>3. ASSUME type # 1020
      PROVE  ClockNear(r, Toe(p, n))
  <2>1. PICK T : T = Toe(p, n)
    OBVIOUS
  <2>2. T \in Int /\ p.start < T /\ T <= p.start + 7200 * (n + 1)
    BY <1>1, <2>1, ToeIsEven
  <2>3. T \in Int /\ a < T /\ T <= a + 7200 * (n + 1)
    BY <1>1, <2>2
  <2>4. a - d <= c /\ c <= a + most + d /\ most + d <= 500 * Week
    BY <1>1, <1>2 DEF MayKnow
  <2>5. Close(c, T)
    BY <1>1, <2>3, <2>4 DEF Close, Reach, Week, Day
  <2> QED
    BY <2>1, <2>5 DEF ClockNear
<1>5. PICK toe : toe = GlonassToe(a, n)
  OBVIOUS
<1>6. toe \in Int /\ a < toe - 18 /\ toe - 18 <= a + 1800 * (n + 1)
  <2>1. PICK b \in Int : b = a
    BY <1>1
  <2>2. toe = GlonassToe(b, n)
    BY <1>5, <2>1
  <2>3. toe \in Int /\ b < toe - 18 /\ toe - 18 <= b + 1800 * (n + 1)
    BY <2>2, GlonassLater
  <2> QED
    BY <2>1, <2>3
<1>4. ASSUME type = 1020
      PROVE  /\ Within(GlonassToe(p.start, n), KnownTime(r), Day)
             /\ Within(GlonassToe(p.start, n) - 1800, KnownTime(r), Day)
  <2>3. a - d <= k /\ k <= a + most + d /\ 2 * (most + d) + 3600 * (E + 2) < Day
    BY <1>1, <1>2, <1>4 DEF MayKnow
  <2>4. Within(toe, k, Day) /\ Within(toe - 1800, k, Day)
    BY <1>1, <1>6, <2>3 DEF Within, Day
  <2> QED
    BY <1>1, <1>5, <2>4
<1> QED
  BY <1>3, <1>4 DEF InReach

\* What a station knows is of one issue that was measured; the receiver has ephemerides
\* of issues only and knows a time of the plan.
EphInv ==
  /\ issue \in 0 .. epoch
  /\ \A s \in Stations : \E n \in 0 .. issue : StockedEph(plan, enc[s], n)
  /\ Held(plan, dec.eph, dec.geph)
  /\ plan.start <= now /\ now <= plan.start + epoch * Pace(plan)
  /\ Sends(plan, {1020}) =>
       dec.time = 0 \/ MayKnow(plan.start, plan.epochs * Pace(plan), Abs(plan.skew), dec.time)

\* An epoch's measurements bring the ephemerides of the newest issue.
LEMMA EphObserved ==
  ASSUME NEW p, NEW rtcm, IsRtcm(rtcm), NEW sta, NEW time, NEW m, NEW jumped, NEW slips,
         NEW latest, NEW n, n = IF "eph" \in p.renewed THEN latest ELSE 0
  PROVE  StockedEph(p, Observe(p, rtcm, sta, time, m, jumped, slips, latest), n)
<1> DEFINE known(kind) == IF kind \in p.renewed THEN latest ELSE 0
           obs == [i \in DOMAIN p.tracks |->
                     Measurement(p, p.tracks[i], time, m, jumped[p.tracks[i].sat],
                                 p.tracks[i].sat \in slips, sta)]
           eph == [s \in Sats |-> IF satsys(s) # "GLO" THEN EphOfIssue(p, s, known("eph")) ELSE rtcm.eph[s]]
           geph == [s \in Sats |-> IF satsys(s) = "GLO" THEN GephOfIssue(p, s, known("eph")) ELSE rtcm.geph[s]]
           ssr == [s \in Sats |-> IF s \in InView(p) THEN SsrOfIssue(known("ssr")) ELSE rtcm.ssr[s]]
           own == StaOfIssue(known("sta"))
           r == Observe(p, rtcm, sta, time, m, jumped, slips, latest)
<1>1. r = [rtcm EXCEPT !.time = time, !.staid = sta, !.obs = obs, !.eph = eph, !.geph = geph,
                       !.ssr = ssr, !.sta = own]
  BY Zenon DEF Observe
<1>2. known("eph") = n
  OBVIOUS
<1> HIDE DEF obs, eph, geph, own, r, known, ssr
<1>3. r.eph = eph /\ r.geph = geph
  BY <1>1 DEF IsRtcm, Fields
<1>4. StockedEph(p, r, n)
  BY <1>2, <1>3 DEF StockedEph, eph, geph
<1> QED
  BY <1>4 DEF r

\* A new structure has no ephemerides.
LEMMA NoEphMade ==
  ASSUME NEW p, NEW opt, NEW r, r = [init_rtcm EXCEPT !.opt = opt]
  PROVE  Held(p, r.eph, r.geph) /\ r.time = 0
<1>1. /\ init_rtcm.eph = [s \in Sats |-> NoEph] /\ init_rtcm.geph = [s \in Sats |-> NoGeph]
      /\ [init_rtcm EXCEPT !.opt = opt].eph = init_rtcm.eph
      /\ [init_rtcm EXCEPT !.opt = opt].geph = init_rtcm.geph
      /\ [init_rtcm EXCEPT !.opt = opt].time = init_rtcm.time
  BY Zenon DEF init_rtcm
<1>2. r.eph = [s \in Sats |-> NoEph] /\ r.geph = [s \in Sats |-> NoGeph]
  BY <1>1
<1>3. Held(p, r.eph, r.geph)
  BY <1>2 DEF Held, HeldEph, HeldGeph
<1> QED
  BY <1>1, <1>3, StructureMade

\* Where nothing was answered, nothing is promised.
LEMMA NothingPromised ==
  ASSUME NEW a, a = NoAnswer
  PROVE  a.type \notin NavTypes
BY DEF NoAnswer, NavTypes

\* The first epoch brings ephemerides of the first issue.
LEMMA EphInit ==
  ASSUME \A p \in Plans : \E S \in Nat : Paced(p, S), Init, LinkInv
  PROVE  EphInv /\ EphAsSent
<1>1. /\ issue = 0 /\ epoch = 0 /\ dec = Decoder /\ now = plan.start /\ answer = NoAnswer
      /\ plan \in Plans
  BY DEF Init
<1>2. Held(plan, dec.eph, dec.geph) /\ dec.time = 0
  BY <1>1, NoEphMade DEF Decoder
<1>3. PICK n : n = IF "eph" \in plan.renewed THEN 0 ELSE 0
  OBVIOUS
<1>4. ASSUME NEW s \in Stations
      PROVE  StockedEph(plan, enc[s], n)
  <2>1. enc[s] = Observe(plan, init_rtcm, s, now, 0, jumps, {}, 0)
    BY DEF Init
  <2>2. IsRtcm(init_rtcm)
    BY StructureMade
  <2> QED
    BY <1>3, <2>1, <2>2, EphObserved
<1>5. PICK a, E, S, d : PaceOf(plan, a, E, S, d)
  BY <1>1, PaceKnown
<1>6. plan.start <= now /\ now <= plan.start + epoch * Pace(plan)
  <2>1. now = a /\ a = plan.start /\ a \in Int /\ S = Pace(plan) /\ S \in Nat
    BY <1>1, <1>5 DEF PaceOf
  <2>2. 0 * S = 0
    BY <2>1
  <2> QED
    BY <1>1, <2>1, <2>2
<1>7. EphAsSent
  BY <1>1, NothingPromised DEF EphAsSent
<1>8. n = 0 /\ issue = 0 /\ epoch = 0
  BY <1>1, <1>3
<1> QED
  BY <1>2, <1>4, <1>6, <1>7, <1>8 DEF EphInv

\* An epoch brings ephemerides of one issue.
LEMMA EphMeasure ==
  ASSUME \A p \in Plans : \E S \in Nat : Paced(p, S), LinkInv, EphInv, Measure
  PROVE  EphInv' /\ EphAsSent'
<1>1. plan' = plan /\ dec' = dec /\ epoch' = epoch + 1 /\ answer' = NoAnswer
  BY DEF Measure
<1>2. issue' \in {issue, issue + 1}
  BY DEF Measure, EphInv
<1>3. Stations' = Stations
  BY <1>1 DEF Stations
<1>4. PICK slips : enc' = [s \in Stations |->
                            Observe(plan, enc[s], s, now', epoch', jumps', slips, issue')]
  BY DEF Measure
<1>5. epoch \in Nat /\ issue \in 0 .. epoch
  BY MessagesOfPlan DEF LinkInv, EphInv
<1>6. issue' \in 0 .. epoch'
  BY <1>1, <1>2, <1>5
<1>7. PICK n \in 0 .. issue' : n = IF "eph" \in plan.renewed THEN issue' ELSE 0
  BY <1>6, <1>5, <1>1
<1>8. ASSUME NEW s \in Stations
      PROVE  StockedEph(plan, enc'[s], n)
  <2>1. IsRtcm(enc[s])
    BY DEF LinkInv, Sender
  <2>2. enc'[s] = Observe(plan, enc[s], s, now', epoch', jumps', slips, issue')
    BY <1>4
  <2>3. PICK t, e, j, l : t = now' /\ e = epoch' /\ j = jumps' /\ l = issue'
    OBVIOUS
  <2>4. n = IF "eph" \in plan.renewed THEN l ELSE 0
    BY <1>7, <2>3
  <2>5. StockedEph(plan, Observe(plan, enc[s], s, t, e, j, slips, l), n)
    BY <2>1, <2>4, EphObserved
  <2> QED
    BY <2>2, <2>3, <2>5
<1>9. plan.start <= now' /\ now' <= plan.start + epoch' * Pace(plan)
  <2>1. plan \in Plans /\ now \in Int
    BY DEF LinkInv
  <2>2. PICK a, E, S, d : PaceOf(plan, a, E, S, d)
    BY <2>1, PaceKnown
  <2>3. PICK step \in plan.steps : now' = now + step
    BY DEF Measure
  <2>4. a = plan.start /\ a \in Int /\ S = Pace(plan) /\ S \in Nat /\ step \in 0 .. S
    BY <2>2, <2>3 DEF PaceOf
  <2>5. a <= now /\ now <= a + epoch * S
    BY <2>4 DEF EphInv
  <2>6. (epoch + 1) * S = epoch * S + S /\ epoch * S \in Int
    BY <1>5, <2>4
  <2>7. a <= now' /\ now' <= a + (epoch + 1) * S
    BY <2>1, <2>3, <2>4, <2>5, <2>6
  <2> QED
    BY <1>1, <2>4, <2>7
<1>10. EphAsSent'
  BY <1>1, NothingPromised DEF EphAsSent
<1>11. \A s \in Stations : \E x \in 0 .. issue' : StockedEph(plan, enc'[s], x)
  BY <1>7, <1>8
<1> QED
  BY <1>1, <1>3, <1>6, <1>9, <1>10, <1>11 DEF EphInv

\* A restart of either end leaves no ephemeris of another issue.
LEMMA EphRestart ==
  ASSUME LinkInv, EphInv, RestartSender \/ RestartReceiver
  PROVE  EphInv' /\ EphAsSent'
<1>1. plan' = plan /\ epoch' = epoch /\ issue' = issue /\ now' = now /\ answer' = NoAnswer
  BY DEF RestartSender, RestartReceiver, sentVars
<1>2. Stations' = Stations
  BY <1>1 DEF Stations
<1>3. EphAsSent'
  BY <1>1, NothingPromised DEF EphAsSent
<1>4. CASE RestartSender
  <2>1. PICK s \in Stations :
          enc' = [enc EXCEPT ![s] = [init_rtcm EXCEPT
                   !.time = enc[s].time, !.staid = s, !.obs = enc[s].obs, !.eph = enc[s].eph,
                   !.geph = enc[s].geph, !.ssr = enc[s].ssr, !.sta = enc[s].sta]]
    BY <1>4 DEF RestartSender
  <2> DEFINE r == [init_rtcm EXCEPT
                   !.time = enc[s].time, !.staid = s, !.obs = enc[s].obs, !.eph = enc[s].eph,
                   !.geph = enc[s].geph, !.ssr = enc[s].ssr, !.sta = enc[s].sta]
  <2>2. r.eph = enc[s].eph /\ r.geph = enc[s].geph
    BY StructureMade DEF IsRtcm, Fields
  <2> HIDE DEF r
  <2>3. enc = [x \in Stations |-> enc[x]]
    BY DEF LinkInv
  <2>4. enc' = [enc EXCEPT ![s] = r]
    BY <2>1 DEF r
  <2>5. \A x \in Stations : enc'[x].eph = enc[x].eph /\ enc'[x].geph = enc[x].geph
    BY <2>2, <2>3, <2>4
  <2>6. dec' = dec
    BY <1>4 DEF RestartSender
  <2>7. \A x \in Stations : \E n \in 0 .. issue : StockedEph(plan, enc'[x], n)
    BY <2>5 DEF EphInv, StockedEph
  <2> QED
    BY <1>1, <1>2, <1>3, <2>6, <2>7 DEF EphInv
<1>5. CASE RestartReceiver
  <2>1. enc' = enc /\ dec' = Decoder
    BY <1>5 DEF RestartReceiver
  <2>2. Held(plan, dec'.eph, dec'.geph) /\ dec'.time = 0
    BY <2>1, NoEphMade DEF Decoder
  <2> QED
    BY <1>1, <1>2, <1>3, <2>1, <2>2 DEF EphInv
<1> QED
  BY <1>4, <1>5

\* The j-th epoch is at the time t, and a receiver's clock is read then.
AtEpoch(a, S, j, t) == a <= t /\ t <= a + j * S
ClockAt(p, r, t) == r.clock = gpst2utc(t) + p.skew

\* A time of the plan, of which the receiver has one if it needs one.
KnowsPlan(p, a, E, S, d, r) ==
  Sends(p, {1020}) => r.time = 0 \/ MayKnow(a, E * S, d, r.time)

\* What the receiver's clock tells and what it knows of the time are times of the plan.
LEMMA TimesMayBeKnown ==
  ASSUME NEW p, NEW a, NEW E, NEW S, NEW d, PaceOf(p, a, E, S, d),
         NEW t \in Int, NEW j \in Nat, j <= E, AtEpoch(a, S, j, t),
         NEW r, Sound(r), ClockAt(p, r, t),
         KnowsPlan(p, a, E, S, d, r)
  PROVE  /\ utc2gpst(r.clock) \in Int /\ MayKnow(a, E * S, d, utc2gpst(r.clock))
         /\ MayKnow(a, E * S, d, t) /\ KnownTime(r) \in Int
         /\ Sends(p, {1020}) => /\ MayKnow(a, E * S, d, KnownTime(r))
                                /\ Within(t, KnownTime(r), Day)
<1>1. /\ a \in Int /\ E \in Nat /\ S \in Nat /\ d \in Nat
      /\ p.skew \in Int /\ -d <= p.skew /\ p.skew <= d
      /\ Sends(p, {1020}) => 2 * (E * S + d) + 3600 * (E + 2) < Day
  BY DEF PaceOf
<1>2. PICK most \in Nat, sofar \in Nat : most = E * S /\ sofar = j * S /\ sofar <= most
  BY <1>1, LaterIsLonger
<1>3. PICK skew \in Int : skew = p.skew /\ -d <= skew /\ skew <= d
  BY <1>1
<1>4. a <= t /\ t <= a + most
  BY <1>1, <1>2 DEF AtEpoch
<1>5. PICK c \in Int : c = utc2gpst(r.clock) /\ c = t + skew
  <2>1. PICK clock \in Int : clock = r.clock
    BY DEF Sound
  <2>2. clock = t - 18 + skew
    BY <1>3, <2>1 DEF ClockAt, gpst2utc, Leaps
  <2>3. clock + 18 = t + skew
    BY <2>2
  <2> QED
    BY <2>1, <2>3 DEF utc2gpst, Leaps
<1>6. MayKnow(a, most, d, c) /\ MayKnow(a, most, d, t)
  BY <1>1, <1>3, <1>4, <1>5 DEF MayKnow
<1>7. PICK k \in Int : k = KnownTime(r) /\ k \in {c, r.time} /\ (r.time = 0 => k = c)
  BY <1>5 DEF KnownTime, Sound
<1>8. ASSUME Sends(p, {1020})
      PROVE  MayKnow(a, most, d, k) /\ Within(t, k, Day)
  <2>1. MayKnow(a, most, d, k)
    BY <1>2, <1>6, <1>7, <1>8 DEF KnowsPlan
  <2>2. 2 * (most + d) < Day
    BY <1>1, <1>2, <1>8 DEF Day
  <2>3. a - d <= k /\ k <= a + most + d
    BY <2>1 DEF MayKnow
  <2> QED
    BY <1>1, <1>4, <2>1, <2>2, <2>3 DEF Within, Day
<1> QED
  BY <1>2, <1>5, <1>6, <1>7, <1>8

\* A station that has the n-th issue sends a message of a type in the j-th epoch.
SendsAt(p, a, E, S, d, t, j, n, e, r, type) ==
  /\ PaceOf(p, a, E, S, d) /\ j <= E /\ n <= E
  /\ AtEpoch(a, S, j, t) /\ ClockAt(p, r, t)
  /\ Sender(e) /\ e.time = t /\ StockedEph(p, e, n)
  /\ Sound(r) /\ Held(p, r.eph, r.geph) /\ KnowsPlan(p, a, E, S, d, r)
  /\ type = 1020 => Sends(p, {1020})
  /\ type \in {1042, 63} => Sends(p, {1042, 63})

\* What it leaves at the receiver.
LEMMA MessageBrings ==
  ASSUME GpsIsNotSbs, NEW p, NEW a, NEW E, NEW S, NEW d, NEW t \in Int, NEW j \in Nat,
         NEW n \in Nat, NEW e, NEW r, NEW type \in Int,
         SendsAt(p, a, E, S, d, t, j, n, e, r, type),
         NEW sync \in BOOLEAN, NEW damaged \in BOOLEAN, NEW g, g = gen_rtcm3(e, type, sync),
         NEW i, i = input_rtcm3(r, Arrived(g.frame, damaged))
  PROVE  /\ Moved(e, g.rtcm) /\ g.ret \in {0, 1}
         /\ Held(p, i.rtcm.eph, i.rtcm.geph) /\ KnowsPlan(p, a, E, S, d, i.rtcm)
         /\ g.ret = 1 /\ ~damaged /\ type \in NavTypes /\ i.ret >= 0 =>
              Agree(i.rtcm.eph, i.rtcm.geph, e, e.ephsat)
<1>1. PaceOf(p, a, E, S, d) /\ j <= E /\ n <= E
  BY DEF SendsAt
<1>2. AtEpoch(a, S, j, t) /\ ClockAt(p, r, t) /\ Sound(r) /\ KnowsPlan(p, a, E, S, d, r)
  BY DEF SendsAt
<1>3. Sender(e) /\ e.time = t /\ StockedEph(p, e, n) /\ Held(p, r.eph, r.geph)
  BY DEF SendsAt
<1>4. /\ type = 1020 => Sends(p, {1020})
      /\ type \in {1042, 63} => Sends(p, {1042, 63})
  BY DEF SendsAt
<1>5. Timely(p) /\ E \in Nat /\ E < 255 /\ (Sends(p, {1042, 63}) => E < 31)
  BY <1>1 DEF PaceOf
<1>6. n < 255 /\ (type \in {1042, 63} => n < 31)
  BY <1>1, <1>4, <1>5
<1>7. PICK x, k : x = utc2gpst(r.clock) /\ k = KnownTime(r)
  OBVIOUS
<1>8. /\ x \in Int /\ MayKnow(a, E * S, d, x) /\ MayKnow(a, E * S, d, t) /\ k \in Int
      /\ Sends(p, {1020}) => MayKnow(a, E * S, d, k) /\ Within(t, k, Day)
  BY <1>1, <1>2, <1>7, TimesMayBeKnown
<1>9. InReach(p, n, r, type)
  BY <1>1, <1>4, <1>7, <1>8, EphInReach
<1>10. /\ Moved(e, g.rtcm) /\ g.ret \in {0, 1} /\ Held(p, i.rtcm.eph, i.rtcm.geph)
       /\ g.ret = 1 /\ ~damaged /\ type \in NavTypes /\ i.ret >= 0 =>
            Agree(i.rtcm.eph, i.rtcm.geph, e, e.ephsat)
  BY <1>2, <1>3, <1>5, <1>6, <1>9, EphHeard
<1>11. ASSUME Sends(p, {1020})
       PROVE  i.rtcm.time = 0 \/ MayKnow(a, E * S, d, i.rtcm.time)
  <2>1. k \in Int /\ MayKnow(a, E * S, d, k) /\ Within(t, k, Day)
    BY <1>8, <1>11
  <2>2. i.rtcm.time \in {r.time, k, t}
    BY <1>2, <1>3, <1>7, <2>1, TimeHeard
  <2>3. r.time = 0 \/ MayKnow(a, E * S, d, r.time)
    BY <1>2, <1>11 DEF KnowsPlan
  <2> QED
    BY <1>8, <2>1, <2>2, <2>3
<1> QED
  BY <1>10, <1>11 DEF KnowsPlan

\* A message, damaged or not, leaves ephemerides of issues at the receiver.
LEMMA EphSend ==
  ASSUME \A p \in Plans : \E S \in Nat : Paced(p, S),
         GpsIsNotSbs, LinkInv, EphInv, Send
  PROVE  EphInv' /\ EphAsSent'
<1>0. plan \in Plans /\ now \in Int /\ next \in 1 .. Len(plan.msgs)
  <2>1. plan \in Plans /\ next \in 1 .. Len(plan.msgs) + 1 /\ next <= Len(plan.msgs)
    BY DEF LinkInv, Send
  <2>2. Len(plan.msgs) \in Nat
    BY <2>1, MessagesOfPlan
  <2> QED
    BY <2>1, <2>2 DEF LinkInv
<1> DEFINE m == plan.msgs[next]
           clock == gpst2utc(now) + plan.skew
<1>1. m.sta \in Stations /\ m.type \in Int /\ m.sync \in BOOLEAN /\ clock \in Int
  BY <1>0, MessagesOfPlan DEF gpst2utc, Leaps
<1>2. PICK damaged \in IF faults < plan.losses THEN BOOLEAN ELSE {FALSE} :
        \E g \in {gen_rtcm3(Load(enc[m.sta], m), m.type, m.sync)} :
        \E i \in {input_rtcm3([dec EXCEPT !.clock = clock], [g.frame EXCEPT !.parity = @ /\ ~damaged])} :
          /\ enc' = [enc EXCEPT ![m.sta] = g.rtcm]
          /\ dec' = i.rtcm
          /\ faults' = IF damaged THEN faults + 1 ELSE faults
          /\ answer' = IF g.ret = 0 \/ damaged THEN NoAnswer
                       ELSE [ret |-> i.ret, type |-> m.type, sta |-> m.sta]
          /\ intact' = (intact /\ ~damaged /\ g.ret = 1 /\ i.ret >= 0)
          /\ refused' = IF i.ret = 1 THEN FALSE ELSE (refused \/ i.ret < 0)
          /\ handed' = IF i.ret = 1 THEN i.rtcm.time ELSE handed
          /\ last' = Note(g.rtcm, i.rtcm)
  BY Zenon DEF Send
<1>3. damaged \in BOOLEAN
  OBVIOUS
<1>4. PICK g, i : /\ g = gen_rtcm3(Load(enc[m.sta], m), m.type, m.sync)
                  /\ i = input_rtcm3([dec EXCEPT !.clock = clock], [g.frame EXCEPT !.parity = @ /\ ~damaged])
                  /\ enc' = [enc EXCEPT ![m.sta] = g.rtcm]
                  /\ dec' = i.rtcm
                  /\ answer' = IF g.ret = 0 \/ damaged THEN NoAnswer
                               ELSE [ret |-> i.ret, type |-> m.type, sta |-> m.sta]
  BY <1>2, Zenon
<1>5. plan' = plan /\ epoch' = epoch /\ issue' = issue /\ now' = now
  BY DEF Send, sentVars
<1>6. PICK a, E, S, d : PaceOf(plan, a, E, S, d)
  BY <1>0, PaceKnown
<1>7. /\ a = plan.start /\ a \in Int /\ E = plan.epochs /\ E \in Nat /\ S = Pace(plan) /\ S \in Nat
      /\ d = Abs(plan.skew) /\ d \in Nat /\ Timely(plan)
      /\ E < 255 /\ (Sends(plan, {1042, 63}) => E < 31)
  BY <1>6 DEF PaceOf
<1>8. epoch \in Nat /\ epoch <= E /\ issue \in 0 .. epoch
  BY <1>0, <1>7, MessagesOfPlan DEF LinkInv, EphInv
<1>9. PICK type \in Int, sync \in BOOLEAN :
        /\ type = m.type /\ sync = m.sync
        /\ type = 1020 => Sends(plan, {1020})
        /\ type \in {1042, 63} => Sends(plan, {1042, 63})
  <2>1. next \in DOMAIN plan.msgs
    <3>1. plan.msgs \in Seq([sta : Int, type : Int, sync : BOOLEAN, sat : Sats \union {NoSat}])
      BY <1>0, PlansAssumption
    <3> QED
      BY <1>0, <3>1
  <2> QED
    BY <1>1, <2>1 DEF Sends
<1> HIDE DEF m, clock
<1>10. PICK e, n : /\ e = Load(enc[m.sta], m) /\ Sender(e) /\ e.time = now
                   /\ n \in Nat /\ n <= E /\ StockedEph(plan, e, n)
  <2>1. Sender(enc[m.sta]) /\ IsRtcm(enc[m.sta]) /\ enc[m.sta].time = now
    BY <1>1 DEF LinkInv, Sender
  <2>2. Sender(Load(enc[m.sta], m)) /\ Load(enc[m.sta], m).time = now
    BY <2>1, Loaded
  <2>3. /\ Load(enc[m.sta], m).eph = enc[m.sta].eph
        /\ Load(enc[m.sta], m).geph = enc[m.sta].geph
    BY <2>1 DEF Load, IsRtcm, Fields
  <2>4. PICK n \in 0 .. issue : StockedEph(plan, enc[m.sta], n)
    BY <1>1 DEF EphInv
  <2>5. n \in Nat /\ n <= E
    BY <1>7, <1>8
  <2>6. StockedEph(plan, Load(enc[m.sta], m), n)
    BY <2>3, <2>4 DEF StockedEph
  <2> QED
    BY <2>2, <2>5, <2>6
<1>11. PICK r : /\ r = [dec EXCEPT !.clock = clock] /\ Sound(r) /\ r.clock = clock
                /\ r.time = dec.time /\ Held(plan, r.eph, r.geph)
  <2>1. Sound([dec EXCEPT !.clock = clock]) /\ [dec EXCEPT !.clock = clock].clock = clock
        /\ [dec EXCEPT !.clock = clock].time = dec.time
    BY <1>1, ClockRead DEF LinkInv
  <2>2. /\ [dec EXCEPT !.clock = clock].eph = dec.eph
        /\ [dec EXCEPT !.clock = clock].geph = dec.geph
    BY DEF LinkInv, Sound, IsRtcm, Fields
  <2> QED
    BY <2>1, <2>2 DEF EphInv
<1>12. PICK t \in Int, j \in Nat :
         t = now /\ j = epoch /\ j <= E /\ AtEpoch(a, S, j, t) /\ ClockAt(plan, r, t)
  <2>1. a <= now /\ now <= a + epoch * S
    BY <1>7 DEF EphInv
  <2> QED
    BY <1>0, <1>8, <1>11, <2>1 DEF clock, AtEpoch, ClockAt
<1>13. SendsAt(plan, a, E, S, d, t, j, n, e, r, type)
  <2>1. KnowsPlan(plan, a, E, S, d, r)
    BY <1>7, <1>11 DEF EphInv, KnowsPlan
  <2> QED
    BY ZenonT(60), <1>6, <1>9, <1>10, <1>11, <1>12, <2>1 DEF SendsAt
<1>16. g = gen_rtcm3(e, type, sync) /\ i = input_rtcm3(r, Arrived(g.frame, damaged))
  BY <1>4, <1>9, <1>10, <1>11 DEF Arrived
<1>18. /\ Moved(e, g.rtcm) /\ g.ret \in {0, 1}
       /\ Held(plan, i.rtcm.eph, i.rtcm.geph) /\ KnowsPlan(plan, a, E, S, d, i.rtcm)
       /\ g.ret = 1 /\ ~damaged /\ type \in NavTypes /\ i.ret >= 0 =>
            Agree(i.rtcm.eph, i.rtcm.geph, e, e.ephsat)
  BY SMTT(60), <1>3, <1>10, <1>13, <1>16, MessageBrings
<1>20. enc'[m.sta] = g.rtcm /\ \A s \in Stations : s # m.sta => enc'[s] = enc[s]
  <2>1. enc = [s \in Stations |-> enc[s]]
    BY DEF LinkInv
  <2> QED
    BY <1>1, <1>4, <2>1
<1>21. g.rtcm.eph = e.eph /\ g.rtcm.geph = e.geph /\ g.rtcm.ephsat = e.ephsat
  BY <1>18 DEF Moved, Fields
<1>22. \A s \in Stations : \E x \in 0 .. issue : StockedEph(plan, enc'[s], x)
  <2>1. /\ e.eph = enc[m.sta].eph /\ e.geph = enc[m.sta].geph
    BY <1>1, <1>10 DEF Load, LinkInv, Sender, IsRtcm, Fields
  <2>2. \A s \in Stations : enc'[s].eph = enc[s].eph /\ enc'[s].geph = enc[s].geph
    BY <1>20, <1>21, <2>1
  <2> QED
    BY <2>2 DEF EphInv, StockedEph
<1>23. Stations' = Stations
  BY <1>5 DEF Stations
<1>24. EphInv'
  <2>1. Held(plan, dec'.eph, dec'.geph) /\ (Sends(plan, {1020}) => dec'.time = 0 \/ MayKnow(a, E * S, d, dec'.time))
    BY ZenonT(60), <1>4, <1>18 DEF KnowsPlan
  <2> QED
    BY <1>5, <1>7, <1>22, <1>23, <2>1 DEF EphInv
<1>25. EphAsSent'
  <2> SUFFICES ASSUME answer'.type \in NavTypes, answer'.ret >= 0
               PROVE  LET f == enc'[answer'.sta]
                      IN  Agree(dec'.eph, dec'.geph, f, f.ephsat)
    BY DEF EphAsSent, Agree
  <2>1. answer' # NoAnswer
    BY NothingPromised
  <2>2. /\ g.ret # 0 /\ ~damaged
        /\ answer'.ret = i.ret /\ answer'.type = type /\ answer'.sta = m.sta
    BY ZenonT(60), <1>4, <1>9, <2>1
  <2>3. Agree(i.rtcm.eph, i.rtcm.geph, e, e.ephsat)
    BY <1>18, <2>2
  <2>4. Agree(i.rtcm.eph, i.rtcm.geph, g.rtcm, g.rtcm.ephsat)
    BY <1>21, <2>3 DEF Agree
  <2> QED
    BY <1>4, <1>20, <2>2, <2>4
<1> QED
  BY <1>24, <1>25

\* When the message of an ephemeris has come, the receiver has the one that the station
\* has: whatever is lost and whichever end starts again, in every paced plan.
THEOREM EphemeridesAsSent ==
  ASSUME \A p \in Plans : \E S \in Nat : Paced(p, S),
         GpsIsNotSbs
  PROVE  Spec => []EphAsSent
<1>1. Init /\ LinkInv => EphInv /\ EphAsSent
  BY EphInit
<1>2. LinkInv /\ EphInv /\ EphAsSent /\ [Next]_vars => EphInv' /\ EphAsSent'
  <2> SUFFICES ASSUME LinkInv, EphInv, EphAsSent, [Next]_vars
               PROVE  EphInv' /\ EphAsSent'
    OBVIOUS
  <2>1. CASE UNCHANGED vars
    <3>1. /\ plan' = plan /\ epoch' = epoch /\ issue' = issue /\ now' = now
          /\ enc' = enc /\ dec' = dec /\ answer' = answer
      BY <2>1 DEF vars, sentVars, historyVars
    <3>2. Stations' = Stations
      BY <3>1 DEF Stations
    <3>3. EphInv'
      BY <3>1, <3>2 DEF EphInv
    <3>4. EphAsSent'
      BY <3>1 DEF EphAsSent
    <3> QED
      BY <3>3, <3>4
  <2>2. CASE Measure
    BY <2>2, EphMeasure
  <2>3. CASE Send
    BY <2>3, EphSend
  <2>4. CASE RestartSender \/ RestartReceiver
    BY <2>4, EphRestart
  <2>5. CASE Done
    BY <2>1, <2>5 DEF Done
  <2> QED
    BY <2>1, <2>2, <2>3, <2>4, <2>5 DEF Next
<1> QED
  BY <1>1, <1>2, LinkInvariant, PTL DEF Spec
=============================================================================
