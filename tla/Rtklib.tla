------------------------------- MODULE Rtklib -------------------------------
(***************************************************************************)
(* What the encoder and the decoder of RTCM 3 in src/c/rtklib share: the   *)
(* rtcm_t structure, satellites and signals, the scales of time, the       *)
(* ambiguities of a time of week or of day, of a carrier phase and of a    *)
(* lock time, and the buffer of observations.                              *)
(*                                                                         *)
(* A satellite number is the pair <<system, prn>>.  Times are whole        *)
(* seconds of GPS time, 0 being "no time" as in the code.  An observation  *)
(* keeps of its measured values what the properties tell apart: where and  *)
(* when a pseudorange was measured, and the carrier phase in cycles beside *)
(* the geometric range.  Signals are named as in the code ("1C", "2W").    *)
(* Every function that writes rtcm_t is an operator that returns the new   *)
(* structure, with the C return value beside it where there is one.        *)
(***************************************************************************)
EXTENDS Integers, Sequences, FiniteSets, SequencesExt

CONSTANTS
  Sats,    \* the satellites the library is built for, as <<system, prn>>
  MAXOBS,  \* the size of the buffer of observations
  NFREQ,   \* how many frequencies have a slot of their own in an observation
  NEXOBS,  \* how many slots there are for further signals
  Half,    \* half the range of the legacy phase field: 750 cycles
  Limit    \* the largest fine phase range of an MSM: 1171 metres

\* The fields of one record, and those of another that it does not have.
Joined(f, g) ==
  [x \in (DOMAIN f) \union DOMAIN g |-> IF x \in DOMAIN f THEN f[x] ELSE g[x]]

Systems == {"GPS", "GLO", "GAL", "QZS", "CMP", "SBS"}

ASSUME SizesAssumption ==
  /\ IsFiniteSet(Sats) /\ Sats \subseteq Systems \X Nat
  /\ MAXOBS \in Nat \ {0} /\ NFREQ \in Nat \ {0} /\ NEXOBS \in Nat
  /\ Half \in Nat \ {0} /\ Limit \in Nat \ {0}

Slots == 0 .. NFREQ + NEXOBS - 1

satsys(sat) == sat[1]
NoSat == <<"none", 0>>
satno(sys, prn) == IF <<sys, prn>> \in Sats THEN <<sys, prn>> ELSE NoSat

-----------------------------------------------------------------------------
(* Time.                                                                   *)

Week == 604800
Day == 86400
Leaps == 18           \* the newest row of the table of leap seconds
MoscowOffset == 10800

Tow(t) == t % Week
WeekOf(t) == t \div Week
gpst2time(week, sec) == week * Week + sec
gpst2utc(t) == t - Leaps
utc2gpst(t) == t + Leaps
gpst2bdt(t) == t - 14
bdt2gpst(t) == t + 14

Near(x, p, period) ==
  IF 2 * (p - x) > period THEN x + period
  ELSE IF 2 * (x - p) > period THEN x - period ELSE x

\* timeget() is the field clock of the receiver: UTC when the message comes.
StartClock(rtcm) ==
  IF rtcm.time = 0 THEN [rtcm EXCEPT !.time = utc2gpst(rtcm.clock)] ELSE rtcm

\* Mutant of adjweek: a new week is not noticed.
adjweekSame(rtcm, tow) ==
  LET r == StartClock(rtcm)
  IN  [r EXCEPT !.time = gpst2time(WeekOf(r.time), tow)]

adjweek(rtcm, tow) ==
  LET r == StartClock(rtcm)
  IN  [r EXCEPT !.time = gpst2time(WeekOf(r.time), Near(tow, Tow(r.time), Week))]

GlonassDay(t) == gpst2utc(t) + MoscowOffset

adjday_glot(rtcm, tod) ==
  LET r == StartClock(rtcm)
      time == GlonassDay(r.time)
      tod_p == Tow(time) % Day
      glot == gpst2time(WeekOf(time), Tow(time) - tod_p + Near(tod, tod_p, Day))
  IN  [r EXCEPT !.time = utc2gpst(glot - MoscowOffset)]

\* C division truncates towards zero.
Cdiv(a, b) == IF a < 0 THEN -((-a) \div b) ELSE a \div b
\* Mutant of adjgpsweek: the week is put into the current 1024 weeks.
adjgpsweekCycle(rtcm, week) ==
  week + (WeekOf(utc2gpst(rtcm.clock)) \div 1024) * 1024

adjgpsweek(rtcm, week) ==
  LET now == WeekOf(utc2gpst(rtcm.clock))
      w == IF now < 1560 THEN 1560 ELSE now
  IN  week + Cdiv(w - week + 512, 1024) * 1024

Bdt0Week == 1356      \* 2006/1/1, the first week of BeiDou time, in GPS weeks
bdt2time(week, sec) == gpst2time(Bdt0Week + week, sec)
adjbdtweek(rtcm, week) ==
  LET now == WeekOf(gpst2bdt(utc2gpst(rtcm.clock))) - Bdt0Week
      w == IF now < 1 THEN 1 ELSE now
  IN  week + Cdiv(w - week + 512, 1024) * 1024

-----------------------------------------------------------------------------
(* Lock times and carrier phases.                                          *)

\* Mutant of locktime: the loss of lock indicator is not looked at.
locktimeOn(time, lltime, LLI) == IF lltime = 0 THEN time ELSE lltime

\* Both of the sender: since when a signal is in lock.
locktime(time, lltime, LLI) ==
  IF lltime = 0 \/ LLI % 2 = 1 THEN time ELSE lltime

to_lock(lock) ==
  IF lock < 0 THEN 0
  ELSE IF lock < 24 THEN lock
  ELSE IF lock < 72 THEN (lock + 24) \div 2
  ELSE IF lock < 168 THEN (lock + 120) \div 4
  ELSE IF lock < 360 THEN (lock + 408) \div 8
  ELSE IF lock < 744 THEN (lock + 1176) \div 16
  ELSE IF lock < 937 THEN (lock + 3096) \div 32
  ELSE 127

\* The number of bounds, in milliseconds, that a lock time has reached.
MsmLockBounds == {32 * 2^k : k \in 0 .. 14}
to_msm_lock(lock) == Cardinality({b \in MsmLockBounds : lock * 1000 >= b})

\* From 64 ms on the resolution is halved every time the bound is doubled.
to_msm_lock_ex(lock) ==
  LET ms == lock * 1000
      k == CHOOSE k \in 0 .. 20 : ms < 64 * 2^k /\ (k > 0 => ms >= 32 * 2^k)
  IN  CASE lock < 0          -> 0
        [] lock \in 0..67108 -> 32 * k + ms \div 2^k
        [] OTHER             -> 704

\* Mutant of lossoflock: a lock time that stays the same is a slip.
lossoflockSame(rtcm, sat, freq, lock) ==
  LET prev == rtcm.lock[sat][freq]
  IN  [lli  |-> IF lock <= prev THEN 1 ELSE 0,
       rtcm |-> [rtcm EXCEPT !.lock[sat][freq] = lock]]

lossoflock(rtcm, sat, freq, lock) ==
  LET prev == rtcm.lock[sat][freq]
  IN  [lli  |-> IF (lock = 0 /\ prev = 0) \/ lock < prev THEN 1 ELSE 0,
       rtcm |-> [rtcm EXCEPT !.lock[sat][freq] = lock]]

\* fmod has the sign of its first argument, so the result is in
\* -3 * Half .. Half - 1.
Fmod(a, b) == IF a < 0 THEN -((-a) % b) ELSE a % b
cp_pr(cp) == Fmod(cp + Half, 2 * Half) - Half

\* The signed field of 20 bits, of 0.5 mm each, that the phase has in the
\* legacy types holds this many cycles of L1 and of L2 on either side.
FieldHalf == <<1378, 1074>>
InField(k, ppr) == ((ppr + FieldHalf[k + 1]) % (2 * FieldHalf[k + 1])) - FieldHalf[k + 1]

adjcp(rtcm, sat, freq, cp) ==
  LET prev == rtcm.cp[sat][freq]
      near == IF prev = 0 THEN cp ELSE Near(cp, prev, 2 * Half)
  IN  [cp |-> near, rtcm |-> [rtcm EXCEPT !.cp[sat][freq] = near]]

-----------------------------------------------------------------------------
(* Signals.                                                                *)

\* The code of "8I" is missing from the table, so it is of no frequency.
Freq1 == {"1C", "1P", "1W", "1Y", "1M", "1N", "1S", "1L", "1E", "1A", "1B",
          "1X", "1Z", "1I", "1Q"}
Freq2 == {"2C", "2D", "2S", "2L", "2X", "2P", "2W", "2Y", "2M", "2N", "2I", "2Q"}
Freq3 == {"5I", "5Q", "5X", "3I", "3Q", "3X"}
Freq4 == {"6A", "6B", "6C", "6X", "6Z", "6S", "6L", "6I", "6Q"}
Freq5 == {"7I", "7Q", "7X"}
Freq6 == {"8L", "8Q", "8X"}

code2obs(code) ==
  CASE code \in Freq1 -> 1 [] code \in Freq2 -> 2 [] code \in Freq3 -> 3
    [] code \in Freq4 -> 4 [] code \in Freq5 -> 5 [] code \in Freq6 -> 6
    [] OTHER -> 0

BeidouFreq(sys, freq) ==
  CASE sys = "CMP" /\ freq = 5 -> 2
    [] sys = "CMP" /\ freq = 4 -> 3
    [] OTHER -> freq

\* The signals of the MSM of a system, in the order of their ids.
msm_sig == [
  GPS |-> <<"1C", "1P", "1W", "1Y", "1M", "2C", "2P", "2W", "2Y", "2M",
            "2S", "2L", "2X", "5I", "5Q", "5X", "1S", "1L", "1X">>,
  GLO |-> <<"1C", "1P", "2C", "2P", "3I", "3Q", "3X">>,
  GAL |-> <<"1C", "1A", "1B", "1X", "1Z", "6C", "6A", "6B", "6X", "6Z",
            "7I", "7Q", "7X", "8I", "8Q", "8X", "5I", "5Q", "5X">>,
  QZS |-> <<"1C", "6S", "6L", "6X", "2S", "2L", "2X", "5I", "5Q", "5X",
            "1S", "1L", "1X">>,
  SBS |-> <<"1C", "5I", "5Q", "5X">>,
  CMP |-> <<"1I", "1Q", "1X", "6I", "6Q", "6X", "7I", "7Q", "7X">>]

\* The codes of a system in the order of codepris, for those with a choice.
codepris == [
  GPS |-> <<"1C", "1P", "1Y", "1W", "1M", "1N", "1S", "1L",
            "2P", "2Y", "2W", "2C", "2M", "2N", "2D", "2S", "2L", "2X",
            "5I", "5Q", "5X">>,
  GLO |-> <<"1P", "1C", "2P", "2C", "3I", "3Q", "3X">>,
  GAL |-> <<"1C", "1A", "1B", "1X", "1Z", "5I", "5Q", "5X",
            "6A", "6B", "6C", "6X", "6Z", "7I", "7Q", "7X", "8I", "8Q", "8X">>,
  QZS |-> <<"1C", "1S", "1L", "1X", "1Z", "2S", "2L", "2X", "5I", "5Q", "5X",
            "6S", "6L", "6X">>,
  SBS |-> <<"1C", "5I", "5Q", "5X">>,
  CMP |-> <<"1I", "1Q", "1X", "7I", "7Q", "7X", "6I", "6Q", "6X">>]

PlaceIn(seq, x) == CHOOSE i \in DOMAIN seq : seq[i] = x

\* The option string selects one signal of a system: opt.sig[sys], "" if none.
getcodepri(sys, code, opt) ==
  CASE opt.sig[sys] # "" /\ code2obs(opt.sig[sys]) = code2obs(code) ->
         IF opt.sig[sys] = code THEN 100 ELSE 0
    [] code \in ToSet(codepris[sys]) -> 99 - PlaceIn(codepris[sys], code)
    [] OTHER -> 0

\* An eph_t or geph_t of every system knows the wavelength of its carriers
\* but GLONASS, where it comes with the ephemeris of the satellite.
satwavelen(rtcm, sat) == satsys(sat) # "GLO" \/ rtcm.geph[sat].sat = sat

-----------------------------------------------------------------------------
(* The structure and its buffer.                                           *)

NoPhase == -1000000
NoRange == [at |-> 0, staid |-> 0]
NoEph == [sat |-> NoSat, iode |-> -1, iodc |-> -1, toe |-> 0, toc |-> 0,
          ttr |-> 0, code |-> 0, svh |-> 0, body |-> 0]
NoGeph == [sat |-> NoSat, iode |-> -1, frq |-> 0, svh |-> 0, tof |-> 0,
           toe |-> 0, body |-> 0]
NoSsr == [t0 |-> [k \in 0 .. 4 |-> 0], udi |-> [k \in 0 .. 4 |-> 0],
          iod |-> [k \in 0 .. 4 |-> 0], iode |-> 0, orbit |-> 0, clock |-> 0,
          c2 |-> 0, cbias |-> <<>>, ura |-> 0, hrclk |-> 0, refd |-> 0,
          update |-> FALSE]
NoSta == [pos |-> 0, hgt |-> 0, antdes |-> 0, antsno |-> 0, rec |-> 0]
NoOpt == [staid |-> -1, ephall |-> FALSE, rtinp |-> FALSE,
          sig |-> [s \in Systems |-> ""]]

\* opt is set after init_rtcm by the program; clock is no field of rtcm_t.
init_rtcm == [
  time |-> 0, clock |-> 0, opt |-> NoOpt, staid |-> 0, obsflag |-> FALSE,
  obs |-> <<>>, obstime |-> 0,
  cp |-> [s \in Sats |-> [k \in Slots |-> 0]],
  lock |-> [s \in Sats |-> [k \in Slots |-> 0]],
  lltime |-> [s \in Sats |-> [k \in Slots |-> 0]],
  eph |-> [s \in Sats |-> NoEph], geph |-> [s \in Sats |-> NoGeph],
  ephsat |-> NoSat, ssr |-> [s \in Sats |-> NoSsr], sta |-> NoSta]

NoObs(time, sat) ==
  [sat |-> sat, time |-> time, code |-> [k \in Slots |-> ""],
   P |-> [k \in Slots |-> NoRange], L |-> [k \in Slots |-> NoPhase],
   LLI |-> [k \in Slots |-> 0]]

\* Mutant of obsindex: one element too many.
obsindexOver(rtcm, sat) ==
  LET old == {i \in DOMAIN rtcm.obs : rtcm.obs[i].sat = sat}
  IN  IF old # {} THEN [index |-> CHOOSE i \in old : TRUE, rtcm |-> rtcm]
      ELSE IF Len(rtcm.obs) > MAXOBS THEN [index |-> 0, rtcm |-> rtcm]
      ELSE [index |-> Len(rtcm.obs) + 1,
            rtcm |-> [rtcm EXCEPT
              !.obs = Append(@, NoObs(rtcm.time, sat)),
              !.obstime = IF rtcm.obs = <<>> THEN rtcm.time ELSE @]]

\* The place of a satellite in the buffer, 0 for "overflow".
obsindex(rtcm, sat) ==
  LET old == {i \in DOMAIN rtcm.obs : rtcm.obs[i].sat = sat}
  IN  IF old # {} THEN [index |-> CHOOSE i \in old : TRUE, rtcm |-> rtcm]
      ELSE IF Len(rtcm.obs) >= MAXOBS THEN [index |-> 0, rtcm |-> rtcm]
      ELSE [index |-> Len(rtcm.obs) + 1,
            rtcm |-> [rtcm EXCEPT
              !.obs = Append(@, NoObs(rtcm.time, sat)),
              !.obstime = IF rtcm.obs = <<>> THEN rtcm.time ELSE @]]

\* Mutant of ClearOldEpoch: only a complete epoch is thrown away.
ClearCompleteEpoch(rtcm) ==
  IF rtcm.obsflag THEN [rtcm EXCEPT !.obs = <<>>, !.obsflag = FALSE] ELSE rtcm

\* The buffer is emptied by the first satellite of a new epoch.  The time
\* of its first element outlives it.
ClearOldEpoch(rtcm) ==
  IF rtcm.obsflag \/ rtcm.obstime # rtcm.time
  THEN [rtcm EXCEPT !.obs = <<>>, !.obsflag = FALSE]
  ELSE rtcm
=============================================================================
