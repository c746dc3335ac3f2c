---------------------------- MODULE RtklibDecoder ----------------------------
(***************************************************************************)
(* The decoder of RTCM 3 in src/c/rtklib (rtcm3.c and input_rtcm3 of       *)
(* rtcm.c), from a frame to the rtcm_t it leaves behind.                   *)
(*                                                                         *)
(* A message is the record of its fields; len is its length in bytes with  *)
(* the 3 of the header, against which the code tests every length.  The    *)
(* return values are those of the code: -1 error, 0 nothing to hand over,  *)
(* 1 observations, 2 an ephemeris, 5 the station, 10 SSR corrections.      *)
(***************************************************************************)
EXTENDS Rtklib

Error(rtcm) == [ret |-> -1, rtcm |-> rtcm]
Nothing(rtcm) == [ret |-> 0, rtcm |-> rtcm]

\* bits counts from the end of the 24 bits of the frame's header.
Fits(msg, bits) == 24 + bits <= 8 * msg.len

\* Mutant of test_staid: every station is taken in the middle of an epoch.
test_staidAny(rtcm, staid) ==
  LET wanted == rtcm.opt.staid = -1 \/ rtcm.opt.staid = staid
  IN  [ok |-> wanted, rtcm |-> IF wanted THEN [rtcm EXCEPT !.staid = staid] ELSE rtcm]

test_staid(rtcm, staid) ==
  LET wanted == rtcm.opt.staid = -1 \/ rtcm.opt.staid = staid
      free == rtcm.staid = 0 \/ rtcm.obsflag
      same == rtcm.staid = staid
  IN  [ok   |-> wanted /\ (free \/ same),
       rtcm |-> CASE ~wanted        -> rtcm
                  [] wanted /\ free -> [rtcm EXCEPT !.staid = staid]
                  [] OTHER          -> [rtcm EXCEPT !.staid = IF same THEN @ ELSE 0]]

\* Mutant of HandOver: the flag of a message that follows is not looked at.
HandOverEach(rtcm, sync) == [ret |-> 1, rtcm |-> rtcm]

\* What every type of observations ends with.
HandOver(rtcm, sync) == [ret |-> IF sync THEN 0 ELSE 1, rtcm |-> rtcm]
EndOfEpoch(rtcm, sync) == HandOver([rtcm EXCEPT !.obsflag = ~sync], sync)

-----------------------------------------------------------------------------
(* Legacy observations.                                                    *)

decode_head1001(rtcm, msg) ==
  LET t == test_staid(rtcm, msg.staid)
  IN  CASE ~Fits(msg, 64) -> Error(rtcm)
        [] Fits(msg, 64) /\ ~t.ok -> Error(t.rtcm)
        [] OTHER -> Nothing(adjweek(t.rtcm, msg.epoch))

decode_head1009(rtcm, msg) ==
  LET t == test_staid(rtcm, msg.staid)
  IN  CASE ~Fits(msg, 61) -> Error(rtcm)
        [] Fits(msg, 61) /\ ~t.ok -> Error(t.rtcm)
        [] OTHER -> Nothing(adjday_glot(t.rtcm, msg.epoch))

L2codes == <<"2X", "2P", "2D", "2W">>

GpsSat(prn) == IF prn < 40 THEN satno("GPS", prn) ELSE satno("SBS", prn + 80)

\* One frequency of a satellite: f is [P, ppr, lock, code].  The L1 range is
\* kept only beside a phase.
SaveFreq(rtcm, index, k, f) ==
  LET sat == rtcm.obs[index].sat
      phase == f.ppr # NoPhase
      a == IF phase THEN adjcp(rtcm, sat, k, f.ppr) ELSE [cp |-> NoPhase, rtcm |-> rtcm]
      l == lossoflock(a.rtcm, sat, k, f.lock)
      range == f.P # NoRange /\ (k = 0 => phase)
      data == [rtcm.obs[index] EXCEPT !.P[k] = IF range THEN f.P ELSE @,
                                      !.L[k] = IF phase THEN a.cp ELSE @,
                                      !.LLI[k] = l.lli, !.code[k] = f.code]
  IN  [l.rtcm EXCEPT !.obs[index] = data]

SaveSat(rtcm, sat, freqs) ==
  LET x == obsindex(ClearOldEpoch(rtcm), sat)
  IN  IF x.index = 0 THEN x.rtcm
      ELSE FoldLeft(LAMBDA r, k : SaveFreq(r, x.index, k - 1, freqs[k]),
                    x.rtcm, [k \in DOMAIN freqs |-> k])

\* The loop of types 1002, 1004, 1010 and 1012: it ends when the buffer is
\* full, and skips a satellite the library does not know.
SaveSats(rtcm, msg, head, bits, sats, freqs) ==
  LET room == {j \in 1 .. Len(msg.sats) : j <= msg.nsat /\ Fits(msg, head + bits * j)}
      Step(r, j) == IF Len(r.obs) >= MAXOBS \/ sats[j] = NoSat THEN r
                    ELSE SaveSat(r, sats[j], freqs[j])
  IN  FoldLeft(Step, rtcm, [j \in 1 .. Cardinality(room) |-> j])

GpsL1(c) == [c.f[1] EXCEPT !.code = IF @ = 1 THEN "1P" ELSE "1C"]
GpsL2(c) == [c.f[2] EXCEPT !.code = L2codes[@ + 1]]
GloL1(c) == [c.f[1] EXCEPT !.code = IF @ = 1 THEN "1P" ELSE "1C"]
GloL2(c) == [c.f[2] EXCEPT !.code = IF @ = 1 THEN "2P" ELSE "2C"]
GloSat(prn) == satno("GLO", prn)
GpsSats(msg) == [j \in DOMAIN msg.sats |-> GpsSat(msg.sats[j].prn)]
GloSats(msg) == [j \in DOMAIN msg.sats |-> GloSat(msg.sats[j].prn)]

decode_type1001(rtcm, msg) ==
  LET h == decode_head1001(rtcm, msg)
  IN  IF h.ret < 0 THEN h ELSE EndOfEpoch(h.rtcm, msg.sync)
decode_type1003(rtcm, msg) ==
  LET h == decode_head1001(rtcm, msg)
  IN  IF h.ret < 0 THEN h ELSE EndOfEpoch(h.rtcm, msg.sync)
decode_type1009(rtcm, msg) ==
  LET h == decode_head1009(rtcm, msg)
  IN  IF h.ret < 0 THEN h ELSE EndOfEpoch(h.rtcm, msg.sync)
decode_type1011(rtcm, msg) ==
  LET h == decode_head1009(rtcm, msg)
  IN  IF h.ret < 0 THEN h ELSE EndOfEpoch(h.rtcm, msg.sync)

\* The two types of one frequency leave obsflag as it is.
decode_type1002(rtcm, msg) ==
  LET h == decode_head1001(rtcm, msg)
      freqs == [j \in DOMAIN msg.sats |-> <<GpsL1(msg.sats[j])>>]
  IN  IF h.ret < 0 THEN h
      ELSE HandOver(SaveSats(h.rtcm, msg, 64, 74, GpsSats(msg), freqs), msg.sync)
decode_type1010(rtcm, msg) ==
  LET h == decode_head1009(rtcm, msg)
      freqs == [j \in DOMAIN msg.sats |-> <<GloL1(msg.sats[j])>>]
  IN  IF h.ret < 0 THEN h
      ELSE HandOver(SaveSats(h.rtcm, msg, 61, 79, GloSats(msg), freqs), msg.sync)

decode_type1004(rtcm, msg) ==
  LET h == decode_head1001(rtcm, msg)
      freqs == [j \in DOMAIN msg.sats |-> <<GpsL1(msg.sats[j]), GpsL2(msg.sats[j])>>]
  IN  IF h.ret < 0 THEN h
      ELSE EndOfEpoch(SaveSats(h.rtcm, msg, 64, 125, GpsSats(msg), freqs), msg.sync)
decode_type1012(rtcm, msg) ==
  LET h == decode_head1009(rtcm, msg)
      freqs == [j \in DOMAIN msg.sats |-> <<GloL1(msg.sats[j]), GloL2(msg.sats[j])>>]
  IN  IF h.ret < 0 THEN h
      ELSE EndOfEpoch(SaveSats(h.rtcm, msg, 61, 130, GloSats(msg), freqs), msg.sync)

-----------------------------------------------------------------------------
(* Multiple signal messages.                                               *)

decode_msm_head(rtcm, msg, sys) ==
  LET timed == CASE sys = "GLO" -> adjday_glot(rtcm, msg.epoch)
                 [] sys = "CMP" -> adjweek(rtcm, msg.epoch + 14)
                 [] OTHER       -> adjweek(rtcm, msg.epoch)
      t == test_staid(timed, msg.staid)
      mask == Len(msg.sats) * Len(msg.sigs)
  IN  CASE ~Fits(msg, 169) -> Error(rtcm)
        [] Fits(msg, 169) /\ (~t.ok \/ mask > 64 \/ ~Fits(msg, 169 + mask)) -> Error(t.rtcm)
        [] OTHER -> Nothing(t.rtcm)

decode_msm0(rtcm, msg, sys) ==
  LET h == decode_msm_head(rtcm, msg, sys)
  IN  IF h.ret < 0 THEN h ELSE EndOfEpoch(h.rtcm, msg.sync)

\* The slots of signals, by their frequencies and priorities.  The best of a
\* frequency has the frequency's own slot, the others share NEXOBS more, and
\* -1 is "no space" or a signal that the library has no code for.
SlotOfEach(freq, pri) ==
  LET N == DOMAIN freq
      Beats(i, j) == pri[i] > pri[j] \/ (pri[i] = pri[j] /\ i <= j)
      coded == {i \in N : freq[i] > 0}
      best == {i \in coded : /\ freq[i] <= NFREQ /\ pri[i] > 0
                             /\ \A j \in N : freq[j] = freq[i] => Beats(i, j)}
      nex == [i \in N |-> Cardinality({j \in coded \ best : j < i})]
  IN  [i \in N |-> CASE i \in best -> freq[i] - 1
                     [] i \in coded \ best /\ nex[i] < NEXOBS -> NFREQ + nex[i]
                     [] OTHER -> -1]
sigindex(sys, sigs, opt) ==
  SlotOfEach([i \in DOMAIN sigs |-> BeidouFreq(sys, code2obs(sigs[i]))],
             [i \in DOMAIN sigs |-> getcodepri(sys, sigs[i], opt)])

\* A half cycle ambiguity adds 3 to the loss of lock indicator.
SaveCell(rtcm, index, slot, code, c, wl) ==
  LET l == lossoflock(rtcm, rtcm.obs[index].sat, slot, c.lock)
      data == [rtcm.obs[index] EXCEPT !.P[slot] = IF c.P # NoRange THEN c.P ELSE @,
                                      !.L[slot] = IF c.L # NoPhase /\ wl THEN c.L ELSE @,
                                      !.LLI[slot] = l.lli + (IF c.half THEN 3 ELSE 0),
                                      !.code[slot] = code]
  IN  [l.rtcm EXCEPT !.obs[index] = data]

MsmPrn(sys, id) ==
  CASE sys = "QZS" -> id + 192 [] sys = "SBS" -> id + 119 [] OTHER -> id

MsmSat(msg, sys, i) == satno(sys, MsmPrn(sys, msg.sats[i]))

\* The cells of the i-th satellite; ind has the slots of the message's signals.
SaveCells(rtcm, msg, sys, ind, i, index) ==
  LET \* the carrier of a GLONASS satellite is known from MSM5 and 7 too
      Known(r) == satwavelen(r, MsmSat(msg, sys, i)) \/ msg.info[i] \in 0 .. 13
  IN  FoldLeft(LAMBDA r, k :
                 IF <<i, k>> \in DOMAIN msg.cells /\ ind[k] >= 0
                 THEN SaveCell(r, index, ind[k], msg.sigs[k], msg.cells[<<i, k>>], Known(r))
                 ELSE r,
               rtcm, [k \in DOMAIN msg.sigs |-> k])

save_msm_obs(rtcm, msg, sys, ind) ==
  LET Step(r, i) ==
        LET sat == MsmSat(msg, sys, i)
            x == obsindex(ClearOldEpoch(r), sat)
        IN  CASE sat = NoSat -> r
              [] sat # NoSat /\ x.index = 0 -> x.rtcm
              [] OTHER -> SaveCells(x.rtcm, msg, sys, ind, i, x.index)
  IN  FoldLeft(Step, rtcm, [i \in DOMAIN msg.sats |-> i])

DecodeMsm(rtcm, msg, sys, satbits, cellbits) ==
  LET h == decode_msm_head(rtcm, msg, sys)
      data == Len(msg.sats) * satbits + Cardinality(DOMAIN msg.cells) * cellbits
      head == 169 + Len(msg.sats) * Len(msg.sigs)
  IN  CASE h.ret < 0 -> h
        [] h.ret >= 0 /\ ~Fits(msg, head + data) -> Error(h.rtcm)
        [] OTHER -> EndOfEpoch(save_msm_obs(h.rtcm, msg, sys, sigindex(sys, msg.sigs, h.rtcm.opt)),
                              msg.sync)

decode_msm4(rtcm, msg, sys) == DecodeMsm(rtcm, msg, sys, 18, 48)
decode_msm5(rtcm, msg, sys) == DecodeMsm(rtcm, msg, sys, 36, 63)
decode_msm6(rtcm, msg, sys) == DecodeMsm(rtcm, msg, sys, 18, 65)
decode_msm7(rtcm, msg, sys) == DecodeMsm(rtcm, msg, sys, 36, 80)

-----------------------------------------------------------------------------
(* The station.                                                            *)

\* Every message of the station is refused when it is of another station.
Station(rtcm, msg, bits, sta) ==
  LET t == test_staid(rtcm, msg.staid)
  IN  CASE ~Fits(msg, bits) -> Error(rtcm)
        [] Fits(msg, bits) /\ ~t.ok -> Error(t.rtcm)
        [] OTHER -> [ret |-> 5, rtcm |-> [t.rtcm EXCEPT !.sta = sta]]

\* The length must be that of the message exactly.
decode_type1005(rtcm, msg) ==
  IF 24 + 152 # 8 * msg.len THEN Error(rtcm)
  ELSE Station(rtcm, msg, 152, [rtcm.sta EXCEPT !.pos = msg.pos, !.hgt = 0])
decode_type1006(rtcm, msg) ==
  Station(rtcm, msg, 168, [rtcm.sta EXCEPT !.pos = msg.pos, !.hgt = msg.hgt])
decode_type1007(rtcm, msg) ==
  Station(rtcm, msg, 40 + 8 * msg.chars,
          [rtcm.sta EXCEPT !.antdes = msg.antdes, !.antsno = 0])
decode_type1008(rtcm, msg) ==
  Station(rtcm, msg, 48 + 8 * msg.chars,
          [rtcm.sta EXCEPT !.antdes = msg.antdes, !.antsno = msg.antsno])
decode_type1033(rtcm, msg) ==
  Station(rtcm, msg, 72 + 8 * msg.chars,
          [rtcm.sta EXCEPT !.antdes = msg.antdes, !.antsno = msg.antsno, !.rec = msg.rec])

-----------------------------------------------------------------------------
(* Ephemerides.  "Unchanged" ones are dropped unless option -EPHALL is set. *)

SaveEph(rtcm, msg, bits, sat, eph, unchanged) ==
  CASE ~Fits(msg, bits) \/ sat = NoSat -> Error(rtcm)
    [] Fits(msg, bits) /\ sat # NoSat /\ ~rtcm.opt.ephall /\ unchanged -> Nothing(rtcm)
    [] OTHER -> [ret |-> 2, rtcm |-> [rtcm EXCEPT !.eph[sat] = eph, !.ephsat = sat]]

EphOf(rtcm, msg, sat, toe, toc, code) ==
  [sat |-> sat, iode |-> msg.iode, iodc |-> msg.iodc, toe |-> toe, toc |-> toc,
   ttr |-> rtcm.time, code |-> code, svh |-> msg.svh, body |-> msg.body]

decode_type1019(rtcm, msg) ==
  LET sat == GpsSat(msg.prn)
      week == adjgpsweek(rtcm, msg.week)
  IN  SaveEph(rtcm, msg, 488, sat,
        EphOf(rtcm, msg, sat, gpst2time(week, msg.toes), gpst2time(week, msg.tocs), msg.code),
        sat # NoSat /\ msg.iode = rtcm.eph[sat].iode)
decode_type1044(rtcm, msg) ==
  LET sat == satno("QZS", msg.prn + 192)
      week == adjgpsweek(rtcm, msg.week)
  IN  SaveEph(rtcm, msg, 485, sat,
        EphOf(rtcm, msg, sat, gpst2time(week, msg.toes), gpst2time(week, msg.tocs), msg.code),
        sat # NoSat /\ msg.iode = rtcm.eph[sat].iode /\ msg.iodc = rtcm.eph[sat].iodc)

\* Galileo weeks need no clock, and there is no iodc.  F/NAV is code 1 and I/NAV is code 0.
GalEph(rtcm, msg, bits, code) ==
  LET sat == satno("GAL", msg.prn)
      week == msg.week + 1024
  IN  SaveEph(rtcm, msg, bits, sat,
        EphOf(rtcm, [msg EXCEPT !.iodc = 0], sat, gpst2time(week, msg.toes),
              gpst2time(week, msg.tocs), code),
        sat # NoSat /\ msg.iode = rtcm.eph[sat].iode)
decode_type1045(rtcm, msg) == GalEph(rtcm, msg, 496, 1)
decode_type1046(rtcm, msg) == GalEph(rtcm, msg, 504, 0)

\* Types 1042 and 63.
decode_type1042(rtcm, msg) ==
  LET sat == satno("CMP", msg.prn)
      week == adjbdtweek(rtcm, msg.week)
      toe == bdt2gpst(bdt2time(week, msg.toes))
      toc == bdt2gpst(bdt2time(week, msg.tocs))
  IN  SaveEph(rtcm, msg, 511, sat, EphOf(rtcm, msg, sat, toe, toc, 0),
        /\ sat # NoSat
        /\ toe = rtcm.eph[sat].toe
        /\ msg.iode = rtcm.eph[sat].iode
        /\ msg.iodc = rtcm.eph[sat].iodc)

\* GLONASS sends times of day, which become times near that of the receiver.
decode_type1020(rtcm, msg) ==
  LET sat == satno("GLO", msg.prn)
      r == StartClock(rtcm)
      utc == gpst2utc(r.time)
      tod == Tow(utc) % Day
      Full(x) == utc2gpst(utc - tod + Near(x - MoscowOffset, tod, Day))
      geph == [sat |-> sat, iode |-> msg.tb, frq |-> msg.frq, svh |-> msg.svh,
               tof |-> Full(msg.tk), toe |-> Full(msg.tb * 900), body |-> msg.body]
  IN  CASE ~Fits(msg, 360) \/ sat = NoSat -> Error(rtcm)
        [] Fits(msg, 360) /\ sat # NoSat /\ ~rtcm.opt.ephall
           /\ geph.toe = rtcm.geph[sat].toe /\ geph.svh = rtcm.geph[sat].svh -> Nothing(r)
        [] OTHER -> [ret |-> 2, rtcm |-> [r EXCEPT !.geph[sat] = geph, !.ephsat = sat]]

-----------------------------------------------------------------------------
(* SSR corrections.  They name no station.                                 *)

ssrudint == <<1, 2, 5, 10, 15, 30, 60, 120, 240, 300, 600, 900, 1800, 3600, 7200, 10800>>

\* The bits of a satellite's number, of an iode and of its crc, and the
\* number before the first.
SsrSizes == [
  GPS |-> [np |-> 6, ni |-> 8, nj |-> 0, offp |-> 0],
  GLO |-> [np |-> 5, ni |-> 8, nj |-> 0, offp |-> 0],
  GAL |-> [np |-> 6, ni |-> 10, nj |-> 0, offp |-> 0],
  QZS |-> [np |-> 4, ni |-> 8, nj |-> 0, offp |-> 192],
  CMP |-> [np |-> 6, ni |-> 10, nj |-> 24, offp |-> 1],
  SBS |-> [np |-> 6, ni |-> 9, nj |-> 24, offp |-> 120]]

SsrHeadBits(sys, refd) ==
  12 + (IF sys = "GLO" THEN 17 ELSE 20) + refd + 29 + (IF sys = "QZS" THEN 4 ELSE 6)

SsrTime(rtcm, msg, sys) ==
  IF sys = "GLO" THEN adjday_glot(rtcm, msg.epoch) ELSE adjweek(rtcm, msg.epoch)
decode_ssr1_head(rtcm, msg, sys) ==
  IF Fits(msg, SsrHeadBits(sys, 1)) THEN Nothing(SsrTime(rtcm, msg, sys)) ELSE Error(rtcm)
decode_ssr2_head(rtcm, msg, sys) ==
  IF Fits(msg, SsrHeadBits(sys, 0)) THEN Nothing(SsrTime(rtcm, msg, sys)) ELSE Error(rtcm)

\* Time, update interval and issue of the kinds of correction in a message.
Issue(ssr, rtcm, msg, kinds) ==
  [ssr EXCEPT
    !.t0  = [k \in 0 .. 4 |-> IF k \in kinds THEN rtcm.time ELSE @[k]],
    !.udi = [k \in 0 .. 4 |-> IF k \in kinds THEN ssrudint[msg.udi + 1] ELSE @[k]],
    !.iod = [k \in 0 .. 4 |-> IF k \in kinds THEN msg.iod ELSE @[k]],
    !.update = TRUE]

SsrSat(msg, sys, j) == satno(sys, msg.sats[j].id + SsrSizes[sys].offp)

\* saved has what of each satellite in the message is kept beside that.
SaveSsr(head, msg, sys, bits, kinds, saved) ==
  LET Step(r, j) ==
        LET sat == SsrSat(msg, sys, j)
        IN  IF sat = NoSat THEN r
            ELSE [r EXCEPT !.ssr[sat] = Joined(saved[j], Issue(r.ssr[sat], r, msg, kinds))]
      size == SsrHeadBits(sys, IF msg.kind \in {1, 4} THEN 1 ELSE 0)
      room == {j \in 1 .. Len(msg.sats) : j <= msg.nsat /\ Fits(msg, size + bits * j)}
  IN  IF head.ret < 0 THEN head
      ELSE [ret  |-> IF msg.sync THEN 0 ELSE 10,
            rtcm |-> FoldLeft(Step, head.rtcm, [j \in 1 .. Cardinality(room) |-> j])]

\* What the messages with orbits, with clocks and with the others bring.
Orbits(msg) ==
  [j \in DOMAIN msg.sats |->
    [iode |-> msg.sats[j].iode, orbit |-> msg.sats[j].orbit, refd |-> msg.refd]]
Clocks(msg) ==
  [j \in DOMAIN msg.sats |-> [clock |-> msg.sats[j].clock, c2 |-> 2 * msg.sats[j].c2]]
Both(msg) == [j \in DOMAIN msg.sats |-> Joined(Orbits(msg)[j], Clocks(msg)[j])]

OrbitBits(sys) == SsrSizes[sys].np + SsrSizes[sys].ni + SsrSizes[sys].nj

decode_ssr1(rtcm, msg, sys) ==
  SaveSsr(decode_ssr1_head(rtcm, msg, sys), msg, sys, 121 + OrbitBits(sys), {0}, Orbits(msg))
decode_ssr2(rtcm, msg, sys) ==
  SaveSsr(decode_ssr2_head(rtcm, msg, sys), msg, sys, 70 + SsrSizes[sys].np, {1}, Clocks(msg))
\* Mutant of decode_ssr4: only the orbit gets the issue.
decode_ssr4Orbit(rtcm, msg, sys) ==
  SaveSsr(decode_ssr1_head(rtcm, msg, sys), msg, sys, 191 + OrbitBits(sys), {0}, Both(msg))

decode_ssr4(rtcm, msg, sys) ==
  SaveSsr(decode_ssr1_head(rtcm, msg, sys), msg, sys, 191 + OrbitBits(sys), {0, 1}, Both(msg))
decode_ssr5(rtcm, msg, sys) ==
  SaveSsr(decode_ssr2_head(rtcm, msg, sys), msg, sys, 6 + SsrSizes[sys].np, {3},
          [j \in DOMAIN msg.sats |-> [ura |-> msg.sats[j].ura]])
decode_ssr6(rtcm, msg, sys) ==
  SaveSsr(decode_ssr2_head(rtcm, msg, sys), msg, sys, 22 + SsrSizes[sys].np, {2},
          [j \in DOMAIN msg.sats |-> [hrclk |-> msg.sats[j].hrclk]])

\* The biases of a satellite are of any number, so its size varies; what the
\* message does not name is set to 0.
BiasBits(sys, sats) ==
  FoldLeft(LAMBDA n, c : n + 5 + SsrSizes[sys].np + 19 * Len(c.cbias), 0, sats)
decode_ssr3(rtcm, msg, sys) ==
  LET h == decode_ssr2_head(rtcm, msg, sys)
      Whole(j) == /\ j <= msg.nsat
                  /\ Fits(msg, SsrHeadBits(sys, 0) + BiasBits(sys, SubSeq(msg.sats, 1, j)))
      n == Cardinality({j \in 1 .. Len(msg.sats) : Whole(j)})
  IN  SaveSsr(h, [msg EXCEPT !.nsat = n], msg.sys, 0, {4},
              [j \in DOMAIN msg.sats |-> [cbias |-> msg.sats[j].cbias]])

-----------------------------------------------------------------------------
(* Dispatch.                                                               *)

MsmTypes == [GPS |-> 1070, GLO |-> 1080, GAL |-> 1090, SBS |-> 1100, QZS |-> 1110, CMP |-> 1120]
SsrTypes == [GPS |-> 1056, GLO |-> 1062, GAL |-> 1239, QZS |-> 1245, SBS |-> 1251, CMP |-> 1257]

decode_msm(rtcm, msg, sys, kind) ==
  CASE kind \in 1 .. 3 -> decode_msm0(rtcm, msg, sys)
    [] kind = 4 -> decode_msm4(rtcm, msg, sys)
    [] kind = 5 -> decode_msm5(rtcm, msg, sys)
    [] kind = 6 -> decode_msm6(rtcm, msg, sys)
    [] kind = 7 -> decode_msm7(rtcm, msg, sys)

decode_ssr(rtcm, msg, sys, kind) ==
  CASE kind = 1 -> decode_ssr1(rtcm, msg, sys)
    [] kind = 2 -> decode_ssr2(rtcm, msg, sys)
    [] kind = 3 -> decode_ssr3(rtcm, msg, sys)
    [] kind = 4 -> decode_ssr4(rtcm, msg, sys)
    [] kind = 5 -> decode_ssr5(rtcm, msg, sys)
    [] kind = 6 -> decode_ssr6(rtcm, msg, sys)

\* Option -RT_INP takes the time of every message from the clock.  The types
\* that the code names and does not support change nothing, as unknown ones.
decode_rtcm3(rtcm0, msg) ==
  LET rtcm == IF rtcm0.opt.rtinp THEN [rtcm0 EXCEPT !.time = utc2gpst(rtcm0.clock)] ELSE rtcm0
      type == msg.type
      msm == {s \in Systems : type - MsmTypes[s] \in 1 .. 7}
      ssr == {s \in Systems : type - SsrTypes[s] \in 1 .. 6}
  IN  CASE type = 1001 -> decode_type1001(rtcm, msg)
        [] type = 1002 -> decode_type1002(rtcm, msg)
        [] type = 1003 -> decode_type1003(rtcm, msg)
        [] type = 1004 -> decode_type1004(rtcm, msg)
        [] type = 1005 -> decode_type1005(rtcm, msg)
        [] type = 1006 -> decode_type1006(rtcm, msg)
        [] type = 1007 -> decode_type1007(rtcm, msg)
        [] type = 1008 -> decode_type1008(rtcm, msg)
        [] type = 1009 -> decode_type1009(rtcm, msg)
        [] type = 1010 -> decode_type1010(rtcm, msg)
        [] type = 1011 -> decode_type1011(rtcm, msg)
        [] type = 1012 -> decode_type1012(rtcm, msg)
        [] type = 1019 -> decode_type1019(rtcm, msg)
        [] type = 1020 -> decode_type1020(rtcm, msg)
        [] type = 1033 -> decode_type1033(rtcm, msg)
        [] type \in {1042, 63} -> decode_type1042(rtcm, msg)
        [] type = 1044 -> decode_type1044(rtcm, msg)
        [] type = 1045 -> decode_type1045(rtcm, msg)
        [] type = 1046 -> decode_type1046(rtcm, msg)
        [] msm # {} -> decode_msm(rtcm, msg, msg.sys, msg.kind)
        [] ssr # {} -> decode_ssr(rtcm, msg, msg.sys, msg.kind)
        [] OTHER -> Nothing(rtcm)

\* The last byte of a frame: one whose parity is wrong is thrown away whole.
input_rtcm3(rtcm, frame) ==
  IF frame.parity THEN decode_rtcm3(rtcm, frame.msg) ELSE Nothing(rtcm)
=============================================================================
