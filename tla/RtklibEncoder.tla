---------------------------- MODULE RtklibEncoder ----------------------------
(***************************************************************************)
(* The encoder of RTCM 3 in src/c/rtklib (rtcm3e.c and gen_rtcm3 of        *)
(* rtcm.c), from the rtcm_t of a sender to a frame.                        *)
(*                                                                         *)
(* encode_xxx returns the message, without its length, the number of bits  *)
(* after the header and the rtcm_t it leaves, whose lock times and phase   *)
(* offsets it moves on; ret is 0 where the code has nothing to send.       *)
(***************************************************************************)
EXTENDS RtklibDecoder

Refuse(rtcm) == [ret |-> 0, msg |-> [type |-> 0], bits |-> 0, rtcm |-> rtcm]
Accept(rtcm, msg, bits) == [ret |-> 1, msg |-> msg, bits |-> bits, rtcm |-> rtcm]

\* The elements of a finite set in an order: each in the place that as many
\* others come before it.
InOrder(set, Before(_, _)) ==
  [i \in 1 .. Cardinality(set) |->
    CHOOSE x \in set : Cardinality({y \in set : Before(y, x)}) = i - 1]

-----------------------------------------------------------------------------
(* Legacy observations.                                                    *)

fcn_glo(sat, rtcm) ==
  IF satsys(sat) = "GLO" /\ rtcm.geph[sat].sat = sat THEN rtcm.geph[sat].frq + 7 ELSE -1

to_code1_gps(code) == IF code \in {"1P", "1W", "1Y", "1N"} THEN 1 ELSE 0
to_code2_gps(code) ==
  CASE code \in {"2P", "2Y"} -> 1 [] code = "2D" -> 2 [] code \in {"2W", "2N"} -> 3
    [] OTHER -> 0
to_code1_glo(code) == IF code = "1P" THEN 1 ELSE 0
to_code2_glo(code) == IF code = "2P" THEN 1 ELSE 0

\* Both frequencies count as in use, also for the types that send only L1.
LockTimes(rtcm, data) ==
  [rtcm EXCEPT !.lltime[data.sat] = [k \in Slots |->
    IF k \in {0, 1} THEN locktime(data.time, @[k], data.LLI[k]) ELSE @[k]]]

\* The two frequencies of a satellite: whether each value is there at all.
Frequencies(rtcm, data, range1, both, phases, code1, code2) ==
  LET Lock(k) == to_lock(data.time - LockTimes(rtcm, data).lltime[data.sat][k])
      ranged == data.P[0] # NoRange
  IN  << [P    |-> IF ranged /\ range1 THEN data.P[0] ELSE NoRange,
          ppr  |-> IF ranged /\ data.L[0] # NoPhase /\ phases /\ data.code[0] # ""
                   THEN InField(0, cp_pr(data.L[0])) ELSE NoPhase,
          lock |-> Lock(0), code |-> code1],
         [P    |-> IF ranged /\ both THEN data.P[1] ELSE NoRange,
          ppr  |-> IF ranged /\ data.L[1] # NoPhase /\ phases /\ both
                   THEN InField(1, cp_pr(data.L[1])) ELSE NoPhase,
          lock |-> Lock(1), code |-> code2] >>

BothCodes(data) == data.code[0] # "" /\ data.code[1] # ""

gen_obs_gps(rtcm, data) ==
  Frequencies(rtcm, data, data.code[0] # "", BothCodes(data), TRUE,
              to_code1_gps(data.code[0]), to_code2_gps(data.code[1]))
gen_obs_glo(rtcm, data) ==
  Frequencies(rtcm, data, TRUE, BothCodes(data), fcn_glo(data.sat, rtcm) >= 0,
              to_code1_glo(data.code[0]), to_code2_glo(data.code[1]))

EpochOf(time, sys) ==
  CASE sys = "GLO" -> Tow(GlonassDay(time)) % Day
    [] sys = "CMP" -> Tow(gpst2bdt(time))
    [] OTHER       -> Tow(time)

encode_head(type, rtcm, sys, sync, nsat) ==
  [type |-> type, staid |-> rtcm.staid, epoch |-> EpochOf(rtcm.time, sys),
   sync |-> sync, nsat |-> nsat % 32]

GpsPrn(sat) == (IF satsys(sat) = "SBS" THEN sat[2] - 80 ELSE sat[2]) % 64
GloPrn(sat) == sat[2] % 64

\* The observations of some systems, as the buffer has them.
ObsOf(rtcm, systems) ==
  FoldLeft(LAMBDA mine, d : IF satsys(d.sat) \in systems THEN Append(mine, d) ELSE mine,
           <<>>, rtcm.obs)

\* The satellites are counted first.  With MAXOBS of them none is written.
EncodeLegacy(rtcm, type, sys, sync, systems, head, satbits) ==
  LET mine == ObsOf(rtcm, systems)
      nsat == Len(mine)
      sent == IF nsat < MAXOBS THEN mine ELSE <<>>
      Sat(d) == IF sys = "GLO" THEN [prn |-> GloPrn(d.sat), f |-> gen_obs_glo(rtcm, d)]
                ELSE [prn |-> GpsPrn(d.sat), f |-> gen_obs_gps(rtcm, d)]
  IN  Accept(FoldLeft(LockTimes, rtcm, sent),
             Joined(encode_head(type, rtcm, sys, sync, nsat),
                    [sats |-> [j \in DOMAIN sent |-> Sat(sent[j])]]),
             head + satbits * Len(sent))

EncodeGps(rtcm, type, sync, satbits) ==
  EncodeLegacy(rtcm, type, "GPS", sync, {"GPS", "SBS"}, 64, satbits)
EncodeGlo(rtcm, type, sync, satbits) ==
  EncodeLegacy(rtcm, type, "GLO", sync, {"GLO"}, 61, satbits)

encode_type1001(rtcm, sync) == EncodeGps(rtcm, 1001, sync, 58)
encode_type1002(rtcm, sync) == EncodeGps(rtcm, 1002, sync, 74)
encode_type1003(rtcm, sync) == EncodeGps(rtcm, 1003, sync, 101)
encode_type1004(rtcm, sync) == EncodeGps(rtcm, 1004, sync, 125)
encode_type1009(rtcm, sync) == EncodeGlo(rtcm, 1009, sync, 64)
encode_type1010(rtcm, sync) == EncodeGlo(rtcm, 1010, sync, 79)
encode_type1011(rtcm, sync) == EncodeGlo(rtcm, 1011, sync, 107)
encode_type1012(rtcm, sync) == EncodeGlo(rtcm, 1012, sync, 130)

-----------------------------------------------------------------------------
(* The station.  A name is 0 when it is empty, and has at most 31          *)
(* characters: NameChars stands for how many.                              *)

NameChars == 10
Chars(names) == NameChars * Cardinality({i \in DOMAIN names : names[i] # 0})

encode_type1005(rtcm) ==
  Accept(rtcm, [type |-> 1005, staid |-> rtcm.staid, pos |-> rtcm.sta.pos], 152)
encode_type1006(rtcm) ==
  Accept(rtcm, [type |-> 1006, staid |-> rtcm.staid, pos |-> rtcm.sta.pos,
                hgt |-> IF rtcm.sta.hgt \in 0 .. 65535 THEN rtcm.sta.hgt ELSE 0], 168)
encode_type1007(rtcm) ==
  LET chars == Chars(<<rtcm.sta.antdes>>)
  IN  Accept(rtcm, [type |-> 1007, staid |-> rtcm.staid, antdes |-> rtcm.sta.antdes,
                    chars |-> chars], 40 + 8 * chars)
encode_type1008(rtcm) ==
  LET chars == Chars(<<rtcm.sta.antdes, rtcm.sta.antsno>>)
  IN  Accept(rtcm, [type |-> 1008, staid |-> rtcm.staid, antdes |-> rtcm.sta.antdes,
                    antsno |-> rtcm.sta.antsno, chars |-> chars], 48 + 8 * chars)
\* rec is the receiver's type, version and serial number.
encode_type1033(rtcm) ==
  LET rec == rtcm.sta.rec
      chars == Chars(<<rtcm.sta.antdes, rtcm.sta.antsno, rec, rec, rec>>)
  IN  Accept(rtcm, [type |-> 1033, staid |-> rtcm.staid, antdes |-> rtcm.sta.antdes,
                    antsno |-> rtcm.sta.antsno, rec |-> rec, chars |-> chars],
             72 + 8 * chars)

-----------------------------------------------------------------------------
(* Ephemerides: that of satellite ephsat.                                  *)

Units(sec, unit) == ((2 * sec + unit) \div (2 * unit)) * unit

\* week and svh in the fields of the message, times of week in its units.
EncodeEph(rtcm, type, sys, prn, week, unit, iodes, iodcs, toe, toc, svh, bits) ==
  LET eph == rtcm.eph[rtcm.ephsat]
  IN  Accept(rtcm,
        [type |-> type, prn |-> prn, week |-> week, iode |-> eph.iode % iodes,
         iodc |-> eph.iodc % iodcs, toes |-> Units(Tow(toe), unit),
         tocs |-> Units(Tow(toc), unit), code |-> eph.code % 4, svh |-> svh,
         body |-> eph.body], bits)

HasEph(rtcm, sys) ==
  /\ rtcm.ephsat \in Sats
  /\ satsys(rtcm.ephsat) = sys
  /\ rtcm.eph[rtcm.ephsat].sat = rtcm.ephsat

EncodeGpsEph(rtcm, type, sys, first, bits) ==
  LET eph == rtcm.eph[rtcm.ephsat]
  IN  IF ~HasEph(rtcm, sys) THEN Refuse(rtcm)
      ELSE EncodeEph(rtcm, type, sys, rtcm.ephsat[2] - first, WeekOf(eph.toe) % 1024, 16,
                     256, 1024, eph.toe, eph.toc, eph.svh % 64, bits)
encode_type1019(rtcm) == EncodeGpsEph(rtcm, 1019, "GPS", 0, 488)
encode_type1044(rtcm) == EncodeGpsEph(rtcm, 1044, "QZS", 192, 485)

EncodeGalEph(rtcm, type, svh, bits) ==
  LET eph == rtcm.eph[rtcm.ephsat]
  IN  IF ~HasEph(rtcm, "GAL") THEN Refuse(rtcm)
      ELSE EncodeEph(rtcm, type, "GAL", rtcm.ephsat[2], (WeekOf(eph.toe) - 1024) % 4096, 60,
                     1024, 1, eph.toe, eph.toc, svh, bits)
\* Of the health of the signals F/NAV has that of E5a, I/NAV of E5b and E1.
encode_type1045(rtcm) ==
  EncodeGalEph(rtcm, 1045, ((rtcm.eph[rtcm.ephsat].svh \div 8) % 8) * 8, 496)
encode_type1046(rtcm) ==
  LET svh == rtcm.eph[rtcm.ephsat].svh
  IN  EncodeGalEph(rtcm, 1046, ((svh \div 64) % 8) * 64 + (svh % 8), 502)

EncodeCmpEph(rtcm, type) ==
  LET eph == rtcm.eph[rtcm.ephsat]
      toe == gpst2bdt(eph.toe)
  IN  IF ~HasEph(rtcm, "CMP") THEN Refuse(rtcm)
      ELSE EncodeEph(rtcm, type, "CMP", rtcm.ephsat[2], (WeekOf(toe) - Bdt0Week) % 8192, 8,
                     32, 32, toe, gpst2bdt(eph.toc), eph.svh % 2, 511)
encode_type1042(rtcm) == EncodeCmpEph(rtcm, 1042)
encode_type63(rtcm) == EncodeCmpEph(rtcm, 63)

encode_type1020(rtcm) ==
  LET sat == rtcm.ephsat
      geph == rtcm.geph[sat]
      tof == Tow(GlonassDay(geph.tof)) % Day
      toe == Tow(GlonassDay(geph.toe)) % Day
      \* the seconds of the time of the frame are one bit, 30 of them
      tk == (tof \div 60) * 60 + 30 * ((((tof % 60) + 15) \div 30) % 2)
  IN  IF sat \in Sats /\ satsys(sat) = "GLO" /\ geph.sat = sat
      THEN Accept(rtcm, [type |-> 1020, prn |-> sat[2], tk |-> tk,
                         tb |-> ((toe + 450) \div 900) % 128, frq |-> geph.frq,
                         svh |-> geph.svh % 2, body |-> geph.body], 360)
      ELSE Refuse(rtcm)

-----------------------------------------------------------------------------
(* SSR corrections: of every satellite that was ever updated.  The header  *)
(* has the interval, the issue and the datum of the last of them.          *)

SsrSats(rtcm, sys) ==
  InOrder({s \in Sats : satsys(s) = sys /\ rtcm.ssr[s].update}, LAMBDA a, b : a[2] < b[2])

UdiIndex(udint) ==
  LET long == {i \in 0 .. 14 : ssrudint[i + 1] >= udint}
  IN  IF long = {} THEN 15 ELSE CHOOSE i \in long : \A j \in long : i <= j

\* slot is the place of the correction in udi, iod and t0.
encode_ssr_head(rtcm, sys, kind, slot, sync) ==
  LET sats == SsrSats(rtcm, sys)
      last == IF sats = <<>> THEN NoSsr ELSE rtcm.ssr[Last(sats)]
  IN  [type |-> SsrTypes[sys] + kind, sys |-> sys, kind |-> kind,
       epoch |-> EpochOf(rtcm.time, IF sys = "GLO" THEN "GLO" ELSE "GPS"),
       sync |-> sync, udi |-> UdiIndex(last.udi[slot]), iod |-> last.iod[slot] % 16,
       refd |-> last.refd % 2, nsat |-> Len(sats) % (IF sys = "QZS" THEN 16 ELSE 64)]

\* fields has what the message says of each satellite.
EncodeSsr(rtcm, sys, kind, slot, sync, fields, bits) ==
  LET sats == SsrSats(rtcm, sys)
      Sat(s) == Joined([id |-> (s[2] - SsrSizes[sys].offp) % 2 ^ SsrSizes[sys].np], fields[s])
  IN  Accept(rtcm,
             Joined(encode_ssr_head(rtcm, sys, kind, slot, sync),
                    [sats |-> [j \in DOMAIN sats |-> Sat(sats[j])]]),
             SsrHeadBits(sys, IF kind \in {1, 4} THEN 1 ELSE 0) + bits * Len(sats))

Orbit(rtcm, sys) ==
  [s \in Sats |-> [iode |-> rtcm.ssr[s].iode % 2 ^ SsrSizes[sys].ni, orbit |-> rtcm.ssr[s].orbit]]
Clock(rtcm) == [s \in Sats |-> [clock |-> rtcm.ssr[s].clock, c2 |-> rtcm.ssr[s].c2]]

encode_ssr1(rtcm, sys, sync) ==
  EncodeSsr(rtcm, sys, 1, 0, sync, Orbit(rtcm, sys), 121 + OrbitBits(sys))
encode_ssr2(rtcm, sys, sync) ==
  EncodeSsr(rtcm, sys, 2, 1, sync, Clock(rtcm), 70 + SsrSizes[sys].np)
encode_ssr3(rtcm, sys, sync) ==
  LET e == EncodeSsr(rtcm, sys, 3, 4, sync, [s \in Sats |-> [cbias |-> rtcm.ssr[s].cbias]], 0)
  IN  [e EXCEPT !.bits = @ + BiasBits(sys, e.msg.sats)]
encode_ssr4(rtcm, sys, sync) ==
  EncodeSsr(rtcm, sys, 4, 0, sync, [s \in Sats |-> Joined(Orbit(rtcm, sys)[s], Clock(rtcm)[s])],
            191 + OrbitBits(sys))
encode_ssr5(rtcm, sys, sync) ==
  EncodeSsr(rtcm, sys, 5, 3, sync, [s \in Sats |-> [ura |-> rtcm.ssr[s].ura % 64]],
            6 + SsrSizes[sys].np)
encode_ssr6(rtcm, sys, sync) ==
  EncodeSsr(rtcm, sys, 6, 2, sync, [s \in Sats |-> [hrclk |-> rtcm.ssr[s].hrclk]],
            22 + SsrSizes[sys].np)

-----------------------------------------------------------------------------
(* Multiple signal messages.  Satellites and signals number fewer than 64  *)
(* cells: of a message that fills all 64 the code leaves the last unset.   *)

\* 0 for a satellite of another system.
to_satid(sys, sat) ==
  CASE satsys(sat) # sys -> 0
    [] satsys(sat) = sys /\ sys = "QZS" -> sat[2] - 192
    [] satsys(sat) = sys /\ sys = "SBS" -> sat[2] - 119
    [] OTHER -> sat[2]

\* 0 for a signal that the messages of the system do not have.
to_sigid(sys, code) ==
  LET c == CASE sys = "GPS" /\ code \in {"1Y", "1M", "1N"} -> "1P"
             [] sys = "GPS" /\ code \in {"2D", "2Y", "2M", "2N"} -> "2P"
             [] OTHER -> code
  IN  IF c \in ToSet(msm_sig[sys]) THEN PlaceIn(msm_sig[sys], c) ELSE 0

\* The slots of the observations of a system that have a signal of it, in
\* the order of the code's loops, as <<observation, slot>>.
MsmSlots(rtcm, sys) ==
  LET all == {x \in (DOMAIN rtcm.obs) \X Slots :
                /\ to_satid(sys, rtcm.obs[x[1]].sat) > 0
                /\ to_sigid(sys, rtcm.obs[x[1]].code[x[2]]) > 0}
  IN  InOrder(all, LAMBDA a, b : a[1] < b[1] \/ (a[1] = b[1] /\ a[2] < b[2]))

gen_msm_index(rtcm, sys) ==
  LET slots == ToSet(MsmSlots(rtcm, sys))
      sats == {to_satid(sys, rtcm.obs[x[1]].sat) : x \in slots}
      sigs == {to_sigid(sys, rtcm.obs[x[1]].code[x[2]]) : x \in slots}
  IN  [sats |-> InOrder(sats, LAMBDA a, b : a < b),
       sigs |-> InOrder(sigs, LAMBDA a, b : a < b)]

\* The rough range of an observation: that of its first pseudorange.
Ranged(data) == \E k \in Slots : data.P[k] # NoRange
RoughRange == 20000000

gen_msm_sat(rtcm, sys, sats, ext) ==
  LET Obs(id) == CHOOSE d \in ToSet(rtcm.obs) : to_satid(sys, d.sat) = id
      fcn(id) == fcn_glo(Obs(id).sat, rtcm)
  IN  [i \in DOMAIN sats |->
        CASE ~ext -> 15
          [] ext /\ sys # "GLO" -> 0
          [] OTHER -> IF fcn(sats[i]) < 0 THEN 15 ELSE fcn(sats[i])]

Abs(x) == IF x < 0 THEN -x ELSE x

encode_msm_lock(lock) == to_msm_lock(lock)
encode_msm_lock_ex(lock) == to_msm_lock_ex(lock)

\* One cell.  The offset between phase and range is chosen anew when the
\* receiver reports a loss of lock or the field would not hold the rest of
\* it, and then the lock time starts again.  A slot without phase counts as
\* phase 0.
GenCell(rtcm, data, k, kind) ==
  LET sat == data.sat
      phase == data.L[k] # NoPhase /\ satwavelen(rtcm, sat)
      phrng == IF phase THEN data.L[k] + (IF Ranged(data) THEN 0 ELSE RoughRange) ELSE 0
      rebase == data.LLI[k] % 2 = 1 \/ Abs(phrng - rtcm.cp[sat][k]) > Limit
      cp == IF rebase THEN phrng ELSE rtcm.cp[sat][k]
      since == IF rebase THEN data.time ELSE locktime(data.time, rtcm.lltime[sat][k], 0)
      fine == phrng - cp
  IN  [cell |-> [P    |-> IF Ranged(data) THEN data.P[k] ELSE NoRange,
                 L    |-> IF Ranged(data) /\ (phase \/ fine # 0) THEN fine ELSE NoPhase,
                 lock |-> IF kind \in {6, 7} THEN encode_msm_lock_ex(data.time - since)
                          ELSE encode_msm_lock(data.time - since),
                 half |-> (data.LLI[k] \div 2) % 2 = 1],
       rtcm |-> [rtcm EXCEPT !.cp[sat][k] = cp, !.lltime[sat][k] = since]]

\* The cell of one slot x beside those of the slots before it, which it
\* replaces when both are of one signal.
AddCell(s, rtcm, sys, kind, sats, sigs, x) ==
  LET data == rtcm.obs[x[1]]
      c == GenCell(s.rtcm, data, x[2], kind)
      at == <<PlaceIn(sats, to_satid(sys, data.sat)),
              PlaceIn(sigs, to_sigid(sys, data.code[x[2]]))>>
  IN  [cells |-> Joined([place \in {at} |-> c.cell], s.cells), rtcm |-> c.rtcm]

gen_msm_sig(rtcm, sys, kind, sats, sigs) ==
  FoldLeft(LAMBDA s, x : AddCell(s, rtcm, sys, kind, sats, sigs, x),
           [cells |-> <<>>, rtcm |-> rtcm], MsmSlots(rtcm, sys))

encode_msm_head(rtcm, sys, kind, sync, index) ==
  LET sig == gen_msm_sig(rtcm, sys, kind, index.sats, index.sigs)
  IN  [msg  |-> [type |-> MsmTypes[sys] + kind, sys |-> sys, kind |-> kind,
                 staid |-> rtcm.staid, epoch |-> EpochOf(rtcm.time, sys), sync |-> sync,
                 sats |-> index.sats,
                 sigs |-> [k \in DOMAIN index.sigs |-> msm_sig[sys][index.sigs[k]]],
                 cells |-> sig.cells,
                 info |-> gen_msm_sat(rtcm, sys, index.sats, kind \in {5, 7})],
       bits |-> 169 + Len(index.sats) * Len(index.sigs),
       rtcm |-> sig.rtcm]

\* The sizes of what follows the head.
MsmMessage(h, satbits, cellbits) ==
  Accept(h.rtcm, h.msg, h.bits + satbits * Len(h.msg.sats)
                               + cellbits * Cardinality(DOMAIN h.msg.cells))
EncodeMsm(rtcm, sys, kind, sync, satbits, cellbits) ==
  MsmMessage(encode_msm_head(rtcm, sys, kind, sync, gen_msm_index(rtcm, sys)),
             satbits, cellbits)

encode_msm1(rtcm, sys, sync) == EncodeMsm(rtcm, sys, 1, sync, 10, 15)
encode_msm2(rtcm, sys, sync) == EncodeMsm(rtcm, sys, 2, sync, 10, 27)
encode_msm3(rtcm, sys, sync) == EncodeMsm(rtcm, sys, 3, sync, 10, 42)
encode_msm4(rtcm, sys, sync) == EncodeMsm(rtcm, sys, 4, sync, 18, 48)
encode_msm5(rtcm, sys, sync) == EncodeMsm(rtcm, sys, 5, sync, 36, 63)
encode_msm6(rtcm, sys, sync) == EncodeMsm(rtcm, sys, 6, sync, 18, 65)
encode_msm7(rtcm, sys, sync) == EncodeMsm(rtcm, sys, 7, sync, 36, 80)

-----------------------------------------------------------------------------
(* Dispatch.                                                               *)

EncodeMsmKind(rtcm, sys, kind, sync) ==
  CASE kind = 1 -> encode_msm1(rtcm, sys, sync)
    [] kind = 2 -> encode_msm2(rtcm, sys, sync)
    [] kind = 3 -> encode_msm3(rtcm, sys, sync)
    [] kind = 4 -> encode_msm4(rtcm, sys, sync)
    [] kind = 5 -> encode_msm5(rtcm, sys, sync)
    [] kind = 6 -> encode_msm6(rtcm, sys, sync)
    [] kind = 7 -> encode_msm7(rtcm, sys, sync)

EncodeSsrKind(rtcm, sys, kind, sync) ==
  CASE kind = 1 -> encode_ssr1(rtcm, sys, sync)
    [] kind = 2 -> encode_ssr2(rtcm, sys, sync)
    [] kind = 3 -> encode_ssr3(rtcm, sys, sync)
    [] kind = 4 -> encode_ssr4(rtcm, sys, sync)
    [] kind = 5 -> encode_ssr5(rtcm, sys, sync)
    [] kind = 6 -> encode_ssr6(rtcm, sys, sync)

encode_rtcm3(rtcm, type, sync) ==
  LET msm == {s \in Systems : type - MsmTypes[s] \in 1 .. 7}
      ssr == {s \in Systems : type - SsrTypes[s] \in 1 .. 6}
      M == CHOOSE s \in msm : TRUE
      S == CHOOSE s \in ssr : TRUE
  IN  CASE type = 1001 -> encode_type1001(rtcm, sync)
        [] type = 1002 -> encode_type1002(rtcm, sync)
        [] type = 1003 -> encode_type1003(rtcm, sync)
        [] type = 1004 -> encode_type1004(rtcm, sync)
        [] type = 1005 -> encode_type1005(rtcm)
        [] type = 1006 -> encode_type1006(rtcm)
        [] type = 1007 -> encode_type1007(rtcm)
        [] type = 1008 -> encode_type1008(rtcm)
        [] type = 1009 -> encode_type1009(rtcm, sync)
        [] type = 1010 -> encode_type1010(rtcm, sync)
        [] type = 1011 -> encode_type1011(rtcm, sync)
        [] type = 1012 -> encode_type1012(rtcm, sync)
        [] type = 1019 -> encode_type1019(rtcm)
        [] type = 1020 -> encode_type1020(rtcm)
        [] type = 1033 -> encode_type1033(rtcm)
        [] type = 1042 -> encode_type1042(rtcm)
        [] type = 63   -> encode_type63(rtcm)
        [] type = 1044 -> encode_type1044(rtcm)
        [] type = 1045 -> encode_type1045(rtcm)
        [] type = 1046 -> encode_type1046(rtcm)
        [] msm # {} -> EncodeMsmKind(rtcm, M, type - MsmTypes[M], sync)
        [] ssr # {} -> EncodeSsrKind(rtcm, S, type - SsrTypes[S], sync)
        [] OTHER -> Refuse(rtcm)

\* A message of 1024 bytes or more is an error, after the state has moved on.
Frame(e) ==
  LET len == 3 + (e.bits + 7) \div 8
  IN  IF e.ret = 0 \/ len >= 3 + 1024 THEN [ret |-> 0, frame |-> [parity |-> FALSE], rtcm |-> e.rtcm]
      ELSE [ret |-> 1, frame |-> [parity |-> TRUE, msg |-> Joined(e.msg, [len |-> len])],
            rtcm |-> e.rtcm]
gen_rtcm3(rtcm, type, sync) == Frame(encode_rtcm3(rtcm, type, sync))
=============================================================================
