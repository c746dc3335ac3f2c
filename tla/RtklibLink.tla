----------------------------- MODULE RtklibLink -----------------------------
(***************************************************************************)
(* Base stations that encode RTCM 3 with src/c/rtklib, a line that damages *)
(* or loses frames, and a receiver that decodes what comes.                *)
(*                                                                         *)
(* The two ends share no state: what the decoder says of carrier phases,   *)
(* times and issues it must find in fields too short for them, with what   *)
(* it kept of earlier messages, some of which never came.  A plan says     *)
(* what the stations measure and send and what may go wrong; it is chosen  *)
(* first.  Every number of a plan is a bound of the model.                 *)
(***************************************************************************)
EXTENDS RtklibEncoder

CONSTANT Plans
\* start, steps, epochs: the first epoch, the times between epochs, how many
\* tracks: what is in view, as [sat, code, phase]; phase is that at the start
\* drift: how far phase and range part in an epoch (as they do in the ionosphere)
\* slips, jump: the satellites whose phase may slip, and how far it jumps
\* msgs: the messages of an epoch, as [sta, type, sync]
\* losses, restarts: how many frames are lost, how often an end starts again
\* renewed: the records that are renewed with an issue: "eph", "ssr", "sta"
\* skew, opt: the error of the receiver's clock, the decoder's options

ASSUME PlansAssumption ==
  \A p \in Plans :
    /\ p.start \in Int /\ p.steps \subseteq Int /\ p.epochs \in Nat /\ p.skew \in Int
    /\ p.tracks \in Seq([sat : Sats, code : [Slots -> STRING], phase : Int])
    /\ p.msgs \in Seq([sta : Int, type : Int, sync : BOOLEAN, sat : Sats \union {NoSat}])
    /\ p.opt \in [staid : Int, ephall : BOOLEAN, rtinp : BOOLEAN, sig : [Systems -> STRING]]

\* Some message of the plan is of one of the types.
Sends(p, types) == \E j \in DOMAIN p.msgs : p.msgs[j].type \in types

\* No epoch of the plan is more than S seconds after the one before it, and the plan
\* keeps within what the fields of ephemerides have room for: an issue in the IODE, of
\* 5 bits of BeiDou and else of 8; the week of the first epoch between those of 1560
\* and 5000 that the code can know; with the error of the receiver's clock less than
\* 500 weeks in all, and, if there are ephemerides of GLONASS, not half a day.
Paced(p, S) ==
  LET most == p.epochs * S + Abs(p.skew)
  IN  /\ p.steps \subseteq 0 .. S
      /\ 1560 <= WeekOf(p.start) /\ WeekOf(p.start) <= 5000
      /\ p.epochs < (IF Sends(p, {1042, 63}) THEN 31 ELSE 255)
      /\ most <= 500 * Week
      /\ Sends(p, {1020}) => 2 * most + 3600 * (p.epochs + 2) < Day

\* No satellite of GPS has a number that the decoder takes for one of SBAS; MAXPRNGPS is 32.
GpsIsNotSbs == \A s \in Sats : satsys(s) = "GPS" => s[2] < 40

VARIABLES
  plan,
  now,      \* GPS time of the epoch
  epoch,    \* its number
  jumps,    \* how often the phase of each satellite has slipped
  issue,    \* the number of the newest issue
  next,     \* the message of the epoch that is sent next
  enc,      \* the rtcm_t of each station
  dec,      \* the rtcm_t of the receiver
  faults,   \* frames lost and restarts
  answer,   \* what input_rtcm3 said of the last message, and which it was
  intact,   \* no message of this epoch was lost or refused
  refused,  \* a message was refused since observations were handed over
  handed,   \* history: the time of the observations handed over last
  last      \* history: what was last received of each phase

sentVars == <<now, epoch, jumps, issue>>
historyVars == <<answer, intact, refused, handed, last>>
vars == <<plan, sentVars, next, enc, dec, faults, historyVars>>

Stations == {plan.msgs[i].sta : i \in DOMAIN plan.msgs}
NoAnswer == [ret |-> 0, type |-> 0, sta |-> 0]
NoReception == [at |-> 0, epoch |-> 0, L |-> 0, slip |-> FALSE, since |-> 0]

-----------------------------------------------------------------------------
(* What a station measures, and what it knows of satellites and itself.    *)

Measurement(p, track, time, n, jumped, slip, sta) ==
  LET used(k) == track.code[k] # ""
  IN  [sat |-> track.sat, time |-> time, code |-> track.code,
       P |-> [k \in Slots |-> IF used(k) THEN [at |-> time, staid |-> sta] ELSE NoRange],
       L |-> [k \in Slots |-> IF used(k) THEN track.phase + p.drift * n + p.jump * jumped
                              ELSE NoPhase],
       LLI |-> [k \in Slots |-> IF slip THEN 1 ELSE 0]]

Toe(p, n) == (p.start \div 7200 + 1 + n) * 7200
EphOfIssue(p, sat, n) ==
  [sat |-> sat, iode |-> n + 1, iodc |-> n + 1,
   toe |-> IF satsys(sat) = "CMP" THEN bdt2gpst(Toe(p, n)) ELSE Toe(p, n),
   toc |-> IF satsys(sat) = "CMP" THEN bdt2gpst(Toe(p, n)) ELSE Toe(p, n),
   ttr |-> 0, code |-> IF satsys(sat) \in {"GPS", "QZS"} THEN 1 ELSE 0, svh |-> 0,
   body |-> n + 1]
\* The issue of a GLONASS ephemeris is the quarter of an hour of its day.
GephOfIssue(p, sat, n) ==
  LET toe == utc2gpst((p.start \div 1800 + 1 + n) * 1800)
  IN  [sat |-> sat, iode |-> (Tow(GlonassDay(toe)) % Day) \div 900, frq |-> 3, svh |-> 0,
       tof |-> toe - 1800, toe |-> toe, body |-> n + 1]
SsrOfIssue(n) ==
  [t0 |-> [k \in 0 .. 4 |-> 0], udi |-> [k \in 0 .. 4 |-> 10],
   iod |-> [k \in 0 .. 4 |-> n % 16], iode |-> n + 1, orbit |-> n + 1, clock |-> n + 1,
   c2 |-> n + 1, cbias |-> <<n + 1>>, ura |-> n + 1, hrclk |-> n + 1, refd |-> 0,
   update |-> TRUE]
StaOfIssue(n) == [pos |-> n + 1, hgt |-> n + 1, antdes |-> n + 1, antsno |-> n + 1, rec |-> n + 1]

InView(p) == {p.tracks[i].sat : i \in DOMAIN p.tracks}

\* The program fills rtcm_t for an epoch before it calls gen_rtcm3.
Observe(p, rtcm, sta, time, n, jumped, slips, latest) ==
  LET known(kind) == IF kind \in p.renewed THEN latest ELSE 0
  IN  [rtcm EXCEPT
        !.time = time, !.staid = sta,
        !.obs = [i \in DOMAIN p.tracks |->
                   LET t == p.tracks[i]
                   IN  Measurement(p, t, time, n, jumped[t.sat], t.sat \in slips, sta)],
        !.eph = [s \in Sats |-> IF satsys(s) # "GLO" THEN EphOfIssue(p, s, known("eph")) ELSE @[s]],
        !.geph = [s \in Sats |-> IF satsys(s) = "GLO" THEN GephOfIssue(p, s, known("eph")) ELSE @[s]],
        !.ssr = [s \in Sats |-> IF s \in InView(p) THEN SsrOfIssue(known("ssr")) ELSE @[s]],
        !.sta = StaOfIssue(known("sta"))]

-----------------------------------------------------------------------------
(* The specification.                                                      *)

NoJumps == [s \in Sats |-> 0]
NothingReceived == [s \in Sats |-> [k \in Slots |-> NoReception]]
Decoder == [init_rtcm EXCEPT !.opt = plan.opt]

Init ==
  /\ plan \in Plans
  /\ now = plan.start /\ epoch = 0 /\ jumps = NoJumps /\ issue = 0 /\ next = 1
  /\ enc = [s \in Stations |-> Observe(plan, init_rtcm, s, now, 0, jumps, {}, 0)]
  /\ dec = Decoder
  /\ faults = 0
  /\ answer = NoAnswer /\ intact = TRUE /\ refused = FALSE /\ handed = 0
  /\ last = NothingReceived

\* The stations measure the next epoch.  A slip comes with a bit of LLI.
Measure ==
  /\ next > Len(plan.msgs)
  /\ epoch < plan.epochs
  /\ \E step \in plan.steps, slips \in SUBSET plan.slips,
        new \in IF plan.renewed = {} THEN {0} ELSE {0, 1} :
       /\ now' = now + step
       /\ epoch' = epoch + 1
       /\ jumps' = [s \in Sats |-> IF s \in slips THEN jumps[s] + 1 ELSE jumps[s]]
       /\ issue' = issue + new
       /\ enc' = [s \in Stations |->
                    Observe(plan, enc[s], s, now', epoch', jumps', slips, issue')]
  /\ next' = 1
  /\ intact' = TRUE
  /\ answer' = NoAnswer
  /\ UNCHANGED <<plan, dec, faults, refused, handed, last>>

\* Of an ephemeris the station sends that of the plan's satellite.
Load(rtcm, m) == IF m.sat = NoSat THEN rtcm ELSE [rtcm EXCEPT !.ephsat = m.sat]

Note(sender, receiver) ==
  [s \in Sats |-> [k \in Slots |->
    LET here == {d \in ToSet(receiver.obs) :
                   d.sat = s /\ d.time = now /\ d.L[k] # NoPhase}
        d == CHOOSE d \in here : TRUE
    IN  IF here = {} \/ last[s][k].at = now THEN last[s][k]
        ELSE [at |-> now, epoch |-> epoch, L |-> d.L[k], slip |-> d.LLI[k] % 2 = 1,
              since |-> sender.lltime[s][k]]]]

\* A station sends a message, whose frame may be damaged on the line.  What
\* is lost whole changes as little.
Send ==
  /\ next <= Len(plan.msgs)
  /\ LET m == plan.msgs[next]
         clock == gpst2utc(now) + plan.skew
     IN  \E damaged \in IF faults < plan.losses THEN BOOLEAN ELSE {FALSE},
            g \in {gen_rtcm3(Load(enc[m.sta], m), m.type, m.sync)} :
         \E i \in {input_rtcm3([dec EXCEPT !.clock = clock],
                               [g.frame EXCEPT !.parity = @ /\ ~damaged])} :
           /\ enc' = [enc EXCEPT ![m.sta] = g.rtcm]
           /\ dec' = i.rtcm
           /\ faults' = IF damaged THEN faults + 1 ELSE faults
           /\ answer' = IF g.ret = 0 \/ damaged THEN NoAnswer
                        ELSE [ret |-> i.ret, type |-> m.type, sta |-> m.sta]
           /\ intact' = (intact /\ ~damaged /\ g.ret = 1 /\ i.ret >= 0)
           /\ refused' = IF i.ret = 1 THEN FALSE ELSE (refused \/ i.ret < 0)
           /\ handed' = IF i.ret = 1 THEN i.rtcm.time ELSE handed
           /\ last' = Note(g.rtcm, i.rtcm)
  /\ next' = next + 1
  /\ UNCHANGED <<plan, sentVars>>

\* An end starts again.  The station's program fills its rtcm_t as before.
RestartSender ==
  /\ faults < plan.restarts
  /\ next = 1
  /\ \E s \in Stations :
       enc' = [enc EXCEPT ![s] = [init_rtcm EXCEPT
                 !.time = enc[s].time, !.staid = s, !.obs = enc[s].obs, !.eph = enc[s].eph,
                 !.geph = enc[s].geph, !.ssr = enc[s].ssr, !.sta = enc[s].sta]]
  /\ faults' = faults + 1
  /\ answer' = NoAnswer
  /\ UNCHANGED <<plan, sentVars, next, dec, intact, refused, handed, last>>

RestartReceiver ==
  /\ faults < plan.restarts
  /\ dec # Decoder
  /\ dec' = Decoder
  /\ faults' = faults + 1
  /\ answer' = NoAnswer /\ intact' = FALSE /\ refused' = FALSE
  /\ last' = NothingReceived
  /\ UNCHANGED <<plan, sentVars, next, enc, handed>>

Done == next > Len(plan.msgs) /\ epoch = plan.epochs /\ UNCHANGED vars

Next == Measure \/ Send \/ RestartSender \/ RestartReceiver \/ Done

Spec == Init /\ [][Next]_vars
-----------------------------------------------------------------------------
(* Properties.                                                             *)

SystemsOf(type) ==
  CASE type \in {1002, 1004} -> {"GPS", "SBS"}
    [] type \in {1010, 1012} -> {"GLO"}
    [] OTHER -> {s \in Systems : type - MsmTypes[s] \in 4 .. 7}
SlotsOf(type) ==
  CASE type \in {1002, 1010} -> {0} [] type \in {1004, 1012} -> {0, 1} [] OTHER -> Slots
NavTypes == {1019, 1020, 1042, 63, 1044, 1045, 1046}
SsrKinds(type) == {type - SsrTypes[s] : s \in Systems} \cap 1 .. 6

\* The receiver hears one station only, or has been told which to take.
OneSource == Cardinality(Stations) = 1 \/ plan.opt.staid # -1
Source == IF plan.opt.staid = -1 THEN 1 ELSE plan.opt.staid

\* The observations that the messages of an epoch promise.
Promised ==
  {<<t.sat, k>> : t \in ToSet(plan.tracks), k \in Slots}
    \cap {x \in Sats \X Slots :
            \E m \in ToSet(plan.msgs), t \in ToSet(plan.tracks) :
              /\ m.sta = Source /\ t.sat = x[1]
              /\ satsys(x[1]) \in SystemsOf(m.type) /\ x[2] \in SlotsOf(m.type)
              /\ t.code[x[2]] # ""}

\* What the variables hold: encoders and decoder keep to the places of the
\* satellites they are built for, and the buffer to its size.
TypeOK ==
  /\ plan \in Plans
  /\ next \in 1 .. Len(plan.msgs) + 1
  /\ epoch \in 0 .. plan.epochs
  /\ answer.ret \in {-1, 0, 1, 2, 5, 10}
  /\ Len(dec.obs) <= MAXOBS
  /\ \A i, j \in DOMAIN dec.obs :
       dec.obs[i].sat \in Sats /\ (dec.obs[i].sat = dec.obs[j].sat => i = j)
  /\ dec.ephsat \in Sats \union {NoSat}
  /\ {intact, refused} \subseteq BOOLEAN

\* When input_rtcm3 hands over observations, they are those of the epoch on
\* the clock and of no earlier one, whatever was lost; with nothing lost or
\* refused they are all that the station sent of satellites that there is room for.
EpochAsSent ==
  answer.ret = 1 /\ dec.time = now =>
    LET sats == {x[1] : x \in Promised}
        Of(s) == CHOOSE d \in ToSet(dec.obs) : d.sat = s
        heard == {dec.obs[i].sat : i \in DOMAIN dec.obs}
    IN  /\ \A i \in DOMAIN dec.obs, k \in Slots :
             /\ dec.obs[i].time = now
             /\ dec.obs[i].P[k] = NoRange \/ dec.obs[i].P[k].at = now
        /\ intact /\ OneSource =>
             /\ heard \subseteq sats
             /\ Cardinality(sats) <= MAXOBS => heard = sats
             /\ Cardinality(sats) > MAXOBS => Len(dec.obs) = MAXOBS
             /\ \A x \in Promised : x[1] \in heard => Of(x[1]).P[x[2]].at = now

Sending == next' = next + 1 /\ answer' # NoAnswer

\* Of one station an epoch is handed over once and in its turn, whatever was
\* lost and however often an end starts again.
EachEpochOnce ==
  [][Sending /\ answer'.ret = 1 /\ OneSource /\ dec'.time = now => handed < now]_vars

\* Observations that are handed over are of one station, if since the last
\* time no message was refused; of the chosen one, if there is one.
StationsApart ==
  [][Sending /\ answer'.ret = 1 =>
       LET heard == {d.P[k].staid : d \in ToSet(dec'.obs), k \in Slots} \ {0}
       IN  /\ ~refused => Cardinality(heard) <= 1
           /\ plan.opt.staid # -1 => heard \subseteq {plan.opt.staid}]_vars

\* A time of week or of day becomes the right time as long as the receiver's
\* last time, or else its clock, is less than half a period away.
TimeRight ==
  [][Sending /\ answer'.ret >= 0 =>
       LET ssr == SsrKinds(answer'.type) # {}
           glo == answer'.type \in {1009, 1010, 1011, 1012} \union 1081 .. 1087
                                    \union 1063 .. 1068
           timed == ssr \/ answer'.type \in 1001 .. 1004 \union 1009 .. 1012 \union 1071 .. 1127
           known == IF dec.time = 0 \/ plan.opt.rtinp THEN utc2gpst(dec'.clock) ELSE dec.time
       IN  timed /\ 2 * Abs(now - known) < (IF glo THEN Day ELSE Week) => dec'.time = now]_vars

\* A phase that goes on without a sign of a slip goes on by as much as the
\* true one does.  The exception is a slip that only messages which never came
\* could show: lock times double from step to step and end at 524 seconds.
PhaseContinuous ==
  [][\A s \in Sats, k \in Slots :
       LET old == last[s][k]
           new == last'[s][k]
           hidden == /\ new.since \in old.at + 1 .. now - 1
                     /\ \/ 2 * (new.at - old.at) >= old.at - old.since
                        \/ new.at - old.at >= 524
       IN  OneSource /\ new # old /\ old.at # 0 /\ new.at # 0 /\ ~new.slip /\ ~hidden
             => new.L - old.L = plan.drift * (new.epoch - old.epoch)]_vars

\* A slip is shown only if the sender's lock started anew since the phase was
\* last received.
NoFalseSlip ==
  [][\A s \in Sats, k \in Slots :
       LET old == last[s][k]
           new == last'[s][k]
       IN  OneSource /\ new # old /\ old.at # 0 /\ new.slip => new.since > old.at]_vars

\* When the message of an ephemeris has come, the receiver has the one that the
\* station has, be it new or dropped as unchanged: the week or day that is
\* missing in the message was found.
EphAsSent ==
  answer.type \in NavTypes /\ answer.ret >= 0 =>
    LET e == enc[answer.sta]
        sat == e.ephsat
    IN  IF satsys(sat) = "GLO" THEN dec.geph[sat] = e.geph[sat]
        ELSE /\ \A f \in {"iode", "toe", "toc", "svh", "body"} : dec.eph[sat][f] = e.eph[sat][f]
             /\ satsys(sat) # "GAL" => dec.eph[sat].iodc = e.eph[sat].iodc

\* Every correction the receiver holds is that of the issue it names, so
\* orbit and clock with equal issues belong together, whatever was lost.
CorrectionsOfTheirIssue ==
  \A s \in Sats :
    LET x == dec.ssr[s]
        Got(k) == x.t0[k] # 0
        Of(value, k) == x.iod[k] = (value - 1) % 16 /\ x.udi[k] = 10
    IN  /\ Got(0) => Of(x.orbit, 0) /\ x.iode = x.orbit
        /\ Got(1) => Of(x.clock, 1)
        /\ Got(2) => Of(x.hrclk, 2)
        /\ Got(3) => Of(x.ura, 3)
        /\ Got(4) => x.cbias # <<>> /\ Of(x.cbias[1], 4)
=============================================================================
