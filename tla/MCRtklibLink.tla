---------------------------- MODULE MCRtklibLink ----------------------------
(***************************************************************************)
(* The plans of RtklibLink: what stations send and what may go wrong.      *)
(***************************************************************************)
EXTENDS RtklibLink

G1 == <<"GPS", 1>>
G2 == <<"GPS", 2>>
S1 == <<"SBS", 120>>
R1 == <<"GLO", 1>>
E1 == <<"GAL", 1>>
C1 == <<"CMP", 1>>
J1 == <<"QZS", 193>>
AllSats == {G1, G2, S1, R1, E1, C1, J1}

Track(sat, code, phase) ==
  [sat |-> sat, code |-> [k \in 0 .. 2 |-> code[k + 1]], phase |-> phase]
Msg(type, sync) == [sta |-> 1, type |-> type, sync |-> sync, sat |-> NoSat]
Nav(type, sat) == [Msg(type, FALSE) EXCEPT !.sat = sat]
From(sta, type, sync) == [Msg(type, sync) EXCEPT !.sta = sta]

LegacyView == << Track(G1, <<"1C", "2W", "">>, 600), Track(S1, <<"1C", "", "">>, 0),
                 Track(R1, <<"1C", "2C", "">>, -700) >>
MsmView == << Track(G1, <<"1C", "2W", "2X">>, 600), Track(R1, <<"1C", "2C", "">>, 0),
              Track(E1, <<"1X", "", "5X">>, -900) >>
WideView == << Track(G1, <<"1C", "2W", "2X">>, 600), Track(G2, <<"1C", "2W", "">>, 0),
               Track(C1, <<"1I", "7I", "6I">>, 300), Track(J1, <<"1C", "2X", "">>, 100),
               Track(S1, <<"1C", "", "5I">>, 0) >>

\* Ten seconds before week 2048, in which the 10 bits of a week start again.
WeekEnd == 2048 * Week - 10
\* Ten seconds before the end of a day of GLONASS.
GlonassDayEnd == 2100 * Week + 3 * Day - MoscowOffset + Leaps - 10

Quiet == [
  start |-> WeekEnd, steps |-> {30}, epochs |-> 1, tracks |-> LegacyView, drift |-> 100,
  slips |-> {}, jump |-> 400, losses |-> 0, restarts |-> 0, renewed |-> {}, skew |-> 5,
  opt |-> NoOpt, msgs |-> <<>>]

Legacy == [Quiet EXCEPT
  !.msgs = <<Msg(1004, TRUE), Msg(1012, FALSE)>>,
  !.steps = {1, 30}, !.epochs = 4, !.slips = {G1}, !.losses = 2, !.restarts = 1]
Single == [Quiet EXCEPT
  !.msgs = <<Msg(1002, TRUE), Msg(1010, FALSE)>>, !.start = GlonassDayEnd,
  !.steps = {1, 30}, !.epochs = 3, !.slips = {R1}, !.losses = 2]
\* Outages of half a day and more.
Outage == [Quiet EXCEPT
  !.msgs = <<Msg(1012, FALSE)>>, !.start = GlonassDayEnd, !.steps = {600, 21000},
  !.epochs = 4, !.slips = {R1}, !.losses = 3, !.skew = -20000]
HighRate == [Quiet EXCEPT
  !.msgs = <<Msg(1077, TRUE), Msg(1087, TRUE), Msg(1097, FALSE)>>, !.tracks = MsmView,
  !.steps = {1, 200}, !.epochs = 4, !.slips = {R1}, !.drift = 600, !.jump = 5000,
  !.losses = 2, !.restarts = 1]
FourBits == [Quiet EXCEPT
  !.msgs = <<Msg(1074, TRUE), Msg(1124, TRUE), Msg(1114, FALSE)>>, !.tracks = WideView,
  !.start = WeekEnd + 20, !.steps = {1, 700}, !.epochs = 3, !.slips = {C1}, !.losses = 2]
\* One satellite more than there is room for.
Full == [Quiet EXCEPT
  !.msgs = <<Msg(1075, TRUE), Msg(1126, TRUE), Msg(1116, TRUE), Msg(1105, FALSE)>>,
  !.tracks = WideView, !.epochs = 2, !.losses = 1]
\* The types that the decoder does not decode, before one that it does.
Unsupported == [Quiet EXCEPT
  !.msgs = <<Msg(1001, TRUE), Msg(1003, TRUE), Msg(1009, TRUE), Msg(1011, TRUE),
             Msg(1071, TRUE), Msg(1072, TRUE), Msg(1073, TRUE), Msg(1085, FALSE)>>,
  !.tracks = MsmView, !.losses = 1]
TwoStations == [Quiet EXCEPT
  !.msgs = <<From(1, 1004, TRUE), From(2, 1004, TRUE), From(1, 1012, FALSE),
             From(2, 1012, FALSE)>>, !.epochs = 2, !.losses = 2]
ChosenStation == [TwoStations EXCEPT !.opt = [NoOpt EXCEPT !.staid = 2]]
Ephemerides == [Quiet EXCEPT
  !.msgs = <<Nav(1019, G1), Nav(1020, R1), Nav(1045, E1), Nav(1042, C1), Nav(1044, J1)>>,
  !.epochs = 3, !.losses = 2, !.renewed = {"eph"}]
OtherEphemerides == [Quiet EXCEPT
  !.msgs = <<Nav(1046, E1), Nav(63, C1), Nav(1020, R1)>>, !.start = GlonassDayEnd,
  !.epochs = 3, !.losses = 1, !.renewed = {"eph"}, !.opt = [NoOpt EXCEPT !.ephall = TRUE]]
Corrections == [Quiet EXCEPT
  !.msgs = <<Msg(1060, TRUE), Msg(1057, FALSE), Msg(1058, FALSE), Msg(1059, FALSE),
             Msg(1061, FALSE), Msg(1062, FALSE)>>,
  !.epochs = 3, !.losses = 2, !.renewed = {"ssr"}]
GlonassCorrections == [Quiet EXCEPT
  !.msgs = <<Msg(1066, FALSE), Msg(1064, FALSE), Msg(1068, FALSE)>>, !.start = GlonassDayEnd,
  !.epochs = 3, !.losses = 2, !.renewed = {"ssr"}, !.opt = [NoOpt EXCEPT !.rtinp = TRUE]]
StationData == [Quiet EXCEPT
  !.msgs = <<Msg(1006, FALSE), Msg(1008, FALSE), Msg(1005, FALSE), Msg(1007, FALSE),
             Msg(1033, FALSE)>>,
  !.epochs = 2, !.losses = 3, !.renewed = {"sta"}]

LinkPlans ==
  {Legacy, Single, Outage, HighRate, FourBits, Full, Unsupported, TwoStations, ChosenStation,
   Ephemerides, OtherEphemerides, Corrections, GlonassCorrections, StationData}

\* What the proofs assume of plans is true of these.
ASSUME PaceAssumption == GpsIsNotSbs /\ \A p \in LinkPlans : \E S \in p.steps : Paced(p, S)

\* Phases that climb by slips that the receiver is told of, and then drift.
RolloverPlans ==
  {[Legacy EXCEPT !.tracks = <<Track(G1, <<"1C", "2W", "">>, 700)>>, !.drift = 200,
                  !.jump = 500, !.steps = {30}, !.epochs = 5, !.losses = 0, !.restarts = 0]}
=============================================================================
