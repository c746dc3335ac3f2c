---------------------------- MODULE ProxyProofs ----------------------------
(***************************************************************************)
(* Proofs about Proxy, for any number of sessions, reports, bytes and      *)
(* places in the queue, and for ends that break at any moment.             *)
(***************************************************************************)
EXTENDS Proxy, SequenceTheorems, TLAPS

(* Which actions change which variables.                                   *)

ClientSide(s) == Accept(s) \/ Up(s)
ServerSide(s) == Accept(s) \/ Down(s)
Status(r) == StatusLocks(r) \/ GetMessages(r) \/ StatusReturns(r)
Control == SetLogLevel \/ \E r \in Readers : Status(r)

\* Every step is of one of these kinds, and all but the last are of a proxy
\* that is running.
LEMMA StepCases ==
  ASSUME [Next]_vars
  PROVE  \/ /\ Alive
            /\ \/ \E s \in Sessions : Accept(s) \/ Up(s) \/ Down(s)
               \/ ProgramEnds
               \/ Keeper
               \/ Control
         \/ UNCHANGED vars
  BY DEF Next, Listener, ServerUnreachable, ListenerEnds, Accept, Quiet, Status, Control

\* What each goroutine has for itself.
UpOwn == <<upVars, clientRead, toServer>>
DownOwn == <<downVars, serverRead, toClient>>

LEMMA WhoChanges ==
  ASSUME [Next]_vars
  PROVE  /\ ProgramEnds \/ (Alive /\ program' = program) \/ UNCHANGED vars
         /\ ProgramEnds \/ (\E s \in Sessions : ClientSide(s)) \/ UNCHANGED UpOwn
         /\ ProgramEnds \/ (\E s \in Sessions : ServerSide(s)) \/ UNCHANGED DownOwn
         /\ ProgramEnds \/ Keeper \/ (\E s \in Sessions : TakeByte(s)) \/ UNCHANGED handlerVars
         /\ \/ ProgramEnds \/ Control
            \/ \E s \in Sessions : RecordClientBuffer(s) \/ RecordServerBuffer(s)
            \/ UNCHANGED feedVars
<1> USE DEF ClientSide, ServerSide, UpOwn, DownOwn, Status
<1>1. ASSUME NEW s \in Sessions, Alive, Accept(s)
      PROVE  program' = program /\ UNCHANGED handlerVars /\ UNCHANGED feedVars
  BY <1>1 DEF Accept
<1>2. ASSUME NEW s \in Sessions, Up(s)
      PROVE  /\ program' = program
             /\ UNCHANGED DownOwn
             /\ TakeByte(s) \/ UNCHANGED handlerVars
             /\ RecordClientBuffer(s) \/ UNCHANGED feedVars
  BY <1>2 DEF Up, ReadClient, EndSession, ClientEOF, TakeByte, RecordClientBuffer, WriteServer,
              listenerVars, clientVars, serverVars
<1>3. ASSUME NEW s \in Sessions, Down(s)
      PROVE  /\ program' = program
             /\ UNCHANGED UpOwn
             /\ UNCHANGED handlerVars
             /\ RecordServerBuffer(s) \/ UNCHANGED feedVars
  BY <1>3 DEF Down, ReadServer, ServerReadFails, RecordServerBuffer, WriteClient,
              listenerVars, clientVars, serverVars
<1>4. ASSUME Keeper
      PROVE  program' = program /\ UNCHANGED UpOwn /\ UNCHANGED DownOwn /\ UNCHANGED feedVars
  BY <1>4 DEF Keeper, HandOver, Add, WriteLog, listenerVars, clientVars, serverVars
<1>5. ASSUME Control
      PROVE  program' = program /\ UNCHANGED UpOwn /\ UNCHANGED DownOwn /\ UNCHANGED handlerVars
  BY <1>5 DEF Control, SetLogLevel, StatusLocks, GetMessages, StatusReturns, listenerVars,
              clientVars, serverVars
<1>6. CASE UNCHANGED vars
  BY <1>6 DEF vars, listenerVars, clientVars, serverVars
<1> QED
  BY <1>1, <1>2, <1>3, <1>4, <1>5, <1>6, StepCases
-----------------------------------------------------------------------------
(* The client's side of the sessions: what is in the buffer is what was    *)
(* read last, and the server has got all that was read before, or the      *)
(* beginning of it when its connection has broken.                         *)

UpTypes ==
  /\ session \in [Sessions -> {"new", "open", "closed"}]
  /\ clientRead \in [Sessions -> Nat]
  /\ toServer \in [Sessions -> Seq(Nat)]
  /\ up \in [Sessions -> {"read", "log", "record", "write", "done"}]
  /\ upData \in [Sessions -> Seq(Nat)]
  /\ logged \in [Sessions -> Nat]
  /\ serverBroken \in [Sessions -> BOOLEAN]

\* What is known of one session, of its place, its buffer, how much of it has
\* been logged, how much has been read, and what the server has.
UpShape(place, data, n, read, got) ==
  /\ place = "log" => n < Len(data)
  /\ place \in {"record", "write"} => 0 < n /\ n = Len(data)
  /\ place \in {"read", "done"} => data = <<>> /\ n = 0
  /\ Len(data) <= read
  /\ \A i \in 1..Len(data) : data[i] = read - Len(data) + i
  /\ Len(got) <= read - Len(data)
  /\ \A i \in 1..Len(got) : got[i] = i

UpInv ==
  /\ UpTypes
  /\ \A s \in Sessions : UpShape(up[s], upData[s], logged[s], clientRead[s], toServer[s])
  /\ \A s \in Sessions : session[s] = "new" => up[s] = "done"
  /\ Alive => \A s \in Sessions :
       ~serverBroken[s] => Len(toServer[s]) = clientRead[s] - Len(upData[s])

\* What a read puts into a buffer.
LEMMA BytesRead ==
  ASSUME NEW read \in Nat, NEW last \in Int, read < last
  PROVE  /\ Bytes(read + 1, last) \in Seq(Nat)
         /\ Len(Bytes(read + 1, last)) = last - read
         /\ \A i \in 1..last - read : Bytes(read + 1, last)[i] = read + i
<1>1. /\ last - (read + 1) + 1 = last - read
      /\ last - read \in Nat
  OBVIOUS
<1>2. Bytes(read + 1, last) = [i \in 1..last - read |-> read + 1 + i - 1]
  BY <1>1 DEF Bytes
<1>3. \A i \in 1..last - read : read + 1 + i - 1 = read + i /\ read + i \in Nat
  OBVIOUS
<1> QED
  BY <1>1, <1>2, <1>3

\* What a write adds at the other end.
LEMMA Written ==
  ASSUME NEW read \in Nat, NEW data \in Seq(Nat), NEW got \in Seq(Nat),
         Len(data) <= read,
         \A i \in 1..Len(data) : data[i] = read - Len(data) + i,
         Len(got) = read - Len(data),
         \A i \in 1..Len(got) : got[i] = i
  PROVE  /\ got \o data \in Seq(Nat)
         /\ Len(got \o data) = read
         /\ \A i \in 1..read : (got \o data)[i] = i
<1>1. Len(data) \in Nat /\ Len(got) \in Nat
  BY LenProperties
<1>2. /\ got \o data \in Seq(Nat)
      /\ Len(got \o data) = Len(got) + Len(data)
      /\ \A i \in 1..Len(got) + Len(data) :
           (got \o data)[i] = IF i <= Len(got) THEN got[i] ELSE data[i - Len(got)]
  BY ConcatProperties
<1>3. ASSUME NEW i \in 1..read, ~(i <= Len(got)) PROVE data[i - Len(got)] = i
  <2>1. i - Len(got) \in 1..Len(data)
    BY <1>1, <1>3
  <2>2. data[i - Len(got)] = read - Len(data) + (i - Len(got))
    BY <2>1
  <2> QED
    BY <1>1, <2>2
<1>4. \A i \in 1..read : (got \o data)[i] = i
  <2> SUFFICES ASSUME NEW i \in 1..read PROVE (got \o data)[i] = i
    OBVIOUS
  <2>1. i \in 1..Len(got) + Len(data)
    BY <1>1
  <2>2. (got \o data)[i] = IF i <= Len(got) THEN got[i] ELSE data[i - Len(got)]
    BY <1>2, <2>1
  <2>3. i <= Len(got) => got[i] = i
    BY <1>1
  <2> QED
    BY <1>3, <2>2, <2>3, Zenon
<1> QED
  BY SMTT(60), <1>1, <1>2, <1>4

\* A session that has read, and one that has written.
LEMMA ShapeAfterRead ==
  ASSUME NEW read \in Nat, NEW last \in Nat, read < last, NEW data \in Seq(Nat),
         Len(data) = last - read, \A i \in 1..last - read : data[i] = read + i,
         NEW got \in Seq(Nat), Len(got) <= read, \A i \in 1..Len(got) : got[i] = i
  PROVE  UpShape("log", data, 0, last, got)
  BY DEF UpShape

LEMMA ShapeAfterWrite ==
  ASSUME NEW read \in Nat, NEW got \in Seq(Nat), Len(got) <= read,
         \A i \in 1..Len(got) : got[i] = i
  PROVE  UpShape("read", <<>>, 0, read, got)
  BY EmptySeq DEF UpShape

\* The initial state.
LEMMA InitUp == Init => UpInv
  BY EmptySeq DEF Init, UpInv, UpTypes, UpShape, Alive

\* What the other sessions keep, when one of them goes on.
LEMMA UpOfOne ==
  ASSUME UpInv, UpTypes', NEW s \in Sessions, Alive,
         \A t \in Sessions \ {s} :
           /\ up'[t] = up[t] /\ upData'[t] = upData[t] /\ logged'[t] = logged[t]
           /\ clientRead'[t] = clientRead[t] /\ toServer'[t] = toServer[t]
           /\ serverBroken'[t] = serverBroken[t] /\ session'[t] = session[t],
         UpShape(up'[s], upData'[s], logged'[s], clientRead'[s], toServer'[s]),
         session'[s] # "new",
         ~serverBroken'[s] => Len(toServer'[s]) = clientRead'[s] - Len(upData'[s])
  PROVE  UpInv'
<1>1. ASSUME NEW t \in Sessions
      PROVE  UpShape(up'[t], upData'[t], logged'[t], clientRead'[t], toServer'[t])
  BY DEF UpInv
<1>2. ASSUME NEW t \in Sessions, ~serverBroken'[t]
      PROVE  Len(toServer'[t]) = clientRead'[t] - Len(upData'[t])
  BY <1>2 DEF UpInv
<1>3. ASSUME NEW t \in Sessions, session'[t] = "new" PROVE up'[t] = "done"
  BY <1>3 DEF UpInv
<1> QED
  BY <1>1, <1>2, <1>3 DEF UpInv

\* The client's side of a session keeps it.
LEMMA ClientSideUp ==
  ASSUME UpInv, NEW s \in Sessions, Alive, ClientSide(s)
  PROVE  UpInv'
<1>1. /\ up[s] \in {"read", "log", "record", "write", "done"}
      /\ upData[s] \in Seq(Nat) /\ Len(upData[s]) \in Nat /\ logged[s] \in Nat
      /\ clientRead[s] \in Nat /\ toServer[s] \in Seq(Nat) /\ Len(toServer[s]) \in Nat
      /\ UpShape(up[s], upData[s], logged[s], clientRead[s], toServer[s])
      /\ ~serverBroken[s] => Len(toServer[s]) = clientRead[s] - Len(upData[s])
      /\ session[s] = "new" => up[s] = "done"
      /\ Alive
  BY LenProperties DEF UpInv, UpTypes
<1> DEFINE Same(t) ==
             /\ up'[t] = up[t] /\ upData'[t] = upData[t] /\ logged'[t] = logged[t]
             /\ clientRead'[t] = clientRead[t] /\ toServer'[t] = toServer[t]
             /\ serverBroken'[t] = serverBroken[t] /\ session'[t] = session[t]
<1>2. CASE Accept(s)
  <2>1. UpTypes' /\ \A t \in Sessions \ {s} : Same(t)
    BY <1>2 DEF Accept, UpInv, UpTypes, upVars, clientVars, serverVars
  <2>2. /\ up'[s] = "read" /\ upData'[s] = upData[s] /\ logged'[s] = logged[s]
        /\ clientRead'[s] = clientRead[s] /\ toServer'[s] = toServer[s]
        /\ serverBroken'[s] = serverBroken[s] /\ session[s] = "new" /\ session'[s] = "open"
    BY <1>2 DEF Accept, UpInv, UpTypes, upVars, clientVars, serverVars
  <2>3. UpShape(up'[s], upData'[s], logged'[s], clientRead'[s], toServer'[s])
    BY <1>1, <2>2 DEF UpShape
  <2> QED
    BY <1>1, <2>1, <2>2, <2>3, UpOfOne
<1>3. CASE ReadClient(s)
  <2>1. PICK last \in Reads(clientRead[s], ClientBytes[s]) :
          /\ upData' = [upData EXCEPT ![s] = Bytes(clientRead[s] + 1, last)]
          /\ clientRead' = [clientRead EXCEPT ![s] = last]
    BY <1>3 DEF ReadClient
  <2>2. last \in Nat /\ clientRead[s] < last
    BY <1>1, <2>1, ProxyAssumption DEF Reads
  <2> DEFINE data == Bytes(clientRead[s] + 1, last)
  <2>3. /\ data \in Seq(Nat)
        /\ Len(data) = last - clientRead[s]
        /\ \A i \in 1..last - clientRead[s] : data[i] = clientRead[s] + i
    <3> HIDE DEF data
    <3>1. PICK read \in Nat : read = clientRead[s]
      BY <1>1
    <3>2. data = Bytes(read + 1, last)
      BY <3>1 DEF data
    <3> QED
      BY <2>2, <3>1, <3>2, BytesRead
  <2> HIDE DEF data
  <2>4. UpTypes' /\ \A t \in Sessions \ {s} : Same(t)
    BY <1>3, <2>1, <2>2, <2>3
       DEF ReadClient, UpInv, UpTypes, upVars, listenerVars, clientVars, serverVars, data
  <2>5. /\ up[s] = "read" /\ up'[s] = "log" /\ upData'[s] = data /\ logged'[s] = logged[s]
        /\ clientRead'[s] = last /\ toServer'[s] = toServer[s]
        /\ serverBroken'[s] = serverBroken[s] /\ session'[s] = session[s]
    BY <1>3, <2>1
       DEF ReadClient, UpInv, UpTypes, upVars, listenerVars, clientVars, serverVars, data
  <2>6. upData[s] = <<>> /\ Len(upData[s]) = 0 /\ logged[s] = 0
    BY <1>1, <2>5, EmptySeq DEF UpShape
  <2>7. Len(toServer[s]) <= clientRead[s] /\ \A i \in 1..Len(toServer[s]) : toServer[s][i] = i
    BY <1>1, <2>6 DEF UpShape
  <2>8. UpShape("log", data, 0, last, toServer[s])
    BY <1>1, <2>2, <2>3, <2>7, ShapeAfterRead
  <2>9. ~serverBroken'[s] => Len(toServer'[s]) = last - Len(data)
    BY <1>1, <2>2, <2>3, <2>5, <2>6
  <2>10. session'[s] # "new"
    BY <1>1, <2>5
  <2>11. UpShape(up'[s], upData'[s], logged'[s], clientRead'[s], toServer'[s])
    BY <2>5, <2>6, <2>8
  <2>12. ~serverBroken'[s] => Len(toServer'[s]) = clientRead'[s] - Len(upData'[s])
    BY <2>5, <2>9
  <2> QED
    BY <1>1, <2>4, <2>10, <2>11, <2>12, UpOfOne
<1>4. CASE ClientEOF(s)
  <2>1. UpTypes' /\ \A t \in Sessions \ {s} : Same(t)
    BY <1>4 DEF ClientEOF, EndSession, UpInv, UpTypes, clientVars, serverVars
  <2>2. /\ up[s] = "read" /\ up'[s] = "done" /\ upData'[s] = upData[s] /\ logged'[s] = logged[s]
        /\ clientRead'[s] = clientRead[s] /\ toServer'[s] = toServer[s]
        /\ serverBroken'[s] = serverBroken[s] /\ session'[s] = "closed"
    BY <1>4 DEF ClientEOF, EndSession, UpInv, UpTypes, clientVars, serverVars
  <2>3. UpShape(up'[s], upData'[s], logged'[s], clientRead'[s], toServer'[s])
    BY <1>1, <2>2 DEF UpShape
  <2> QED
    BY <1>1, <2>1, <2>2, <2>3, UpOfOne
<1>5. CASE TakeByte(s)
  <2>1. /\ up[s] = "log" /\ logged' = [logged EXCEPT ![s] = @ + 1]
        /\ up' = IF logged'[s] = Len(upData[s]) THEN [up EXCEPT ![s] = "record"] ELSE up
        /\ UNCHANGED <<session, upData, clientRead, toServer, serverBroken>>
    BY <1>5 DEF TakeByte, listenerVars, clientVars, serverVars
  <2>2. UpTypes' /\ \A t \in Sessions \ {s} : Same(t)
    BY <2>1 DEF UpInv, UpTypes
  <2>3. /\ logged'[s] = logged[s] + 1
        /\ up'[s] = IF logged[s] + 1 = Len(upData[s]) THEN "record" ELSE "log"
    BY <2>1 DEF UpInv, UpTypes
  <2>4. logged[s] + 1 <= Len(upData[s])
    BY <1>1, <2>1 DEF UpShape
  <2>5. UpShape(up'[s], upData[s], logged[s] + 1, clientRead[s], toServer[s])
    <3>1. \/ up'[s] = "log" /\ logged[s] + 1 < Len(upData[s])
          \/ up'[s] = "record" /\ logged[s] + 1 = Len(upData[s]) /\ 0 < logged[s] + 1
      BY <1>1, <2>3, <2>4
    <3>2. /\ Len(upData[s]) <= clientRead[s]
          /\ \A i \in 1..Len(upData[s]) : upData[s][i] = clientRead[s] - Len(upData[s]) + i
          /\ Len(toServer[s]) <= clientRead[s] - Len(upData[s])
          /\ \A i \in 1..Len(toServer[s]) : toServer[s][i] = i
      BY <1>1 DEF UpShape
    <3> QED
      BY <3>1, <3>2 DEF UpShape
  <2>6. UpShape(up'[s], upData'[s], logged'[s], clientRead'[s], toServer'[s])
    BY <2>1, <2>3, <2>5
  <2>7. session'[s] # "new" /\ (~serverBroken'[s] => Len(toServer'[s]) = clientRead'[s] - Len(upData'[s]))
    BY <1>1, <2>1
  <2> QED
    BY <1>1, <2>2, <2>6, <2>7, UpOfOne
<1>6. CASE RecordClientBuffer(s)
  <2>1. UpTypes' /\ \A t \in Sessions \ {s} : Same(t)
    BY <1>6 DEF RecordClientBuffer, UpInv, UpTypes, listenerVars, clientVars, serverVars
  <2>2. /\ up[s] = "record" /\ up'[s] = "write"
        /\ UNCHANGED <<session, upData, logged, clientRead, toServer, serverBroken>>
    BY <1>6 DEF RecordClientBuffer, UpInv, UpTypes, listenerVars, clientVars, serverVars
  <2>3. UpShape(up'[s], upData[s], logged[s], clientRead[s], toServer[s])
    BY <1>1, <2>2 DEF UpShape
  <2> QED
    BY <1>1, <2>1, <2>2, <2>3, UpOfOne
<1>7. CASE WriteServer(s)
  <2>1. /\ up[s] = "write" /\ up'[s] = "read" /\ upData'[s] = <<>> /\ logged'[s] = 0
        /\ UNCHANGED <<session, clientRead>>
    BY <1>7 DEF WriteServer, UpInv, UpTypes, listenerVars, clientVars
  <2>2. CASE ~serverBroken[s] /\ toServer' = [toServer EXCEPT ![s] = @ \o upData[s]]
             /\ UNCHANGED serverBroken
    <3>1. toServer'[s] = toServer[s] \o upData[s]
      BY <2>2 DEF UpInv, UpTypes
    <3>2. /\ toServer[s] \o upData[s] \in Seq(Nat)
          /\ Len(toServer[s] \o upData[s]) = clientRead[s]
          /\ \A i \in 1..clientRead[s] : (toServer[s] \o upData[s])[i] = i
      <4>1. /\ Len(upData[s]) <= clientRead[s]
            /\ \A i \in 1..Len(upData[s]) : upData[s][i] = clientRead[s] - Len(upData[s]) + i
            /\ Len(toServer[s]) = clientRead[s] - Len(upData[s])
            /\ \A i \in 1..Len(toServer[s]) : toServer[s][i] = i
        BY <1>1, <2>1, <2>2 DEF UpShape
      <4>2. PICK read \in Nat, data \in Seq(Nat), got \in Seq(Nat) :
              read = clientRead[s] /\ data = upData[s] /\ got = toServer[s]
        BY <1>1
      <4>3. /\ Len(data) <= read
            /\ \A i \in 1..Len(data) : data[i] = read - Len(data) + i
            /\ Len(got) = read - Len(data)
            /\ \A i \in 1..Len(got) : got[i] = i
        BY <4>1, <4>2
      <4>4. /\ got \o data \in Seq(Nat)
            /\ Len(got \o data) = read
            /\ \A i \in 1..read : (got \o data)[i] = i
        BY <4>3, Written
      <4> QED
        BY <4>2, <4>4
    <3>3. /\ toServer'[s] \in Seq(Nat)
          /\ Len(toServer'[s]) = clientRead[s]
          /\ \A i \in 1..Len(toServer'[s]) : toServer'[s][i] = i
      BY <3>1, <3>2
    <3>4. UpTypes' /\ \A t \in Sessions \ {s} : Same(t)
      <4>1. PICK got \in Seq(Nat) : toServer' = [toServer EXCEPT ![s] = got]
        BY <2>2, <3>2
      <4>2. toServer' \in [Sessions -> Seq(Nat)]
        BY <4>1 DEF UpInv, UpTypes
      <4>3. \A t \in Sessions \ {s} : toServer'[t] = toServer[t]
        BY <4>1 DEF UpInv, UpTypes
      <4> QED
        BY <1>7, <2>2, <4>2, <4>3, EmptySeq
           DEF WriteServer, UpInv, UpTypes, listenerVars, clientVars
    <3>5. UpShape("read", <<>>, 0, clientRead[s], toServer'[s])
      <4>1. PICK read \in Nat, got \in Seq(Nat) : read = clientRead[s] /\ got = toServer'[s]
        BY <1>1, <3>3
      <4>2. Len(got) <= read /\ \A i \in 1..Len(got) : got[i] = i
        BY <3>3, <4>1
      <4>3. UpShape("read", <<>>, 0, read, got)
        BY <4>2, ShapeAfterWrite
      <4> QED
        BY <4>1, <4>3
    <3>6. Len(upData'[s]) = 0
      BY <2>1, EmptySeq
    <3>7. Len(toServer'[s]) = clientRead'[s] - Len(upData'[s])
      BY <1>1, <2>1, <3>3, <3>6
    <3>8. UpShape(up'[s], upData'[s], logged'[s], clientRead'[s], toServer'[s])
      BY <2>1, <3>5
    <3>9. session'[s] # "new"
      BY <1>1, <2>1
    <3> QED
      BY <1>1, <3>4, <3>7, <3>8, <3>9, UpOfOne
  <2>3. CASE ServerBreaks(s) /\ UNCHANGED toServer
    <3>1. UpTypes' /\ \A t \in Sessions \ {s} : Same(t)
      BY <1>7, <2>3, EmptySeq DEF WriteServer, ServerBreaks, UpInv, UpTypes, listenerVars, clientVars
    <3>2. serverBroken'[s]
      BY <2>3 DEF ServerBreaks, UpInv, UpTypes
    <3>3. UpShape("read", <<>>, 0, clientRead[s], toServer[s])
      BY <1>1, EmptySeq DEF UpShape
    <3> QED
      BY <1>1, <2>1, <2>3, <3>1, <3>2, <3>3, UpOfOne
  <2> QED
    BY <1>7, <2>2, <2>3 DEF WriteServer
<1> QED
  BY <1>2, <1>3, <1>4, <1>5, <1>6, <1>7 DEF ClientSide, Up

\* What the steps of the others do to the connections.
LEMMA OthersConnections ==
  ASSUME [Next]_vars
  PROVE  \/ ProgramEnds
         \/ \E s \in Sessions : ClientSide(s)
         \/ /\ UNCHANGED <<program, session>>
            /\ UNCHANGED serverBroken \/ \E s \in Sessions : ServerBreaks(s)
<1>1. ASSUME NEW s \in Sessions, Down(s)
      PROVE  /\ UNCHANGED <<program, session>>
             /\ UNCHANGED serverBroken \/ ServerBreaks(s)
  BY <1>1 DEF Down, ReadServer, ServerReadFails, RecordServerBuffer, WriteClient,
              listenerVars, serverVars
<1>2. ASSUME Keeper PROVE UNCHANGED <<program, session, serverBroken>>
  BY <1>2 DEF Keeper, HandOver, Add, WriteLog, listenerVars, serverVars
<1>3. ASSUME Control PROVE UNCHANGED <<program, session, serverBroken>>
  BY <1>3 DEF Control, SetLogLevel, Status, StatusLocks, GetMessages, StatusReturns, listenerVars, serverVars
<1>4. CASE UNCHANGED vars
  BY <1>4 DEF vars, listenerVars, serverVars
<1> QED
  BY <1>1, <1>2, <1>3, <1>4, StepCases DEF ClientSide

\* The client's side is as described after every step.
LEMMA NextUp == UpInv /\ [Next]_vars => UpInv'
<1> SUFFICES ASSUME UpInv, [Next]_vars PROVE UpInv'
  OBVIOUS
<1>1. CASE ProgramEnds
  <2>1. /\ UpTypes' /\ ~Alive'
        /\ \A s \in Sessions : /\ up'[s] = "done" /\ upData'[s] = <<>> /\ logged'[s] = 0
                               /\ clientRead'[s] = clientRead[s] /\ toServer'[s] = toServer[s]
    BY <1>1, EmptySeq DEF ProgramEnds, UpInv, UpTypes, Alive, clientVars, serverVars
  <2>2. ASSUME NEW s \in Sessions
        PROVE  UpShape("done", <<>>, 0, clientRead[s], toServer[s])
    <3>1. PICK read \in Nat, data \in Seq(Nat), got \in Seq(Nat) :
            read = clientRead[s] /\ data = upData[s] /\ got = toServer[s]
      BY DEF UpInv, UpTypes
    <3>2. Len(data) \in Nat /\ Len(got) \in Nat
      BY LenProperties
    <3>3. Len(got) <= read - Len(data) /\ \A i \in 1..Len(got) : got[i] = i
      BY <3>1 DEF UpInv, UpShape
    <3>4. UpShape("done", <<>>, 0, read, got)
      BY <3>2, <3>3, EmptySeq DEF UpShape
    <3> QED
      BY <3>1, <3>4
  <2> QED
    BY <2>1, <2>2 DEF UpInv
<1>2. CASE \E s \in Sessions : ClientSide(s) /\ Alive
  BY <1>2, ClientSideUp
<1>3. CASE /\ UNCHANGED <<UpOwn, program, session>>
           /\ UNCHANGED serverBroken \/ \E s \in Sessions : ServerBreaks(s)
  <2>1. /\ serverBroken' \in [Sessions -> BOOLEAN]
        /\ \A s \in Sessions : serverBroken[s] => serverBroken'[s]
    BY <1>3 DEF ServerBreaks, UpInv, UpTypes
  <2> QED
    BY <1>3, <2>1 DEF UpInv, UpTypes, UpOwn, upVars, Alive
<1> QED
  <2>1. Alive \/ UNCHANGED vars
    BY StepCases
  <2>2. CASE UNCHANGED vars
    <3>1. UNCHANGED <<UpOwn, program, session>> /\ UNCHANGED serverBroken
      BY <2>2 DEF vars, listenerVars, clientVars, serverVars, UpOwn
    <3> QED
      BY <1>3, <3>1
  <2> QED
    BY <1>1, <1>2, <1>3, <2>1, <2>2, WhoChanges, OthersConnections
-----------------------------------------------------------------------------
(* The server's side, in the same way.                                     *)

DownTypes ==
  /\ session \in [Sessions -> {"new", "open", "closed"}]
  /\ serverRead \in [Sessions -> Nat]
  /\ toClient \in [Sessions -> Seq(Nat)]
  /\ down \in [Sessions -> {"read", "record", "write", "done"}]
  /\ downData \in [Sessions -> Seq(Nat)]
  /\ clientBroken \in [Sessions -> BOOLEAN]

DownShape(place, data, read, got) ==
  /\ place \in {"record", "write"} => 0 < Len(data)
  /\ place \in {"read", "done"} => data = <<>>
  /\ Len(data) <= read
  /\ \A i \in 1..Len(data) : data[i] = read - Len(data) + i
  /\ Len(got) <= read - Len(data)
  /\ \A i \in 1..Len(got) : got[i] = i

DownInv ==
  /\ DownTypes
  /\ \A s \in Sessions : DownShape(down[s], downData[s], serverRead[s], toClient[s])
  /\ \A s \in Sessions : session[s] = "new" => down[s] = "done"
  /\ Alive => \A s \in Sessions :
       ~clientBroken[s] /\ session[s] # "closed" =>
         Len(toClient[s]) = serverRead[s] - Len(downData[s])

LEMMA InitDown == Init => DownInv
  BY EmptySeq DEF Init, DownInv, DownTypes, DownShape, Alive

\* A session with an empty buffer.
LEMMA ShapeEmpty ==
  ASSUME NEW place \in {"read", "done"}, NEW read \in Nat, NEW got \in Seq(Nat),
         Len(got) <= read, \A i \in 1..Len(got) : got[i] = i
  PROVE  DownShape(place, <<>>, read, got)
  BY EmptySeq DEF DownShape

\* What the other sessions keep, when one of them goes on.
LEMMA DownOfOne ==
  ASSUME DownInv, DownTypes', NEW s \in Sessions, Alive,
         \A t \in Sessions \ {s} :
           /\ down'[t] = down[t] /\ downData'[t] = downData[t]
           /\ serverRead'[t] = serverRead[t] /\ toClient'[t] = toClient[t]
           /\ clientBroken'[t] = clientBroken[t] /\ session'[t] = session[t],
         DownShape(down'[s], downData'[s], serverRead'[s], toClient'[s]),
         session'[s] # "new",
         ~clientBroken'[s] /\ session'[s] # "closed" =>
           Len(toClient'[s]) = serverRead'[s] - Len(downData'[s])
  PROVE  DownInv'
<1>1. ASSUME NEW t \in Sessions
      PROVE  DownShape(down'[t], downData'[t], serverRead'[t], toClient'[t])
  BY DEF DownInv
<1>2. ASSUME NEW t \in Sessions, ~clientBroken'[t], session'[t] # "closed"
      PROVE  Len(toClient'[t]) = serverRead'[t] - Len(downData'[t])
  BY <1>2 DEF DownInv
<1>3. ASSUME NEW t \in Sessions, session'[t] = "new" PROVE down'[t] = "done"
  BY <1>3 DEF DownInv
<1> QED
  BY <1>1, <1>2, <1>3 DEF DownInv

\* The server's side of a session keeps it.
LEMMA ServerSideDown ==
  ASSUME DownInv, NEW s \in Sessions, Alive, ServerSide(s)
  PROVE  DownInv'
<1>1. /\ down[s] \in {"read", "record", "write", "done"}
      /\ downData[s] \in Seq(Nat) /\ Len(downData[s]) \in Nat
      /\ serverRead[s] \in Nat /\ toClient[s] \in Seq(Nat) /\ Len(toClient[s]) \in Nat
      /\ DownShape(down[s], downData[s], serverRead[s], toClient[s])
      /\ ~clientBroken[s] /\ session[s] # "closed" =>
           Len(toClient[s]) = serverRead[s] - Len(downData[s])
      /\ session[s] = "new" => down[s] = "done"
  BY LenProperties DEF DownInv, DownTypes
<1> DEFINE Same(t) ==
             /\ down'[t] = down[t] /\ downData'[t] = downData[t]
             /\ serverRead'[t] = serverRead[t] /\ toClient'[t] = toClient[t]
             /\ clientBroken'[t] = clientBroken[t] /\ session'[t] = session[t]
<1>2. CASE Accept(s)
  <2>1. DownTypes' /\ \A t \in Sessions \ {s} : Same(t)
    BY <1>2 DEF Accept, DownInv, DownTypes, clientVars, serverVars
  <2>2. /\ down'[s] = "read" /\ downData'[s] = downData[s]
        /\ serverRead'[s] = serverRead[s] /\ toClient'[s] = toClient[s]
        /\ clientBroken'[s] = clientBroken[s] /\ session[s] = "new" /\ session'[s] = "open"
    BY <1>2 DEF Accept, DownInv, DownTypes, clientVars, serverVars
  <2>3. DownShape(down'[s], downData'[s], serverRead'[s], toClient'[s])
    BY <1>1, <2>2 DEF DownShape
  <2> QED
    BY <1>1, <2>1, <2>2, <2>3, DownOfOne
<1>3. CASE ReadServer(s)
  <2>1. PICK last \in Reads(serverRead[s], ServerBytes[s]) :
          /\ downData' = [downData EXCEPT ![s] = Bytes(serverRead[s] + 1, last)]
          /\ serverRead' = [serverRead EXCEPT ![s] = last]
    BY <1>3 DEF ReadServer
  <2>2. PICK read \in Nat, got \in Seq(Nat) : read = serverRead[s] /\ got = toClient[s]
    BY <1>1
  <2>3. last \in Nat /\ read < last
    BY <2>1, <2>2, ProxyAssumption DEF Reads
  <2> DEFINE data == Bytes(read + 1, last)
  <2>4. /\ data \in Seq(Nat)
        /\ Len(data) = last - read
        /\ \A i \in 1..last - read : data[i] = read + i
    BY <2>3, BytesRead
  <2> HIDE DEF data
  <2>5. downData' = [downData EXCEPT ![s] = data]
    BY <2>1, <2>2 DEF data
  <2>6. DownTypes' /\ \A t \in Sessions \ {s} : Same(t)
    BY <1>3, <2>1, <2>3, <2>4, <2>5
       DEF ReadServer, DownInv, DownTypes, listenerVars, clientVars
  <2>7. /\ down[s] = "read" /\ down'[s] = "record" /\ downData'[s] = data
        /\ serverRead'[s] = last /\ toClient'[s] = got
        /\ clientBroken'[s] = clientBroken[s] /\ session'[s] = session[s] /\ session[s] = "open"
    BY <1>3, <2>1, <2>2, <2>5 DEF ReadServer, DownInv, DownTypes, listenerVars, clientVars
  <2>8. downData[s] = <<>> /\ Len(downData[s]) = 0
    BY <1>1, <2>7, EmptySeq DEF DownShape
  <2>9. Len(got) <= read /\ \A i \in 1..Len(got) : got[i] = i
    BY <1>1, <2>2, <2>8 DEF DownShape
  <2>10. DownShape("record", data, last, got)
    BY <2>3, <2>4, <2>9 DEF DownShape
  <2>11. ~clientBroken'[s] => Len(got) = last - Len(data)
    BY <1>1, <2>2, <2>3, <2>4, <2>7, <2>8
  <2>12. DownShape(down'[s], downData'[s], serverRead'[s], toClient'[s])
    BY <2>7, <2>10
  <2>13. ~clientBroken'[s] => Len(toClient'[s]) = serverRead'[s] - Len(downData'[s])
    BY <2>7, <2>11
  <2> QED
    BY <2>6, <2>7, <2>12, <2>13, DownOfOne
<1>4. CASE ServerReadFails(s)
  <2>1. DownTypes' /\ \A t \in Sessions \ {s} : Same(t)
    BY <1>4 DEF ServerReadFails, DownInv, DownTypes, listenerVars, clientVars
  <2>2. /\ down[s] = "read" /\ down'[s] = "done"
        /\ UNCHANGED <<session, downData, serverRead, toClient, clientBroken>>
    BY <1>4 DEF ServerReadFails, DownInv, DownTypes, listenerVars, clientVars
  <2>3. DownShape(down'[s], downData[s], serverRead[s], toClient[s])
    BY <1>1, <2>2 DEF DownShape
  <2> QED
    BY <1>1, <2>1, <2>2, <2>3, DownOfOne
<1>5. CASE RecordServerBuffer(s)
  <2>1. DownTypes' /\ \A t \in Sessions \ {s} : Same(t)
    BY <1>5 DEF RecordServerBuffer, DownInv, DownTypes, listenerVars, clientVars, serverVars
  <2>2. /\ down[s] = "record" /\ down'[s] = "write"
        /\ UNCHANGED <<session, downData, serverRead, toClient, clientBroken>>
    BY <1>5 DEF RecordServerBuffer, DownInv, DownTypes, listenerVars, clientVars, serverVars
  <2>3. DownShape(down'[s], downData[s], serverRead[s], toClient[s])
    BY <1>1, <2>2 DEF DownShape
  <2> QED
    BY <1>1, <2>1, <2>2, <2>3, DownOfOne
<1>6. CASE WriteClient(s)
  <2>1. /\ down[s] = "write" /\ down'[s] = "read" /\ downData'[s] = <<>>
        /\ UNCHANGED <<session, serverRead>> /\ session[s] # "new"
    BY <1>1, <1>6 DEF WriteClient, DownInv, DownTypes, listenerVars, serverVars
  <2>2. PICK read \in Nat, data \in Seq(Nat), got \in Seq(Nat) :
          read = serverRead[s] /\ data = downData[s] /\ got = toClient[s]
    BY <1>1
  <2>3. /\ Len(data) <= read
        /\ \A i \in 1..Len(data) : data[i] = read - Len(data) + i
        /\ Len(got) <= read - Len(data)
        /\ \A i \in 1..Len(got) : got[i] = i
    BY <1>1, <2>2 DEF DownShape
  <2>4. CASE /\ session[s] = "open" /\ ~clientBroken[s]
             /\ toClient' = [toClient EXCEPT ![s] = @ \o downData[s]]
             /\ UNCHANGED clientBroken
    <3>1. Len(got) = read - Len(data)
      BY <1>1, <2>2, <2>4
    <3>2. /\ got \o data \in Seq(Nat)
          /\ Len(got \o data) = read
          /\ \A i \in 1..read : (got \o data)[i] = i
      BY <2>3, <3>1, Written
    <3>3. PICK all \in Seq(Nat) : all = got \o data
      BY <3>2
    <3>4. toClient' = [toClient EXCEPT ![s] = all]
      BY <2>2, <2>4, <3>3
    <3>5. DownTypes' /\ \A t \in Sessions \ {s} : Same(t)
      BY <1>6, <2>4, <3>4, EmptySeq DEF WriteClient, DownInv, DownTypes, listenerVars, serverVars
    <3>6. toClient'[s] = all
      BY <3>4 DEF DownInv, DownTypes
    <3>7. DownShape("read", <<>>, read, all)
      <4>1. Len(all) = read /\ \A i \in 1..read : all[i] = i
        BY <3>2, <3>3
      <4>2. Len(all) <= read /\ \A i \in 1..Len(all) : all[i] = i
        BY <4>1
      <4> QED
        BY <4>2, ShapeEmpty
    <3>8. Len(all) = read - Len(<<>>)
      BY <3>2, <3>3, EmptySeq
    <3> QED
      BY <2>1, <2>2, <3>5, <3>6, <3>7, <3>8, DownOfOne
  <2>5. CASE /\ UNCHANGED toClient
             /\ (session[s] = "closed" /\ UNCHANGED clientBroken) \/ ClientBreaks(s)
    <3>1. DownTypes' /\ \A t \in Sessions \ {s} : Same(t)
      BY <1>6, <2>5, EmptySeq
         DEF WriteClient, ClientBreaks, DownInv, DownTypes, listenerVars, serverVars
    <3>2. session'[s] = "closed" \/ clientBroken'[s]
      BY <2>1, <2>5 DEF ClientBreaks, DownInv, DownTypes
    <3>3. Len(data) \in Nat /\ Len(got) \in Nat
      BY LenProperties
    <3>4. DownShape("read", <<>>, read, got)
      BY <2>3, <3>3, ShapeEmpty
    <3>5. DownShape(down'[s], downData'[s], serverRead'[s], toClient'[s])
      BY <2>1, <2>2, <2>5, <3>4
    <3> QED
      BY <2>1, <3>1, <3>2, <3>5, DownOfOne
  <2> QED
    BY <1>6, <2>4, <2>5 DEF WriteClient
<1> QED
  BY <1>2, <1>3, <1>4, <1>5, <1>6 DEF ServerSide, Down

\* What the steps of the others do to the connections.
LEMMA OthersClients ==
  ASSUME [Next]_vars
  PROVE  \/ ProgramEnds
         \/ \E s \in Sessions : ServerSide(s)
         \/ /\ UNCHANGED <<program, clientBroken>>
            /\ \/ UNCHANGED session
               \/ \E s \in Sessions : session' = [session EXCEPT ![s] = "closed"]
<1>1. ASSUME NEW s \in Sessions, Up(s)
      PROVE  /\ UNCHANGED <<program, clientBroken>>
             /\ UNCHANGED session \/ session' = [session EXCEPT ![s] = "closed"]
  BY <1>1 DEF Up, ReadClient, EndSession, ClientEOF, TakeByte, RecordClientBuffer, WriteServer,
              listenerVars, clientVars
<1>2. ASSUME Keeper PROVE UNCHANGED <<program, session, clientBroken>>
  BY <1>2 DEF Keeper, HandOver, Add, WriteLog, listenerVars, clientVars
<1>3. ASSUME Control PROVE UNCHANGED <<program, session, clientBroken>>
  BY <1>3 DEF Control, SetLogLevel, Status, StatusLocks, GetMessages, StatusReturns, listenerVars, clientVars
<1>4. CASE UNCHANGED vars
  BY <1>4 DEF vars, listenerVars, clientVars
<1> QED
  BY <1>1, <1>2, <1>3, <1>4, StepCases DEF ServerSide

\* The server's side is as described after every step.
LEMMA NextDown == DownInv /\ [Next]_vars => DownInv'
<1> SUFFICES ASSUME DownInv, [Next]_vars PROVE DownInv'
  OBVIOUS
<1>1. CASE ProgramEnds
  <2>1. /\ DownTypes' /\ ~Alive'
        /\ \A s \in Sessions : /\ down'[s] = "done" /\ downData'[s] = <<>>
                               /\ serverRead'[s] = serverRead[s] /\ toClient'[s] = toClient[s]
    BY <1>1, EmptySeq DEF ProgramEnds, DownInv, DownTypes, Alive, clientVars, serverVars
  <2>2. ASSUME NEW s \in Sessions
        PROVE  DownShape("done", <<>>, serverRead[s], toClient[s])
    <3>1. PICK read \in Nat, data \in Seq(Nat), got \in Seq(Nat) :
            read = serverRead[s] /\ data = downData[s] /\ got = toClient[s]
      BY DEF DownInv, DownTypes
    <3>2. Len(data) \in Nat /\ Len(got) \in Nat
      BY LenProperties
    <3>3. Len(got) <= read - Len(data) /\ \A i \in 1..Len(got) : got[i] = i
      BY <3>1 DEF DownInv, DownShape
    <3>4. DownShape("done", <<>>, read, got)
      BY <3>2, <3>3, ShapeEmpty
    <3> QED
      BY <3>1, <3>4
  <2> QED
    BY <2>1, <2>2 DEF DownInv
<1>2. CASE \E s \in Sessions : ServerSide(s) /\ Alive
  BY <1>2, ServerSideDown
<1>3. CASE /\ UNCHANGED <<DownOwn, program, clientBroken>>
           /\ \/ UNCHANGED session
              \/ \E s \in Sessions : session' = [session EXCEPT ![s] = "closed"]
  <2>1. /\ session' \in [Sessions -> {"new", "open", "closed"}]
        /\ \A s \in Sessions : session'[s] \in {session[s], "closed"}
    BY <1>3 DEF DownInv, DownTypes
  <2> QED
    BY <1>3, <2>1 DEF DownInv, DownTypes, DownOwn, downVars, Alive
<1> QED
  <2>1. Alive \/ UNCHANGED vars
    BY StepCases
  <2>2. CASE UNCHANGED vars
    <3>1. UNCHANGED <<DownOwn, program, clientBroken>> /\ UNCHANGED session
      BY <2>2 DEF vars, listenerVars, clientVars, serverVars, DownOwn
    <3> QED
      BY <1>3, <3>1
  <2> QED
    BY <1>1, <1>2, <1>3, <2>1, <2>2, WhoChanges, OthersClients
-----------------------------------------------------------------------------
(* The report feed: whoever makes a report holds its lock.                 *)

FeedInv ==
  /\ feedLock \in Readers \cup {None}
  /\ lastClient \in Buffers
  /\ lastServer \in Buffers
  /\ status \in [Readers -> {"idle", "getMessages", "copy"}]
  /\ \A r \in Readers : status[r] # "idle" => feedLock = r
  /\ logging \in BOOLEAN

LEMMA InitFeed == Init => FeedInv
  BY EmptySeq, ProxyAssumption DEF Init, FeedInv, NoBuffer, Buffers

LEMMA NextFeed == UpInv /\ DownInv /\ FeedInv /\ [Next]_vars => FeedInv'
<1> SUFFICES ASSUME UpInv, DownInv, FeedInv, [Next]_vars PROVE FeedInv'
  OBVIOUS
<1>1. CASE ProgramEnds
  BY <1>1, EmptySeq DEF ProgramEnds, FeedInv, NoBuffer, Buffers
<1>2. ASSUME NEW s \in Sessions, RecordClientBuffer(s) PROVE FeedInv'
  <2>1. upData[s] \in Seq(Nat)
    BY DEF UpInv, UpTypes
  <2> QED
    BY <1>2, <2>1 DEF RecordClientBuffer, FeedInv, Buffers
<1>3. ASSUME NEW s \in Sessions, RecordServerBuffer(s) PROVE FeedInv'
  <2>1. downData[s] \in Seq(Nat)
    BY DEF DownInv, DownTypes
  <2> QED
    BY <1>3, <2>1 DEF RecordServerBuffer, feedVars, FeedInv, Buffers
<1>4. ASSUME NEW r \in Readers, Status(r) PROVE FeedInv'
  <2>1. UNCHANGED <<lastClient, lastServer>>
    BY <1>4 DEF Status, StatusLocks, GetMessages, StatusReturns
  <2>2. None \notin Readers
    BY ProxyAssumption
  <2>3. CASE StatusLocks(r)
    BY <2>1, <2>2, <2>3 DEF StatusLocks, FeedInv
  <2>4. CASE GetMessages(r)
    BY <2>1, <2>2, <2>4 DEF GetMessages, FeedInv
  <2>5. CASE StatusReturns(r)
    BY <2>1, <2>2, <2>5 DEF StatusReturns, FeedInv
  <2> QED
    BY <1>4, <2>3, <2>4, <2>5 DEF Status
<1>5. CASE SetLogLevel
  BY <1>5, ProxyAssumption DEF SetLogLevel, FeedInv
<1>6. CASE UNCHANGED feedVars
  BY <1>6 DEF feedVars, FeedInv
<1> QED
  BY <1>1, <1>2, <1>3, <1>4, <1>5, <1>6, WhoChanges DEF Control

\* While a report is made, the buffers stay, and while it reads the messages
\* the queue does.
LEMMA FeedHolds ==
  ASSUME FeedInv, [Next]_vars, NEW r \in Readers
  PROVE  /\ status[r] # "idle" /\ status'[r] # "idle" => UNCHANGED <<lastClient, lastServer>>
         /\ status[r] = "copy" /\ status'[r] = "copy" => UNCHANGED queue
<1>1. CASE ProgramEnds
  BY <1>1 DEF ProgramEnds
<1>2. ASSUME Control PROVE UNCHANGED <<lastClient, lastServer>>
  BY <1>2 DEF Control, SetLogLevel, Status, StatusLocks, GetMessages, StatusReturns
<1>3. ASSUME NEW s \in Sessions, RecordClientBuffer(s) \/ RecordServerBuffer(s)
      PROVE  status[r] = "idle"
  BY <1>3, ProxyAssumption DEF RecordClientBuffer, RecordServerBuffer, FeedInv
<1>4. ASSUME status[r] = "copy", Keeper PROVE UNCHANGED queue
  BY <1>4 DEF Keeper, HandOver, Add, WriteLog
<1>5. ASSUME NEW s \in Sessions, TakeByte(s) PROVE UNCHANGED queue
  BY <1>5 DEF TakeByte
<1> QED
  BY <1>1, <1>2, <1>3, <1>4, <1>5, WhoChanges DEF feedVars, handlerVars
-----------------------------------------------------------------------------
(* The RTCM handler and the keeper: the bytes go on from one to the other  *)
(* and none is lost, doubled or overtaken.                                 *)

\* What the log may have in it.
Entries == (Sessions \X Nat) \cup ToSet(TextLines)

HandlerTypes ==
  /\ handler \in {"get", "send"}
  /\ held \in Messages
  /\ message \in Messages
  /\ keeper \in {"receive", "add", "log"}
  /\ adding \in Messages
  /\ log \in Seq(Entries)
  /\ skipped \subseteq Sessions \X Nat
  /\ queue \in Seq(Messages)
  /\ Len(queue) <= MaxItems

HandlerInv ==
  /\ HandlerTypes
  /\ handler = "get" => message = <<>>
  /\ keeper = "receive" => adding = <<>>

LEMMA TextInLog ==
  ASSUME NEW on \in BOOLEAN
  PROVE  /\ Logged(on, TextLines) \in Seq(Entries)
         /\ \A j \in DOMAIN Logged(on, TextLines) : Logged(on, TextLines)[j][1] = None
<1>1. /\ Len(TextLines) = 2 /\ DOMAIN TextLines = {1, 2}
      /\ TextLines[1] = <<None, 1>> /\ TextLines[2] = <<None, 2>>
  BY DEF TextLines
<1>2. TextLines[1] \in Entries /\ TextLines[2] \in Entries
  BY <1>1 DEF Entries, ToSet
<1>3. TextLines \in Seq(Entries)
  BY <1>1, <1>2 DEF TextLines
<1>4. <<>> \in Seq(Entries) /\ DOMAIN <<>> = {}
  OBVIOUS
<1>5. \A j \in DOMAIN TextLines : TextLines[j][1] = None
  BY <1>1
<1> QED
  BY <1>3, <1>4, <1>5 DEF Logged

LEMMA InitHandler == Init => HandlerInv
<1> SUFFICES ASSUME Init PROVE HandlerInv
  OBVIOUS
<1>1. log \in Seq(Entries)
  BY TextInLog, ProxyAssumption DEF Init
<1> QED
  BY <1>1, EmptySeq, ProxyAssumption DEF Init, HandlerInv, HandlerTypes, Messages

LEMMA MessagesAreEntries ==
  ASSUME NEW q \in Messages
  PROVE  /\ q \in Seq(Entries) /\ q \in Seq(Sessions \X Nat)
         /\ ToSet(q) \subseteq Sessions \X Nat
<1>1. q \in [1..Len(q) -> Sessions \X Nat] /\ Len(q) \in Nat
  BY LenProperties DEF Messages
<1>2. q \in [1..Len(q) -> Entries]
  BY <1>1 DEF Entries
<1>3. q \in Seq(Entries)
  <2>1. PICK n \in Nat : n = Len(q) /\ q \in [1..n -> Entries]
    BY <1>1, <1>2
  <2> QED
    BY <2>1
<1>4. ToSet(q) \subseteq Sessions \X Nat
  <2>1. DOMAIN q = 1..Len(q)
    BY <1>1
  <2> QED
    BY <1>1, <2>1, Zenon DEF ToSet
<1> QED
  BY <1>3, <1>4 DEF Messages

LEMMA AppendLater ==
  ASSUME NEW S, NEW p \in Seq(S), NEW q \in Seq(S), NEW x \in S
  PROVE  p \o Append(q, x) = Append(p \o q, x)
<1>1. <<x>> \in Seq(S) /\ p \o q \in Seq(S)
  BY ConcatProperties
<1>2. Append(q, x) = q \o <<x>>
  BY AppendIsConcat
<1>3. (p \o q) \o <<x>> = p \o (q \o <<x>>)
  BY <1>1, ConcatAssociative
<1>4. Append(p \o q, x) = (p \o q) \o <<x>>
  BY <1>1, AppendIsConcat
<1> QED
  BY <1>2, <1>3, <1>4

LEMMA Associative ==
  ASSUME NEW S, NEW p \in Seq(S), NEW q \in Seq(S), NEW r \in Seq(S)
  PROVE  (p \o q) \o r = p \o (q \o r)
  BY ConcatAssociative

\* The queue never holds more than its capacity.
LEMMA LatestBounded ==
  ASSUME NEW S, NEW q \in Seq(S)
  PROVE  Latest(q) \in Seq(S) /\ Len(Latest(q)) <= MaxItems
<1>1. Len(q) \in Nat /\ MaxItems \in Nat
  BY LenProperties, ProxyAssumption
<1>2. CASE Len(q) <= MaxItems
  BY <1>2 DEF Latest
<1>3. CASE ~(Len(q) <= MaxItems)
  <2> DEFINE last == SubSeq(q, Len(q) - MaxItems + 1, Len(q))
  <2>1. \A i \in Len(q) - MaxItems + 1..Len(q) : q[i] \in S
    BY <1>1, <1>3, ElementOfSeq
  <2>2. last \in Seq(S)
    BY <1>1, <2>1, SubSeqProperties
  <2>3. Len(last) <= MaxItems
    BY <1>1, <2>1, SubSeqProperties
  <2> QED
    BY <1>3, <2>2, <2>3 DEF Latest
<1> QED
  BY <1>2, <1>3

\* The byte that TakeByte takes.
Byte(s) == <<s, upData[s][logged[s] + 1]>>

LEMMA ByteTaken ==
  ASSUME UpInv, NEW s \in Sessions, up[s] = "log"
  PROVE  /\ Byte(s) \in Sessions \X Nat
         /\ Byte(s)[1] = s
         /\ Byte(s)[2] = Taken(s) + 1
         /\ Taken(s) \in Nat
<1>1. PICK data \in Seq(Nat), n \in Nat, read \in Nat :
        data = upData[s] /\ n = logged[s] /\ read = clientRead[s]
  BY DEF UpInv, UpTypes
<1>2. /\ Len(data) \in Nat
      /\ n < Len(data) /\ Len(data) <= read
      /\ \A i \in 1..Len(data) : data[i] = read - Len(data) + i
  BY <1>1, LenProperties DEF UpInv, UpShape
<1>3. n + 1 \in 1..Len(data)
  BY <1>2
<1>4. data[n + 1] = read - Len(data) + (n + 1)
  BY <1>2, <1>3
<1>5. data[n + 1] = (read - (Len(data) - n)) + 1 /\ read - (Len(data) - n) \in Nat
  BY <1>2, <1>4
<1> QED
  BY SMTT(60), <1>1, <1>5 DEF Byte, Taken

\* A byte that the handler takes goes to the end of what it was given.
LEMMA TakeByteRecords ==
  ASSUME UpInv, HandlerInv, NEW s \in Sessions, TakeByte(s)
  PROVE  HandlerInv' /\ Recorded' = Append(Recorded, Byte(s)) /\ skipped' = skipped
<1> DEFINE S == Entries
           b == Byte(s)
<1>1. b \in S /\ b \in Sessions \X Nat
  BY ByteTaken DEF TakeByte, Entries
<1>2. /\ handler = "get" /\ message = <<>> /\ UNCHANGED <<keeper, adding, log, skipped, queue>>
      /\ \/ held' = Append(held, b) /\ message' = <<>> /\ handler' = "get"
         \/ message' = Append(held, b) /\ held' = <<>> /\ handler' = "send"
         \/ message' = held /\ held' = <<b>> /\ handler' = "send"
  BY DEF TakeByte, HandlerInv, Byte
<1>3. held \in Seq(S) /\ log \in Seq(S) /\ adding \in Seq(S) /\ log \o adding \in Seq(S)
  BY MessagesAreEntries, ConcatProperties DEF HandlerInv, HandlerTypes
<1>4. /\ Append(held, b) \in Seq(S) /\ <<b>> \in Seq(S) /\ <<>> \in Seq(S)
      /\ Append(held, b) \in Messages /\ <<b>> \in Messages /\ <<>> \in Messages
  <2>1. held \in Messages
    BY DEF HandlerInv, HandlerTypes
  <2> HIDE DEF S, b
  <2> QED
    BY <1>1, <1>3, <2>1, AppendProperties, EmptySeq DEF Messages
<1>5. HandlerInv'
  BY <1>2, <1>4 DEF HandlerInv, HandlerTypes
<1> DEFINE q == log \o adding
<1>6. Recorded = q \o held
  <2>1. q \o <<>> = q
    BY <1>3, ConcatEmptySeq
  <2> QED
    BY <1>2, <2>1 DEF Recorded
<1>7. q \o Append(held, b) = Append(q \o held, b)
  <2>1. q \in Seq(S)
    BY <1>3
  <2> HIDE DEF S, b, q
  <2> QED
    BY <1>1, <1>3, <2>1, AppendLater
<1>8. Recorded' = q \o Append(held, b)
  <2>1. Recorded' = (q \o message') \o held'
    BY <1>2 DEF Recorded
  <2>2. CASE held' = Append(held, b) /\ message' = <<>>
    BY <1>3, <2>1, <2>2, ConcatEmptySeq
  <2>3. CASE message' = Append(held, b) /\ held' = <<>>
    <3>1. q \o Append(held, b) \in Seq(S)
      BY <1>3, <1>4, ConcatProperties
    <3> QED
      BY <2>1, <2>3, <3>1, ConcatEmptySeq
  <2>4. CASE message' = held /\ held' = <<b>>
    <3>1. q \o held \in Seq(S)
      BY <1>3, ConcatProperties
    <3>2. Append(q \o held, b) = (q \o held) \o <<b>>
      BY <1>1, <3>1, AppendIsConcat
    <3> QED
      BY <1>7, <2>1, <2>4, <3>2
  <2> QED
    BY <1>2, <2>2, <2>3, <2>4
<1> QED
  BY <1>2, <1>5, <1>6, <1>7, <1>8

\* The keeper passes the messages on as they are, except that a message that
\* comes to the log while that is off goes out of what is recorded.
LEMMA KeeperKeeps ==
  ASSUME HandlerInv, FeedInv, Keeper
  PROVE  /\ HandlerInv'
         /\ \/ Recorded' = Recorded /\ skipped' = skipped
            \/ /\ Recorded = (log \o adding) \o (message \o held)
               /\ Recorded' = log \o (message \o held)
               /\ skipped' = skipped \cup ToSet(adding)
<1> DEFINE S == Entries
<1>1. /\ held \in Seq(S) /\ message \in Seq(S) /\ log \in Seq(S) /\ adding \in Seq(S)
      /\ log \o adding \in Seq(S) /\ <<>> \in Seq(S) /\ <<>> \in Messages
  BY MessagesAreEntries, ConcatProperties, EmptySeq DEF HandlerInv, HandlerTypes, Messages
<1>2. CASE HandOver
  <2>1. /\ adding = <<>> /\ adding' = message /\ message' = <<>>
        /\ UNCHANGED <<held, log, skipped, queue>>
        /\ handler' = "get" /\ keeper' = "add"
    BY <1>2 DEF HandOver, HandlerInv
  <2>2. HandlerInv'
    BY <1>1, <2>1 DEF HandlerInv, HandlerTypes
  <2>3. log \o message \in Seq(S)
    BY <1>1, ConcatProperties
  <2>4. log \o <<>> = log /\ (log \o message) \o <<>> = log \o message
    BY <1>1, <2>3, ConcatEmptySeq
  <2> QED
    BY <2>1, <2>2, <2>4 DEF Recorded
<1>3. CASE Add
  <2>1. /\ queue' = Latest(Append(queue, adding)) /\ keeper' = "log"
        /\ UNCHANGED <<handler, held, message, adding, log, skipped>>
    BY <1>3 DEF Add
  <2>2. Append(queue, adding) \in Seq(Messages)
    BY AppendProperties DEF HandlerInv, HandlerTypes
  <2>3. queue' \in Seq(Messages) /\ Len(queue') <= MaxItems
    BY <2>1, <2>2, LatestBounded
  <2> QED
    BY <2>1, <2>3 DEF HandlerInv, HandlerTypes, Recorded
<1>4. CASE WriteLog
  <2>1. /\ log' = log \o Logged(logging, adding) /\ adding' = <<>> /\ keeper' = "receive"
        /\ skipped' = IF logging THEN skipped ELSE skipped \cup ToSet(adding)
        /\ UNCHANGED <<handler, held, message, queue>>
    BY <1>4 DEF WriteLog
  <2>2. ToSet(adding) \subseteq Sessions \X Nat
    BY MessagesAreEntries DEF HandlerInv, HandlerTypes
  <2>3. log \o <<>> = log /\ (log \o adding) \o <<>> = log \o adding
    BY <1>1, ConcatEmptySeq
  <2>4. CASE logging
    <3>1. log' = log \o adding /\ skipped' = skipped
      BY <2>1, <2>4 DEF Logged
    <3> QED
      BY <1>1, <2>1, <2>3, <3>1 DEF HandlerInv, HandlerTypes, Recorded
  <2>5. CASE ~logging
    <3>1. log' = log /\ skipped' = skipped \cup ToSet(adding)
      BY <2>1, <2>3, <2>5 DEF Logged
    <3>2. HandlerInv'
      BY <1>1, <2>1, <2>2, <3>1 DEF HandlerInv, HandlerTypes
    <3>3. /\ ((log \o adding) \o message) \o held = (log \o adding) \o (message \o held)
          /\ (log \o message) \o held = log \o (message \o held)
      <4>1. PICK x \in Seq(S) : x = log \o adding
        BY <1>1
      <4>2. PICK y \in Seq(S), z \in Seq(S), u \in Seq(S) : y = log /\ z = message /\ u = held
        BY <1>1
      <4> HIDE DEF S
      <4>3. (x \o z) \o u = x \o (z \o u)
        BY <4>1, <4>2, Associative
      <4>4. (y \o z) \o u = y \o (z \o u)
        BY <4>1, <4>2, Associative
      <4> QED
        BY <4>1, <4>2, <4>3, <4>4, Zenon
    <3>4. Recorded' = (log \o message) \o held
      BY <2>1, <2>3, <3>1 DEF Recorded
    <3> QED
      BY <3>1, <3>2, <3>3, <3>4 DEF Recorded
  <2> QED
    BY <2>4, <2>5
<1> QED
  BY <1>2, <1>3, <1>4 DEF Keeper

LEMMA NextHandler == UpInv /\ HandlerInv /\ FeedInv /\ [Next]_vars => HandlerInv'
<1> SUFFICES ASSUME UpInv, HandlerInv, FeedInv, [Next]_vars PROVE HandlerInv'
  OBVIOUS
<1>1. CASE ProgramEnds
  BY <1>1, EmptySeq, ProxyAssumption DEF ProgramEnds, HandlerInv, HandlerTypes, Messages
<1>2. CASE UNCHANGED handlerVars
  BY <1>2 DEF handlerVars, HandlerInv, HandlerTypes
<1> QED
  BY <1>1, <1>2, WhoChanges, TakeByteRecords, KeeperKeeps
-----------------------------------------------------------------------------
(* Each byte is copied, or skipped while the log is off.                   *)

\* In R, the bytes of s that are not in K are those from 1 to n, in order.
CopyOf(R, K, s, n) ==
  /\ \A i \in 1..n : <<s, i>> \in K \/ \E j \in DOMAIN R : R[j][1] = s /\ R[j][2] = i
  /\ \A j \in DOMAIN R : R[j][1] = s => R[j][2] \in 1..n /\ R[j] \notin K
  /\ \A j, k \in DOMAIN R : R[j][1] = s /\ R[k][1] = s /\ j < k => R[j][2] < R[k][2]
  /\ \A i \in Nat : <<s, i>> \in K => i \in 1..n

CopyInv == Alive => \A s \in Sessions : CopyOf(Recorded, skipped, s, Taken(s))

\* It stays so when the next byte of s comes, and when one of another session does.
LEMMA CopyGrows ==
  ASSUME NEW R \in Seq(Entries), NEW b \in Sessions \X Nat, NEW K \in SUBSET (Sessions \X Nat),
         NEW s \in Sessions, NEW n \in Nat, CopyOf(R, K, s, n),
         NEW m \in Nat, IF b[1] = s THEN m = n + 1 /\ b[2] = m ELSE m = n
  PROVE  CopyOf(Append(R, b), K, s, m)
<1> DEFINE A == Append(R, b)
           S == Entries
<1>1. /\ Len(R) \in Nat /\ DOMAIN R = 1..Len(R)
      /\ DOMAIN A = 1..Len(R) + 1
      /\ \A i \in 1..Len(R) : A[i] = R[i]
      /\ A[Len(R) + 1] = b
  <2> HIDE DEF S
  <2>1. R \in Seq(S) /\ b \in S
    BY DEF S, Entries
  <2>2. /\ A \in Seq(S)
        /\ Len(A) = Len(R) + 1
        /\ \A i \in 1..Len(R) : A[i] = R[i]
        /\ A[Len(R) + 1] = b
    BY <2>1, AppendProperties
  <2>3. DOMAIN A = 1..Len(A) /\ DOMAIN R = 1..Len(R) /\ Len(R) \in Nat
    BY <2>1, <2>2, LenProperties
  <2> QED
    BY <2>2, <2>3
<1> HIDE DEF A
<1>2. ASSUME NEW i \in 1..m, <<s, i>> \notin K
      PROVE  \E j \in DOMAIN A : A[j][1] = s /\ A[j][2] = i
  <2>1. CASE i \in 1..n
    <3>1. PICK j \in DOMAIN R : R[j][1] = s /\ R[j][2] = i
      BY <1>2, <2>1 DEF CopyOf
    <3>2. j \in DOMAIN A /\ A[j] = R[j]
      BY <1>1, <3>1
    <3> QED
      BY <3>1, <3>2
  <2>2. CASE i \notin 1..n
    <3>1. i = m /\ b[1] = s /\ b[2] = m
      BY <2>2
    <3>2. Len(R) + 1 \in DOMAIN A
      BY <1>1
    <3> QED
      BY <1>1, <3>1, <3>2
  <2> QED
    BY <2>1, <2>2
<1>3. ASSUME NEW j \in DOMAIN A, A[j][1] = s PROVE A[j][2] \in 1..m /\ A[j] \notin K
  <2>1. CASE j \in DOMAIN R
    <3>1. A[j] = R[j]
      BY <1>1, <2>1
    <3>2. R[j][2] \in 1..n /\ R[j] \notin K
      BY <1>3, <2>1, <3>1 DEF CopyOf
    <3> QED
      BY <3>1, <3>2
  <2>2. CASE j \notin DOMAIN R
    <3>1. A[j] = b
      BY <1>1, <2>2
    <3>2. m = n + 1 /\ b = <<s, m>>
      BY <1>3, <3>1
    <3>3. b \notin K
      BY <3>2 DEF CopyOf
    <3> QED
      BY <3>1, <3>2, <3>3
  <2> QED
    BY <2>1, <2>2
<1>4. ASSUME NEW j \in DOMAIN A, NEW k \in DOMAIN A, A[j][1] = s, A[k][1] = s, j < k
      PROVE  A[j][2] < A[k][2]
  <2>1. j \in DOMAIN R /\ A[j] = R[j]
    BY <1>1, <1>4
  <2>2. R[j][2] \in 1..n
    BY <1>4, <2>1 DEF CopyOf
  <2>3. CASE k \in DOMAIN R
    <3>1. A[k] = R[k]
      BY <1>1, <2>3
    <3> QED
      BY <1>4, <2>1, <2>3, <3>1 DEF CopyOf
  <2>4. CASE k \notin DOMAIN R
    <3>1. A[k] = b
      BY <1>1, <2>4
    <3> QED
      BY <1>4, <2>1, <2>2, <3>1
  <2> QED
    BY <2>3, <2>4
<1>5. ASSUME NEW i \in Nat, <<s, i>> \in K PROVE i \in 1..m
  BY <1>5 DEF CopyOf
<1> QED
  BY <1>2, <1>3, <1>4, <1>5 DEF CopyOf, A

\* It stays so when R loses some bytes, those of L, which count as skipped:
\* e tells where in R what is left was.
Loses(R, Q, e, L) ==
  /\ DOMAIN R \subseteq Int /\ DOMAIN Q \subseteq Int
  /\ e \in [DOMAIN Q -> DOMAIN R]
  /\ \A j, k \in DOMAIN Q : j < k => e[j] < e[k]
  /\ \A j \in DOMAIN Q : Q[j] = R[e[j]]
  /\ \A j \in DOMAIN R : R[j] \in L \/ \E k \in DOMAIN Q : e[k] = j
  /\ \A x \in L : \E j \in DOMAIN R : R[j] = x /\ \A k \in DOMAIN Q : e[k] # j

LEMMA CopyLoses ==
  ASSUME NEW R, NEW Q, NEW e, NEW K, NEW L \in SUBSET (Sessions \X Nat),
         NEW s \in Sessions, NEW n \in Nat, CopyOf(R, K, s, n), Loses(R, Q, e, L)
  PROVE  CopyOf(Q, K \cup L, s, n)
<1> USE DEF Loses
<1>1. ASSUME NEW i \in 1..n, <<s, i>> \notin K \cup L
      PROVE  \E j \in DOMAIN Q : Q[j][1] = s /\ Q[j][2] = i
  <2>1. PICK j \in DOMAIN R : R[j][1] = s /\ R[j][2] = i
    BY <1>1 DEF CopyOf
  <2>2. R[j] \in L => R[j] = <<s, i>>
    BY <2>1
  <2>3. PICK k \in DOMAIN Q : e[k] = j
    BY <1>1, <2>2
  <2> QED
    BY <2>1, <2>3
<1>2. ASSUME NEW k \in DOMAIN Q, Q[k][1] = s PROVE Q[k][2] \in 1..n /\ Q[k] \notin K \cup L
  <2>1. R[e[k]][2] \in 1..n /\ R[e[k]] \notin K
    BY <1>2 DEF CopyOf
  <2>2. ASSUME Q[k] \in L PROVE FALSE
    <3>1. PICK j \in DOMAIN R : R[j] = Q[k] /\ e[k] # j
      BY <2>2
    <3>2. e[k] \in DOMAIN R /\ e[k] \in Int /\ j \in Int /\ R[e[k]] = R[j] /\ R[j][1] = s
      BY <1>2, <3>1
    <3>3. e[k] < j \/ j < e[k]
      BY <3>1, <3>2
    <3>4. R[j][2] < R[j][2]
      BY <3>2, <3>3 DEF CopyOf
    <3>5. R[j][2] \in Int
      BY <2>1, <3>2
    <3> QED
      BY <3>4, <3>5
  <2> QED
    BY <2>1, <2>2
<1>3. ASSUME NEW j \in DOMAIN Q, NEW k \in DOMAIN Q, Q[j][1] = s, Q[k][1] = s, j < k
      PROVE  Q[j][2] < Q[k][2]
  BY <1>3 DEF CopyOf
<1>4. ASSUME NEW i \in Nat, <<s, i>> \in K \cup L PROVE i \in 1..n
  <2>1. CASE <<s, i>> \in K
    BY <2>1 DEF CopyOf
  <2>2. CASE <<s, i>> \in L
    <3>1. PICK j \in DOMAIN R : R[j] = <<s, i>>
      BY <2>2
    <3> QED
      BY <3>1 DEF CopyOf
  <2> QED
    BY <1>4, <2>1, <2>2
<1> QED
  BY <1>1, <1>2, <1>3, <1>4 DEF CopyOf

\* A message that comes to the log while that is off.
LEMMA CopySkips ==
  ASSUME NEW p \in Seq(Entries), NEW a \in Messages, NEW q \in Seq(Entries), NEW K,
         NEW s \in Sessions, NEW n \in Nat, CopyOf((p \o a) \o q, K, s, n)
  PROVE  CopyOf(p \o q, K \cup ToSet(a), s, n)
<1> DEFINE R == (p \o a) \o q
           Q == p \o q
           e == [j \in 1..Len(p) + Len(q) |-> IF j <= Len(p) THEN j ELSE j + Len(a)]
<1>1. /\ Len(p) \in Nat /\ Len(a) \in Nat /\ Len(q) \in Nat /\ a \in Seq(Entries)
      /\ ToSet(a) \in SUBSET (Sessions \X Nat)
      /\ ToSet(a) = {a[i] : i \in 1..Len(a)}
  BY MessagesAreEntries, LenProperties DEF ToSet
<1>2. /\ DOMAIN Q = 1..Len(p) + Len(q)
      /\ \A j \in 1..Len(p) + Len(q) : Q[j] = IF j <= Len(p) THEN p[j] ELSE q[j - Len(p)]
  BY ConcatProperties, LenProperties
<1>3. /\ p \o a \in Seq(Entries) /\ Len(p \o a) = Len(p) + Len(a)
      /\ \A j \in 1..Len(p) + Len(a) : (p \o a)[j] = IF j <= Len(p) THEN p[j] ELSE a[j - Len(p)]
  BY <1>1, ConcatProperties
<1>4. /\ DOMAIN R = 1..Len(p) + Len(a) + Len(q)
      /\ \A j \in 1..Len(p) + Len(a) + Len(q) :
           R[j] = IF j <= Len(p) + Len(a) THEN (p \o a)[j] ELSE q[j - (Len(p) + Len(a))]
  BY <1>1, <1>3, ConcatProperties, LenProperties
<1> HIDE DEF R, Q
<1>5. PICK x \in Nat, y \in Nat, z \in Nat : x = Len(p) /\ y = Len(a) /\ z = Len(q)
  BY <1>1
<1>6. /\ e \in [DOMAIN Q -> DOMAIN R]
      /\ \A j, k \in DOMAIN Q : j < k => e[j] < e[k]
  BY <1>2, <1>4, <1>5
<1>7. ASSUME NEW j \in DOMAIN Q PROVE Q[j] = R[e[j]]
  <2>1. j \in 1..x + z /\ e[j] = (IF j <= x THEN j ELSE j + y) /\ e[j] \in 1..x + y + z
    BY <1>2, <1>5
  <2>2. CASE j <= x
    BY <1>2, <1>3, <1>4, <1>5, <2>1, <2>2
  <2>3. CASE ~(j <= x)
    <3>1. ~(j + y <= x + y) /\ (j + y) - (x + y) = j - x
      BY <2>1, <2>3
    <3> QED
      BY <1>2, <1>4, <1>5, <2>1, <2>3, <3>1
  <2> QED
    BY <2>2, <2>3
<1>8. ASSUME NEW i \in 1..Len(a)
      PROVE  /\ Len(p) + i \in DOMAIN R /\ R[Len(p) + i] = a[i]
             /\ \A k \in DOMAIN Q : e[k] # Len(p) + i
  <2>1. i \in 1..y /\ x + i \in 1..x + y + z /\ x + i \in 1..x + y /\ ~(x + i <= x) /\ (x + i) - x = i
    BY <1>5
  <2>2. R[x + i] = a[i]
    BY <1>3, <1>4, <1>5, <2>1
  <2>3. \A k \in DOMAIN Q : e[k] # x + i
    BY <1>2, <1>5, <2>1
  <2> QED
    BY <1>4, <1>5, <2>1, <2>2, <2>3
<1>9. ASSUME NEW j \in DOMAIN R PROVE R[j] \in ToSet(a) \/ \E k \in DOMAIN Q : e[k] = j
  <2>1. j \in 1..x + y + z
    BY <1>4, <1>5
  <2>2. CASE j <= x
    BY <1>2, <1>5, <2>1, <2>2
  <2>3. CASE x < j /\ j <= x + y
    <3>1. j - x \in 1..Len(a) /\ Len(p) + (j - x) = j
      BY <1>5, <2>1, <2>3
    <3> QED
      BY <1>1, <1>8, <3>1
  <2>4. CASE x + y < j
    <3>1. j - y \in 1..x + z /\ ~(j - y <= x) /\ (j - y) + y = j
      BY <2>1, <2>4
    <3>2. j - y \in DOMAIN Q /\ e[j - y] = j
      BY <1>2, <1>5, <3>1
    <3> QED
      BY <3>2
  <2> HIDE DEF e
  <2>5. j <= x \/ (x < j /\ j <= x + y) \/ x + y < j
    BY <2>1
  <2> QED
    BY <2>2, <2>3, <2>4, <2>5, Zenon
<1>10. ASSUME NEW t \in ToSet(a)
       PROVE  \E j \in DOMAIN R : R[j] = t /\ \A k \in DOMAIN Q : e[k] # j
  <2>1. PICK i \in 1..Len(a) : t = a[i]
    BY <1>1
  <2> QED
    BY <1>8, <2>1
<1>11. CopyOf(R, K, s, n) /\ DOMAIN R \subseteq Int /\ DOMAIN Q \subseteq Int
  BY <1>2, <1>4, <1>5 DEF R
<1> HIDE DEF e
<1>12. Loses(R, Q, e, ToSet(a))
  BY <1>6, <1>7, <1>9, <1>10, <1>11 DEF Loses
<1>13. CopyOf(Q, K \cup ToSet(a), s, n)
  BY <1>1, <1>11, <1>12, CopyLoses
<1> QED
  BY <1>13 DEF Q

\* The steps that take no byte change nothing of how many were taken.
LEMMA TakenStays ==
  ASSUME UpInv, UpInv', NEW s \in Sessions, ClientSide(s), ~TakeByte(s), NEW t \in Sessions
  PROVE  Taken(t)' = Taken(t)
<1>1. /\ Len(upData[t]) \in Nat /\ logged[t] \in Nat /\ clientRead[t] \in Nat
      /\ Len(upData'[t]) \in Nat /\ logged'[t] \in Nat /\ clientRead'[t] \in Nat
  BY LenProperties DEF UpInv, UpTypes
<1>2. CASE Accept(s)
  BY <1>2 DEF Accept, clientVars, Taken
<1>3. CASE ReadClient(s) /\ t = s
  <2>1. /\ up[s] = "read" /\ up'[s] = "log" /\ UNCHANGED logged
        /\ upData[s] = <<>> /\ logged[s] = 0
    BY <1>3 DEF ReadClient, UpInv, UpTypes, UpShape
  <2>2. PICK read \in Nat : read = clientRead[s]
    BY <1>1, <1>3
  <2>3. PICK last \in Reads(read, ClientBytes[s]) :
          /\ upData' = [upData EXCEPT ![s] = Bytes(read + 1, last)]
          /\ clientRead' = [clientRead EXCEPT ![s] = last]
    BY <1>3, <2>2 DEF ReadClient
  <2>4. last \in Nat /\ read < last
    BY <2>3, ProxyAssumption DEF Reads
  <2>5. upData'[s] = Bytes(read + 1, last) /\ clientRead'[s] = last
    BY <2>3 DEF UpInv, UpTypes
  <2>6. Len(Bytes(read + 1, last)) = last - read
    BY <2>4, BytesRead
  <2>7. Taken(s) = read
    BY <2>1, <2>2, EmptySeq DEF Taken
  <2>8. Taken(s)' = read
    BY <2>1, <2>4, <2>5, <2>6 DEF Taken
  <2> QED
    BY <1>3, <2>7, <2>8
<1>4. CASE ReadClient(s) /\ t # s
  BY <1>4 DEF ReadClient, Taken, UpInv, UpTypes
<1>5. CASE ClientEOF(s)
  BY <1>5 DEF ClientEOF, clientVars, Taken
<1>6. CASE RecordClientBuffer(s)
  BY <1>6 DEF RecordClientBuffer, clientVars, Taken
<1>7. CASE WriteServer(s) /\ t = s
  <2>1. /\ up[s] = "write" /\ upData'[s] = <<>> /\ logged'[s] = 0 /\ UNCHANGED clientRead
        /\ logged[s] = Len(upData[s])
    BY <1>7 DEF WriteServer, clientVars, UpInv, UpTypes, UpShape
  <2>2. Taken(s) = clientRead[s] /\ Taken(s)' = clientRead[s]
    BY <1>1, <1>7, <2>1, EmptySeq DEF Taken
  <2> QED
    BY <1>7, <2>2
<1>8. CASE WriteServer(s) /\ t # s
  BY <1>8 DEF WriteServer, clientVars, Taken, UpInv, UpTypes
<1> QED
  BY <1>2, <1>3, <1>4, <1>5, <1>6, <1>7, <1>8 DEF ClientSide, Up

LEMMA InitCopy == Init => CopyInv
<1> SUFFICES ASSUME Init, NEW s \in Sessions PROVE CopyOf(Recorded, skipped, s, Taken(s))
  BY DEF CopyInv
<1>1. /\ log \in Seq(Entries)
      /\ \A j \in DOMAIN log : log[j][1] = None
  BY TextInLog, ProxyAssumption DEF Init
<1>2. Recorded = log
  <2>1. log \o <<>> = log
    BY <1>1, ConcatEmptySeq
  <2> QED
    BY <2>1 DEF Init, Recorded
<1>3. Taken(s) = 0
  BY EmptySeq DEF Init, Taken
<1>4. s # None /\ skipped = {}
  BY ProxyAssumption DEF Init
<1> QED
  BY <1>1, <1>2, <1>3, <1>4 DEF CopyOf

LEMMA RecordedType == HandlerInv => Recorded \in Seq(Entries)
  BY MessagesAreEntries, ConcatProperties DEF HandlerInv, HandlerTypes, Recorded

LEMMA NextCopy == UpInv /\ UpInv' /\ HandlerInv /\ FeedInv /\ CopyInv /\ [Next]_vars => CopyInv'
<1> SUFFICES ASSUME UpInv, UpInv', HandlerInv, FeedInv, CopyInv, [Next]_vars, Alive'
             PROVE  \A t \in Sessions : CopyOf(Recorded', skipped', t, Taken(t)')
  BY DEF CopyInv
<1>1. ~ProgramEnds /\ Alive
  BY StepCases DEF ProgramEnds, Alive, vars, listenerVars
<1>2. \A t \in Sessions : CopyOf(Recorded, skipped, t, Taken(t))
  BY <1>1 DEF CopyInv
<1>3. ASSUME NEW s \in Sessions, TakeByte(s), NEW t \in Sessions
      PROVE  CopyOf(Recorded', skipped', t, Taken(t)')
  <2>1. /\ Byte(s) \in Sessions \X Nat /\ Byte(s)[1] = s /\ Byte(s)[2] = Taken(s) + 1
        /\ up[s] = "log" /\ UNCHANGED <<upData, clientRead>>
        /\ logged' = [logged EXCEPT ![s] = @ + 1]
    BY <1>3, ByteTaken DEF TakeByte, clientVars
  <2>2. /\ Recorded' = Append(Recorded, Byte(s)) /\ Recorded \in Seq(Entries)
        /\ skipped' = skipped /\ skipped \in SUBSET (Sessions \X Nat)
    BY <1>3, TakeByteRecords, RecordedType DEF HandlerInv, HandlerTypes
  <2>3. /\ Len(upData[t]) \in Nat /\ logged[t] \in Nat /\ clientRead[t] \in Nat
        /\ Len(upData[t]) <= clientRead[t]
    BY LenProperties DEF UpInv, UpTypes, UpShape
  <2>4. Taken(t) \in Nat
    BY <2>3 DEF Taken
  <2>5. Taken(t)' = IF s = t THEN Taken(t) + 1 ELSE Taken(t)
    <3>1. logged'[t] = IF s = t THEN logged[t] + 1 ELSE logged[t]
      BY <2>1 DEF UpInv, UpTypes
    <3>2. PICK read \in Nat, d \in Nat, n \in Nat :
            read = clientRead[t] /\ d = Len(upData[t]) /\ n = logged[t]
      BY <2>3
    <3>3. Taken(t) = read - (d - n) /\ Taken(t)' = read - (d - logged'[t])
      BY <2>1, <3>2 DEF Taken
    <3>4. CASE s = t
      <4>1. Taken(t)' = read - (d - (n + 1))
        BY <3>1, <3>2, <3>3, <3>4
      <4>2. read - (d - (n + 1)) = (read - (d - n)) + 1
        OBVIOUS
      <4> QED
        BY <3>3, <3>4, <4>1, <4>2
    <3>5. CASE s # t
      BY <3>1, <3>2, <3>3, <3>5
    <3> QED
      BY <3>4, <3>5
  <2>6. PICK n \in Nat, m \in Nat, R \in Seq(Entries), b \in Sessions \X Nat,
             K \in SUBSET (Sessions \X Nat) :
          n = Taken(t) /\ m = Taken(t)' /\ R = Recorded /\ b = Byte(s) /\ K = skipped
    BY <2>1, <2>2, <2>4, <2>5
  <2>7. CopyOf(R, K, t, n) /\ IF b[1] = t THEN m = n + 1 /\ b[2] = m ELSE m = n
    BY <1>2, <2>1, <2>5, <2>6
  <2>8. CopyOf(Append(R, b), K, t, m)
    BY <2>7, CopyGrows
  <2> QED
    BY <2>2, <2>6, <2>8
<1>4. ASSUME \A s \in Sessions : ~TakeByte(s), NEW t \in Sessions
      PROVE  CopyOf(Recorded', skipped', t, Taken(t))
  <2>1. Keeper \/ UNCHANGED handlerVars
    BY <1>1, <1>4, WhoChanges
  <2>2. CASE Recorded' = Recorded /\ skipped' = skipped
    BY <1>2, <2>2
  <2>3. CASE /\ Recorded = (log \o adding) \o (message \o held)
             /\ Recorded' = log \o (message \o held)
             /\ skipped' = skipped \cup ToSet(adding)
    <3>1. /\ log \in Seq(Entries) /\ adding \in Messages
          /\ message \o held \in Seq(Entries)
      BY MessagesAreEntries, ConcatProperties DEF HandlerInv, HandlerTypes
    <3>2. PICK n \in Nat, q \in Seq(Entries) : n = Taken(t) /\ q = message \o held
      <4>1. /\ Len(upData[t]) \in Nat /\ logged[t] \in Nat /\ clientRead[t] \in Nat
            /\ Len(upData[t]) <= clientRead[t]
        BY LenProperties DEF UpInv, UpTypes, UpShape
      <4>2. PICK d \in Nat, n \in Nat, read \in Nat :
              d = Len(upData[t]) /\ n = logged[t] /\ read = clientRead[t] /\ d <= read
        BY <4>1
      <4>3. read - (d - n) \in Nat /\ Taken(t) = read - (d - n)
        BY <4>2 DEF Taken
      <4> QED
        BY <3>1, <4>3
    <3>3. CopyOf((log \o adding) \o q, skipped, t, n)
      BY <1>2, <2>3, <3>2
    <3>4. CopyOf(log \o q, skipped \cup ToSet(adding), t, n)
      BY <3>1, <3>3, CopySkips
    <3> QED
      BY <2>3, <3>2, <3>4
  <2>4. UNCHANGED handlerVars => Recorded' = Recorded /\ skipped' = skipped
    BY DEF handlerVars, Recorded
  <2> QED
    BY <2>1, <2>2, <2>3, <2>4, KeeperKeeps
<1>5. ASSUME \A s \in Sessions : ~TakeByte(s), NEW t \in Sessions PROVE Taken(t)' = Taken(t)
  <2>1. (\E s \in Sessions : ClientSide(s)) \/ UNCHANGED UpOwn
    BY <1>1, WhoChanges
  <2>2. CASE UNCHANGED UpOwn
    BY <2>2 DEF UpOwn, upVars, Taken
  <2> QED
    BY <1>5, <2>1, <2>2, TakenStays
<1> QED
  BY <1>2, <1>3, <1>4, <1>5
-----------------------------------------------------------------------------
(* The theorems.                                                           *)

Inv ==
  /\ program \in {"running", "ended"}
  /\ UpInv
  /\ DownInv
  /\ HandlerInv
  /\ CopyInv
  /\ FeedInv

LEMMA InitInv == Init => Inv
  BY InitUp, InitDown, InitHandler, InitCopy, InitFeed DEF Init, Inv

LEMMA NextInv == Inv /\ [Next]_vars => Inv'
<1> SUFFICES ASSUME Inv, [Next]_vars PROVE Inv'
  OBVIOUS
<1>1. program' \in {"running", "ended"}
  BY WhoChanges DEF Inv, ProgramEnds, vars, listenerVars
<1> QED
  BY <1>1, NextUp, NextDown, NextHandler, NextCopy, NextFeed DEF Inv

LEMMA SpecInv == Spec => []Inv
  BY InitInv, NextInv, PTL DEF Spec

\* Every variable keeps its type, and the queue its capacity, however many
\* sessions there are and however they end.
THEOREM TypeCorrect == Spec => []TypeOK
<1>1. Inv => TypeOK
  BY DEF Inv, UpInv, UpTypes, DownInv, DownTypes, HandlerInv, HandlerTypes, FeedInv, Entries, TypeOK
<1> QED
  BY <1>1, SpecInv, PTL

\* Each byte of a client that the RTCM handler has got is in the log, or on
\* its way there, once and in order, or it came to the log while that was off;
\* and no server gets a byte before the RTCM handler does.
THEOREM CopiedOnce == Spec => []CopiedOnceUnlessOff
<1>1. Inv => CopiedOnceUnlessOff
  <2> SUFFICES ASSUME Inv, Alive, NEW s \in Sessions
               PROVE  /\ \A i \in 1..Taken(s) :
                           <<s, i>> \in skipped \/ \E j \in Copied(s) : Recorded[j][2] = i
                      /\ \A j \in Copied(s) :
                           Recorded[j][2] \in 1..Taken(s) /\ Recorded[j] \notin skipped
                      /\ \A j, k \in Copied(s) : j < k => Recorded[j][2] < Recorded[k][2]
                      /\ Len(toServer[s]) <= Taken(s)
    BY DEF CopiedOnceUnlessOff
  <2>1. CopyOf(Recorded, skipped, s, Taken(s))
    BY DEF Inv, CopyInv
  <2>2. PICK d \in Nat, n \in Nat, read \in Nat, got \in Nat :
          d = Len(upData[s]) /\ n = logged[s] /\ read = clientRead[s] /\ got = Len(toServer[s])
    BY LenProperties DEF Inv, UpInv, UpTypes
  <2>3. got <= read - d
    BY <2>2 DEF Inv, UpInv, UpShape
  <2>4. Len(toServer[s]) <= Taken(s)
    <3>1. got <= read - (d - n)
      BY <2>3
    <3> QED
      BY <2>2, <3>1 DEF Taken
  <2>5. \A i \in 1..Taken(s) : <<s, i>> \in skipped \/ \E j \in Copied(s) : Recorded[j][2] = i
    BY <2>1 DEF CopyOf, Copied
  <2>6. \A j \in Copied(s) : Recorded[j][2] \in 1..Taken(s) /\ Recorded[j] \notin skipped
    BY <2>1 DEF CopyOf, Copied
  <2>7. \A j, k \in Copied(s) : j < k => Recorded[j][2] < Recorded[k][2]
    BY <2>1 DEF CopyOf, Copied
  <2> QED
    BY <2>4, <2>5, <2>6, <2>7
<1> QED
  BY <1>1, SpecInv, PTL

\* A report shows one moment of the buffers, and one of the queue.
THEOREM ReportsHoldStill == Spec => ReportHoldsStill
<1> DEFINE Still == \A r \in Readers :
             /\ status[r] # "idle" /\ status'[r] # "idle" => UNCHANGED <<lastClient, lastServer>>
             /\ status[r] = "copy" /\ status'[r] = "copy" => UNCHANGED queue
<1>1. Inv /\ [Next]_vars => [Still]_vars
  BY FeedHolds DEF Inv
<1> HIDE DEF Still
<1>2. Spec => [][Still]_vars
  BY <1>1, SpecInv, PTL DEF Spec
<1> QED
  BY <1>2 DEF ReportHoldsStill, Still
-----------------------------------------------------------------------------
(* The proxy implements the relay.                                         *)

\* What of the proxy the relay sees.
BothWays(f, g) == [w \in Ways |-> IF w[2] = "up" THEN f[w[1]] ELSE g[w[1]]]
Sent == BothWays(clientRead, serverRead)
Delivered == BothWays(toServer, toClient)

LEMMA InitRelay == Init => EndToEnd!Init
  BY DEF Init, EndToEnd!Init, Ways

LEMMA WayParts ==
  ASSUME NEW x \in Ways
  PROVE  \E t \in Sessions, d \in {"up", "down"} : x = <<t, d>> /\ x[1] = t /\ x[2] = d
  BY DEF Ways

\* A sequence that counts from 1 is the one that the relay delivers.
LEMMA Counts ==
  ASSUME NEW q \in Seq(Nat), NEW n \in Nat, Len(q) = n, \A i \in 1..n : q[i] = i
  PROVE  q = [i \in 1..n |-> i]
<1>1. q \in [1..n -> Nat]
  BY LenProperties
<1> QED
  BY <1>1

\* A read sends some bytes on their way.
LEMMA ReadSends ==
  ASSUME NEW w \in Ways, NEW read \in Nat, NEW bound \in Int, Sent[w] = read,
         NEW last \in Reads(read, bound),
         \A x \in Ways : Sent'[x] = IF x = w THEN last ELSE Sent[x],
         UNCHANGED Delivered
  PROVE  EndToEnd!Next
<1>1. /\ BufferSize \in Nat /\ last \in Int /\ last - read \in 1..BufferSize
      /\ read + (last - read) = last
  BY ProxyAssumption DEF Reads
<1>2. Sent' = [Sent EXCEPT ![w] = @ + (last - read)]
  <2>1. Sent' = [x \in Ways |-> Sent'[x]] /\ Sent = [x \in Ways |-> Sent[x]]
    BY DEF Sent, BothWays
  <2> QED
    BY <1>1, <2>1
<1>3. EndToEnd!Send(w)
  BY <1>1, <1>2 DEF EndToEnd!Send, Sent, Delivered, BothWays
<1> QED
  BY <1>3 DEF EndToEnd!Next

\* A write delivers all that was read, unless it writes nothing.
LEMMA WriteDelivers ==
  ASSUME NEW w \in Ways, NEW read \in Nat, Sent[w] = read,
         NEW got \in Seq(Nat), Delivered[w] = got, Len(got) < read,
         NEW all \in Seq(Nat), Len(all) = read, \A i \in 1..read : all[i] = i,
         \A x \in Ways : Delivered'[x] = IF x = w THEN all ELSE Delivered[x],
         UNCHANGED Sent
  PROVE  EndToEnd!Next
<1>1. all = [i \in 1..read |-> i]
  BY Counts
<1>2. Len(got) \in Nat /\ read \in Len(got) + 1..read
  BY LenProperties
<1>4. Delivered' = [Delivered EXCEPT ![w] = all]
  <2>1. /\ Delivered' = [x \in Ways |-> Delivered'[x]]
        /\ Delivered = [x \in Ways |-> Delivered[x]]
    BY DEF Delivered, BothWays
  <2> QED
    BY <2>1
<1>3. EndToEnd!Deliver(w)
  BY <1>1, <1>2, <1>4 DEF EndToEnd!Deliver, Sent, Delivered, BothWays
<1> QED
  BY <1>3 DEF EndToEnd!Next

\* Every step of the proxy is one of the relay, or one that the relay does not see.
LEMMA NextRelay == Inv /\ [Next]_vars => [EndToEnd!Next]_(EndToEnd!vars)
<1> SUFFICES ASSUME Inv, [Next]_vars, ~(UNCHANGED <<Sent, Delivered>>) PROVE EndToEnd!Next
  BY DEF EndToEnd!vars, Sent, Delivered, BothWays
<1>1. /\ clientRead \in [Sessions -> Nat] /\ toServer \in [Sessions -> Seq(Nat)]
      /\ serverRead \in [Sessions -> Nat] /\ toClient \in [Sessions -> Seq(Nat)]
      /\ upData \in [Sessions -> Seq(Nat)] /\ downData \in [Sessions -> Seq(Nat)]
  BY DEF Inv, UpInv, UpTypes, DownInv, DownTypes
<1>7. Alive
  BY StepCases DEF vars, clientVars, serverVars, Sent, Delivered
<1>2. \E s \in Sessions : ReadClient(s) \/ WriteServer(s) \/ ReadServer(s) \/ WriteClient(s)
  <2>1. ~UNCHANGED <<clientRead, serverRead, toServer, toClient>>
    BY DEF Sent, Delivered
  <2>2. ASSUME ProgramEnds \/ UNCHANGED vars PROVE FALSE
    BY <2>1, <2>2 DEF ProgramEnds, vars, clientVars, serverVars
  <2>3. ASSUME NEW s \in Sessions,
               Accept(s) \/ ClientEOF(s) \/ TakeByte(s) \/ RecordClientBuffer(s)
                 \/ ServerReadFails(s) \/ RecordServerBuffer(s)
        PROVE  FALSE
    BY <2>1, <2>3 DEF Accept, ClientEOF, TakeByte, RecordClientBuffer, ServerReadFails,
                      RecordServerBuffer, clientVars, serverVars
  <2>4. ASSUME Keeper \/ Control PROVE FALSE
    BY <2>1, <2>4 DEF Keeper, HandOver, Add, WriteLog, Control, SetLogLevel, Status, StatusLocks, GetMessages,
                      StatusReturns, clientVars, serverVars
  <2> QED
    BY <2>2, <2>3, <2>4, StepCases DEF Up, Down
<1>3. ASSUME NEW s \in Sessions, ReadClient(s) PROVE EndToEnd!Next
  <2> DEFINE w == <<s, "up">>
  <2>1. PICK read \in Nat, bound \in Int : read = clientRead[s] /\ bound = ClientBytes[s]
    BY <1>1, ProxyAssumption
  <2>2. PICK last \in Reads(read, bound) : clientRead' = [clientRead EXCEPT ![s] = last]
    BY <1>3, <2>1 DEF ReadClient
  <2>3. UNCHANGED <<serverRead, toServer, toClient>>
    BY <1>3 DEF ReadClient, serverVars
  <2>4. w \in Ways /\ Sent[w] = read /\ UNCHANGED Delivered
    BY <2>1, <2>3 DEF Ways, Sent, Delivered, BothWays
  <2>5. ASSUME NEW x \in Ways PROVE Sent'[x] = IF x = w THEN last ELSE Sent[x]
    <3>1. \A t \in Sessions : clientRead'[t] = IF t = s THEN last ELSE clientRead[t]
      BY <1>1, <2>2
    <3>2. PICK t \in Sessions, d \in {"up", "down"} : x = <<t, d>> /\ x[1] = t /\ x[2] = d
      BY WayParts
    <3> QED
      BY <2>3, <3>1, <3>2 DEF Sent, BothWays
  <2> QED
    BY <2>4, <2>5, ReadSends
<1>4. ASSUME NEW s \in Sessions, ReadServer(s) PROVE EndToEnd!Next
  <2> DEFINE w == <<s, "down">>
  <2>1. PICK read \in Nat, bound \in Int : read = serverRead[s] /\ bound = ServerBytes[s]
    BY <1>1, ProxyAssumption
  <2>2. PICK last \in Reads(read, bound) : serverRead' = [serverRead EXCEPT ![s] = last]
    BY <1>4, <2>1 DEF ReadServer
  <2>3. UNCHANGED <<clientRead, toServer, toClient>>
    BY <1>4 DEF ReadServer, clientVars
  <2>4. w \in Ways /\ Sent[w] = read /\ UNCHANGED Delivered
    BY <2>1, <2>3 DEF Ways, Sent, Delivered, BothWays
  <2>5. ASSUME NEW x \in Ways PROVE Sent'[x] = IF x = w THEN last ELSE Sent[x]
    <3>1. \A t \in Sessions : serverRead'[t] = IF t = s THEN last ELSE serverRead[t]
      BY <1>1, <2>2
    <3>2. PICK t \in Sessions, d \in {"up", "down"} : x = <<t, d>> /\ x[1] = t /\ x[2] = d
      BY WayParts
    <3> QED
      BY <2>3, <3>1, <3>2 DEF Sent, BothWays
  <2> QED
    BY <2>4, <2>5, ReadSends
<1>5. ASSUME NEW s \in Sessions, WriteServer(s) PROVE EndToEnd!Next
  <2> DEFINE w == <<s, "up">>
  <2>1. UNCHANGED <<clientRead, serverRead, toClient>>
    BY <1>5 DEF WriteServer, clientVars
  <2>2. toServer' = [toServer EXCEPT ![s] = @ \o upData[s]] /\ ~serverBroken[s]
    <3>1. ~UNCHANGED toServer
      BY <2>1 DEF Sent, Delivered
    <3> QED
      BY <1>5, <3>1 DEF WriteServer
  <2>3. PICK read \in Nat, data \in Seq(Nat), got \in Seq(Nat) :
          read = clientRead[s] /\ data = upData[s] /\ got = toServer[s]
    BY <1>1
  <2>4. /\ UpShape("write", data, logged[s], read, got)
        /\ Len(got) = read - Len(data)
    <3>1. up[s] = "write"
      BY <1>5 DEF WriteServer
    <3> QED
      BY <1>7, <2>2, <2>3, <3>1 DEF Inv, UpInv
  <2>5. /\ 0 < Len(data) /\ Len(data) <= read
        /\ \A i \in 1..Len(data) : data[i] = read - Len(data) + i
        /\ \A i \in 1..Len(got) : got[i] = i
    BY <2>4 DEF UpShape
  <2>6. PICK all \in Seq(Nat) : all = got \o data /\ Len(all) = read /\ \A i \in 1..read : all[i] = i
    <3>1. /\ got \o data \in Seq(Nat)
          /\ Len(got \o data) = read
          /\ \A i \in 1..read : (got \o data)[i] = i
      BY <2>4, <2>5, Written
    <3>2. PICK all \in Seq(Nat) : all = got \o data
      BY <3>1
    <3> QED
      BY <3>1, <3>2
  <2>7. Len(got) < read
    BY <2>4, <2>5, LenProperties
  <2>8. w \in Ways /\ Sent[w] = read /\ Delivered[w] = got /\ UNCHANGED Sent
    BY <2>1, <2>3 DEF Ways, Sent, Delivered, BothWays
  <2>9. ASSUME NEW x \in Ways PROVE Delivered'[x] = IF x = w THEN all ELSE Delivered[x]
    <3>1. toServer' = [toServer EXCEPT ![s] = all]
      BY <2>2, <2>3, <2>6
    <3>2. \A t \in Sessions : toServer'[t] = IF t = s THEN all ELSE toServer[t]
      BY <1>1, <3>1
    <3>3. PICK t \in Sessions, d \in {"up", "down"} : x = <<t, d>> /\ x[1] = t /\ x[2] = d
      BY WayParts
    <3> QED
      BY <2>1, <3>2, <3>3 DEF Delivered, BothWays
  <2> QED
    BY <2>6, <2>7, <2>8, <2>9, WriteDelivers
<1>6. ASSUME NEW s \in Sessions, WriteClient(s) PROVE EndToEnd!Next
  <2> DEFINE w == <<s, "down">>
  <2>1. UNCHANGED <<clientRead, serverRead, toServer>>
    BY <1>6 DEF WriteClient, serverVars
  <2>2. /\ toClient' = [toClient EXCEPT ![s] = @ \o downData[s]]
        /\ ~clientBroken[s] /\ session[s] = "open"
    <3>1. ~UNCHANGED toClient
      BY <2>1 DEF Sent, Delivered
    <3> QED
      BY <1>6, <3>1 DEF WriteClient
  <2>3. PICK read \in Nat, data \in Seq(Nat), got \in Seq(Nat) :
          read = serverRead[s] /\ data = downData[s] /\ got = toClient[s]
    BY <1>1
  <2>4. /\ DownShape("write", data, read, got)
        /\ Len(got) = read - Len(data)
    <3>1. down[s] = "write"
      BY <1>6 DEF WriteClient
    <3> QED
      BY <1>7, <2>2, <2>3, <3>1 DEF Inv, DownInv
  <2>5. /\ 0 < Len(data) /\ Len(data) <= read
        /\ \A i \in 1..Len(data) : data[i] = read - Len(data) + i
        /\ \A i \in 1..Len(got) : got[i] = i
    BY <2>4 DEF DownShape
  <2>6. PICK all \in Seq(Nat) : all = got \o data /\ Len(all) = read /\ \A i \in 1..read : all[i] = i
    <3>1. /\ got \o data \in Seq(Nat)
          /\ Len(got \o data) = read
          /\ \A i \in 1..read : (got \o data)[i] = i
      BY <2>4, <2>5, Written
    <3>2. PICK all \in Seq(Nat) : all = got \o data
      BY <3>1
    <3> QED
      BY <3>1, <3>2
  <2>7. Len(got) < read
    BY <2>4, <2>5, LenProperties
  <2>8. w \in Ways /\ Sent[w] = read /\ Delivered[w] = got /\ UNCHANGED Sent
    BY <2>1, <2>3 DEF Ways, Sent, Delivered, BothWays
  <2>9. ASSUME NEW x \in Ways PROVE Delivered'[x] = IF x = w THEN all ELSE Delivered[x]
    <3>1. toClient' = [toClient EXCEPT ![s] = all]
      BY <2>2, <2>3, <2>6
    <3>2. \A t \in Sessions : toClient'[t] = IF t = s THEN all ELSE toClient[t]
      BY <1>1, <3>1
    <3>3. PICK t \in Sessions, d \in {"up", "down"} : x = <<t, d>> /\ x[1] = t /\ x[2] = d
      BY WayParts
    <3> QED
      BY <2>1, <3>2, <3>3 DEF Delivered, BothWays
  <2> QED
    BY <2>6, <2>7, <2>8, <2>9, WriteDelivers
<1> QED
  BY <1>2, <1>3, <1>4, <1>5, <1>6

\* The proxy relays: whatever breaks, and whoever else is served, what comes
\* out at each end of a session is the beginning of what went in at the other.
THEOREM ProxyRelays == Spec => EndToEndSpec
  BY InitRelay, NextRelay, SpecInv, PTL DEF Spec, EndToEndSpec, EndToEnd!Spec
=============================================================================
