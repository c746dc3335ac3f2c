-------------------------------- MODULE Proxy --------------------------------
(***************************************************************************)
(* The proxy: a listener, two goroutines per session, the RTCM handler,    *)
(* the goroutine that keeps the queue of recent messages (and the log) up  *)
(* to date, and the goroutines that serve control requests: they make      *)
(* status reports, and turn the log on and off.                            *)
(*                                                                         *)
(* As in Pipeline, how the RTCM handler finds messages is left to          *)
(* RtcmFramer: each byte may complete a message or start a new one.  The   *)
(* queue is that of CircularQueue, where it is shown that whenever its     *)
(* lock is free it holds the latest messages and that GetMessages gives    *)
(* what it held at one moment: here it is a sequence, with its lock.       *)
(*                                                                         *)
(* The configuration has a directory for the log (record_messages).  The   *)
(* log writes what it is given, or nothing while it is turned off.         *)
(***************************************************************************)
EXTENDS Integers, Sequences, SequencesExt

CONSTANTS
  Sessions,     \* the calls that clients make
  ClientBytes,  \* bound: how many bytes the client of each session sends
  ServerBytes,  \* bound: how many the server sends
  SlowServers,  \* the sessions whose server may stop reading
  Readers,      \* the requests for a status report that may come at once
  MaxItems,     \* the messages that the queue holds
  BufferSize,   \* the room in the buffers, 2048 bytes in the code
  Verbose,      \* is the log on at the start?  -v, the default, against -q
  LogLevels,    \* the log levels that control requests ask for: is the log on?
  MaxEvents,    \* bound: bytes that come, ends that break, and the log's going off
  BreakingClients,  \* the sessions whose client's connection may break
  BreakingServers,
  None          \* no session, no report

ASSUME ProxyAssumption ==
  /\ ClientBytes \in [Sessions -> Nat]
  /\ ServerBytes \in [Sessions -> Nat]
  /\ MaxItems \in Nat \ {0}
  /\ BufferSize \in Nat \ {0}
  /\ SlowServers \subseteq Sessions
  /\ Verbose \in BOOLEAN
  /\ LogLevels \subseteq BOOLEAN
  /\ MaxEvents \in Nat
  /\ BreakingClients \subseteq Sessions
  /\ BreakingServers \subseteq Sessions
  /\ None \notin Sessions \cup Readers

VARIABLES
  program,     \* "running" or "ended"
  session,     \* "new", "open" or "closed" (both connections), for each session
  clientBroken,  \* a read or a write of the client's connection has failed
  serverBroken,
  clientRead,  \* how many of its bytes the proxy has read
  serverRead,
  toServer,    \* the bytes that the server got
  toClient,
  up,          \* handleClientMessages: "read", "log", "record", "write" or "done"
  upData,      \* its buffer
  logged,      \* how many bytes of the buffer have gone to the RTCM handler
  down,        \* handleServerMessages: "read", "record", "write" or "done"
  downData,    \* its buffer
  handler,     \* the RTCM handler: "get" or "send"
  held,        \* the bytes of the message that it is reading
  message,     \* the message that it is sending
  keeper,      \* keepCircularQueueUpdated: "receive", "add" or "log"
  adding,      \* the message that it has received
  log,         \* what is in the file of rtcmLog: bytes, and lines of text
  skipped,     \* history: the bytes that came to rtcmLog while it was off
  queue,       \* the recent messages
  feedLock,    \* who holds the lock of the report feed
  lastClient,  \* lastClientBuffer: its source and content
  lastServer,
  status,      \* Status: "idle", "getMessages" or "copy", for each reader
  logging      \* is rtcmLog on?

clientVars == <<clientBroken, clientRead, toClient>>
serverVars == <<serverBroken, serverRead, toServer>>
upVars == <<up, upData, logged>>
downVars == <<down, downData>>
handlerVars == <<handler, held, message, keeper, adding, log, skipped, queue>>
feedVars == <<feedLock, lastClient, lastServer, status, logging>>
listenerVars == <<program, session>>
vars == <<listenerVars, clientVars, serverVars, upVars, downVars,
               handlerVars, feedVars>>

NoBuffer == [source |-> None, content |-> <<>>]

\* "setting up the status reporter" and "[*] Listening for Client call ...".
TextLines == <<<<None, 1>>, <<None, 2>>>>

\* What a Write adds to the log.
Logged(on, text) == IF on THEN text ELSE <<>>

\* The proxy listens, and has written its two lines to the log.
Init ==
  /\ program = "running"
  /\ session = [s \in Sessions |-> "new"]
  /\ clientBroken = [s \in Sessions |-> FALSE]
  /\ serverBroken = [s \in Sessions |-> FALSE]
  /\ clientRead = [s \in Sessions |-> 0]
  /\ serverRead = [s \in Sessions |-> 0]
  /\ toServer = [s \in Sessions |-> <<>>]
  /\ toClient = [s \in Sessions |-> <<>>]
  /\ up = [s \in Sessions |-> "done"]
  /\ upData = [s \in Sessions |-> <<>>]
  /\ logged = [s \in Sessions |-> 0]
  /\ down = [s \in Sessions |-> "done"]
  /\ downData = [s \in Sessions |-> <<>>]
  /\ handler = "get"
  /\ held = <<>>
  /\ message = <<>>
  /\ keeper = "receive"
  /\ adding = <<>>
  /\ logging = Verbose
  /\ log = Logged(logging, TextLines)
  /\ skipped = {}
  /\ queue = <<>>
  /\ feedLock = None
  /\ lastClient = NoBuffer
  /\ lastServer = NoBuffer
  /\ status = [r \in Readers |-> "idle"]

Alive == program = "running"

\* The bytes from first to last.
Bytes(first, last) == [i \in 1..(last - first + 1) |-> first + i - 1]

\* Up to which byte a read may come, when all before read has been read.
Reads(read, bound) == {last \in read + 1..read + BufferSize : last <= bound}
-----------------------------------------------------------------------------
(* The connections.                                                        *)

\* A connection breaks when somebody finds out, and then it stays broken.
ClientBreaks(s) ==
  /\ clientBroken[s] \/ s \in BreakingClients
  /\ clientBroken' = [clientBroken EXCEPT ![s] = TRUE]

ServerBreaks(s) ==
  /\ serverBroken[s] \/ s \in BreakingServers
  /\ serverBroken' = [serverBroken EXCEPT ![s] = TRUE]
-----------------------------------------------------------------------------
(* StartClientListener, and the return of start.                           *)

\* A call comes, connectToServer returns, and the goroutines of the session start.
Accept(s) ==
  /\ Alive
  /\ session[s] = "new"
  /\ session' = [session EXCEPT ![s] = "open"]
  /\ up' = [up EXCEPT ![s] = "read"]
  /\ down' = [down EXCEPT ![s] = "read"]
  /\ UNCHANGED <<program, clientVars, serverVars, upData, logged, downData, handlerVars,
                 feedVars>>

\* The program goes, with all the sessions and everything in its memory.
ProgramEnds ==
  /\ program' = "ended"
  /\ session' = [s \in Sessions |-> "closed"]
  /\ up' = [s \in Sessions |-> "done"]
  /\ upData' = [s \in Sessions |-> <<>>]
  /\ logged' = [s \in Sessions |-> 0]
  /\ down' = [s \in Sessions |-> "done"]
  /\ downData' = [s \in Sessions |-> <<>>]
  /\ handler' = "get"
  /\ held' = <<>>
  /\ message' = <<>>
  /\ keeper' = "receive"
  /\ adding' = <<>>
  /\ queue' = <<>>
  /\ feedLock' = None
  /\ lastClient' = NoBuffer
  /\ lastServer' = NoBuffer
  /\ status' = [r \in Readers |-> "idle"]
  /\ UNCHANGED <<clientVars, serverVars, log, skipped, logging>>

\* A call comes, and connectToServer panics.
ServerUnreachable(s) == session[s] = "new" /\ Alive /\ ProgramEnds

\* Accept fails: start returns, closing the message channel and then the byte
\* channel, and the program exits, or is stopped before that by a panic of the
\* RTCM handler, which sends on or closes a channel that start has closed.
ListenerEnds == Alive /\ ProgramEnds
-----------------------------------------------------------------------------
(* handleClientMessages.                                                   *)

\* client.Read gives some bytes that the client has sent.  (An error other than
\* EOF is tried again at once, and for ever: no step changes anything.)
ReadClient(s) ==
  /\ up[s] = "read"
  /\ \E last \in Reads(clientRead[s], ClientBytes[s]) :
       /\ upData' = [upData EXCEPT ![s] = Bytes(clientRead[s] + 1, last)]
       /\ clientRead' = [clientRead EXCEPT ![s] = last]
  /\ ~clientBroken[s]
  /\ up' = [up EXCEPT ![s] = "log"]
  /\ UNCHANGED <<listenerVars, logged, clientBroken, toClient, serverVars,
                 downVars, handlerVars, feedVars>>

\* handleClientMessages returns and handleMessages closes both connections.
EndSession(s) ==
  /\ up' = [up EXCEPT ![s] = "done"]
  /\ session' = [session EXCEPT ![s] = "closed"]

\* The client has ended in order, and all that it sent has been read.
ClientEOF(s) ==
  /\ up[s] = "read"
  /\ ~clientBroken[s]
  /\ EndSession(s)
  /\ UNCHANGED <<program, clientVars, serverVars, upData, logged, downVars,
                 handlerVars, feedVars>>

\* Mutant of TakeByte: when a message starts with the byte, the byte before it
\* is lost.
TakeByteLossy(s) ==
  LET b == <<s, upData[s][logged[s] + 1]>>
  IN  /\ up[s] = "log"
      /\ handler = "get"
      /\ \/ /\ held' = Append(held, b)
            /\ UNCHANGED <<message, handler>>
         \/ /\ held # <<>>
            /\ message' = Front(held)
            /\ held' = <<b>>
            /\ handler' = "send"
      /\ logged' = [logged EXCEPT ![s] = @ + 1]
      /\ up' = IF logged'[s] = Len(upData[s]) THEN [up EXCEPT ![s] = "record"] ELSE up
      /\ UNCHANGED <<listenerVars, clientVars, serverVars, upData, downVars,
                     keeper, adding, log, skipped, queue, feedVars>>

\* A byte goes from the buffer to the RTCM handler, which may find that it
\* completes a message, or that it starts one and what is held is another.
TakeByte(s) ==
  LET b == <<s, upData[s][logged[s] + 1]>>
  IN  /\ up[s] = "log"
      /\ handler = "get"
      /\ \/ /\ held' = Append(held, b)
            /\ UNCHANGED <<message, handler>>
         \/ /\ message' = Append(held, b)
            /\ held' = <<>>
            /\ handler' = "send"
         \/ /\ held # <<>>
            /\ message' = held
            /\ held' = <<b>>
            /\ handler' = "send"
      /\ logged' = [logged EXCEPT ![s] = @ + 1]
      /\ up' = IF logged'[s] = Len(upData[s]) THEN [up EXCEPT ![s] = "record"] ELSE up
      /\ UNCHANGED <<listenerVars, clientVars, serverVars, upData, downVars,
                     keeper, adding, log, skipped, queue, feedVars>>

\* RecordClientBuffer.
RecordClientBuffer(s) ==
  /\ up[s] = "record"
  /\ feedLock = None
  /\ lastClient' = [source |-> s, content |-> upData[s]]
  /\ up' = [up EXCEPT ![s] = "write"]
  /\ UNCHANGED <<listenerVars, clientVars, serverVars, upData, logged, downVars,
                 handlerVars, feedLock, lastServer, status, logging>>

\* Mutant of WriteServer: it writes the buffer that was recorded last.
WriteServerRecorded(s) ==
  /\ up[s] = "write"
  /\ toServer' = [toServer EXCEPT ![s] = @ \o lastClient.content]
  /\ up' = [up EXCEPT ![s] = "read"]
  /\ upData' = [upData EXCEPT ![s] = <<>>]
  /\ logged' = [logged EXCEPT ![s] = 0]
  /\ UNCHANGED <<listenerVars, clientVars, serverBroken, serverRead, downVars,
                 handlerVars, feedVars>>

\* server.Write, whose error nobody looks at.
WriteServer(s) ==
  /\ up[s] = "write"
  /\ \/ /\ ~serverBroken[s]
        /\ toServer' = [toServer EXCEPT ![s] = @ \o upData[s]]
        /\ UNCHANGED serverBroken
     \/ /\ ServerBreaks(s)
        /\ UNCHANGED toServer
  /\ up' = [up EXCEPT ![s] = "read"]
  /\ upData' = [upData EXCEPT ![s] = <<>>]
  /\ logged' = [logged EXCEPT ![s] = 0]
  /\ UNCHANGED <<listenerVars, clientVars, serverRead, downVars, handlerVars, feedVars>>

Up(s) ==
  \/ ReadClient(s) \/ ClientEOF(s)
  \/ TakeByte(s) \/ RecordClientBuffer(s) \/ WriteServer(s)
-----------------------------------------------------------------------------
(* handleServerMessages.                                                   *)

ReadServer(s) ==
  /\ down[s] = "read"
  /\ session[s] = "open"
  /\ ~serverBroken[s]
  /\ \E last \in Reads(serverRead[s], ServerBytes[s]) :
       /\ downData' = [downData EXCEPT ![s] = Bytes(serverRead[s] + 1, last)]
       /\ serverRead' = [serverRead EXCEPT ![s] = last]
  /\ down' = [down EXCEPT ![s] = "record"]
  /\ UNCHANGED <<listenerVars, clientVars, serverBroken, toServer, upVars,
                 handlerVars, feedVars>>

\* The connection is closed or broken.  (An EOF is tried again for ever: no
\* step changes anything.)
ServerReadFails(s) ==
  /\ down[s] = "read"
  /\ IF session[s] = "closed" THEN UNCHANGED serverBroken ELSE ServerBreaks(s)
  /\ down' = [down EXCEPT ![s] = "done"]
  /\ UNCHANGED <<listenerVars, clientVars, serverRead, toServer, upVars, downData, handlerVars,
                 feedVars>>

\* Mutant of RecordServerBuffer: it does not take the lock.
RecordServerBufferUnlocked(s) ==
  /\ down[s] = "record"
  /\ lastServer' = [source |-> s, content |-> downData[s]]
  /\ down' = [down EXCEPT ![s] = "write"]
  /\ UNCHANGED <<listenerVars, clientVars, serverVars, upVars, downData, handlerVars,
                 feedLock, lastClient, status, logging>>

\* RecordServerBuffer.
RecordServerBuffer(s) ==
  /\ down[s] = "record"
  /\ feedLock = None
  /\ lastServer' = [source |-> s, content |-> downData[s]]
  /\ down' = [down EXCEPT ![s] = "write"]
  /\ UNCHANGED <<listenerVars, clientVars, serverVars, upVars, downData, handlerVars,
                 feedLock, lastClient, status, logging>>

\* client.Write, whose error nobody looks at.
WriteClient(s) ==
  /\ down[s] = "write"
  /\ \/ /\ session[s] = "open" /\ ~clientBroken[s]
        /\ toClient' = [toClient EXCEPT ![s] = @ \o downData[s]]
        /\ UNCHANGED clientBroken
     \/ /\ session[s] = "closed"
        /\ UNCHANGED <<toClient, clientBroken>>
     \/ /\ ClientBreaks(s)
        /\ UNCHANGED toClient
  /\ down' = [down EXCEPT ![s] = "read"]
  /\ downData' = [downData EXCEPT ![s] = <<>>]
  /\ UNCHANGED <<listenerVars, clientRead, serverVars, upVars, handlerVars, feedVars>>

Down(s) ==
  ReadServer(s) \/ ServerReadFails(s) \/ RecordServerBuffer(s) \/ WriteClient(s)
-----------------------------------------------------------------------------
(* The RTCM handler's output and keepCircularQueueUpdated.                 *)

\* The message goes over the channel, and the keeper calls Add.
HandOver ==
  /\ handler = "send"
  /\ keeper = "receive"
  /\ handler' = "get"
  /\ keeper' = "add"
  /\ adding' = message
  /\ message' = <<>>
  /\ UNCHANGED <<listenerVars, clientVars, serverVars, upVars, downVars, held, log,
                 skipped, queue, feedVars>>

\* Mutant of Latest: one message too many.
LatestPlusOne(q) ==
  IF Len(q) <= MaxItems + 1 THEN q ELSE SubSeq(q, Len(q) - MaxItems, Len(q))

\* The latest messages of q, as many as the queue holds.
Latest(q) == IF Len(q) <= MaxItems THEN q ELSE SubSeq(q, Len(q) - MaxItems + 1, Len(q))

\* Add gets the lock when no reader is in.
Add ==
  /\ keeper = "add"
  /\ \A r \in Readers : status[r] # "copy"
  /\ queue' = Latest(Append(queue, adding))
  /\ keeper' = "log"
  /\ UNCHANGED <<listenerVars, clientVars, serverVars, upVars, downVars, handler, held,
                 message, adding, log, skipped, feedVars>>

\* rtcmLog.Write, which writes nothing while the log is off.
WriteLog ==
  /\ keeper = "log"
  /\ log' = log \o Logged(logging, adding)
  /\ skipped' = IF logging THEN skipped ELSE skipped \cup ToSet(adding)
  /\ adding' = <<>>
  /\ keeper' = "receive"
  /\ UNCHANGED <<listenerVars, clientVars, serverVars, upVars, downVars, handler,
                 held, message, queue, feedVars>>

Keeper == HandOver \/ Add \/ WriteLog
-----------------------------------------------------------------------------
(* ReportFeed.Status.  What it reads is not copied here: see              *)
(* ReportHoldsStill.                                                       *)

\* It locks the feed and reads the two buffers.
StatusLocks(r) ==
  /\ status[r] = "idle"
  /\ feedLock = None
  /\ feedLock' = r
  /\ status' = [status EXCEPT ![r] = "getMessages"]
  /\ UNCHANGED <<listenerVars, clientVars, serverVars, upVars, downVars, handlerVars,
                 lastClient, lastServer, logging>>

\* GetMessages gets its lock: an Add that waits for it keeps it out.
\* It reads the messages.
GetMessages(r) ==
  /\ status[r] = "getMessages"
  /\ keeper # "add"
  /\ status' = [status EXCEPT ![r] = "copy"]
  /\ UNCHANGED <<listenerVars, clientVars, serverVars, upVars, downVars, handlerVars,
                 feedLock, lastClient, lastServer, logging>>

\* Mutant of StatusReturns: it returns without unlocking the feed.
StatusReturnsLocked(r) ==
  /\ status[r] = "copy"
  /\ status' = [status EXCEPT ![r] = "idle"]
  /\ UNCHANGED <<listenerVars, clientVars, serverVars, upVars, downVars, handlerVars,
                 feedLock, lastClient, lastServer, logging>>

\* GetMessages returns, and Status does.  The report has been sent.
StatusReturns(r) ==
  /\ status[r] = "copy"
  /\ status' = [status EXCEPT ![r] = "idle"]
  /\ feedLock' = None
  /\ UNCHANGED <<listenerVars, clientVars, serverVars, upVars, downVars, handlerVars,
                 lastClient, lastServer, logging>>

\* SetLogLevel.
SetLogLevel ==
  /\ logging' \in LogLevels
  /\ UNCHANGED <<listenerVars, clientVars, serverVars, upVars, downVars, handlerVars,
                 feedLock, lastClient, lastServer, status>>
-----------------------------------------------------------------------------
Listener ==
  \/ \E s \in Sessions : Accept(s) \/ ServerUnreachable(s)
  \/ ListenerEnds

Quiet == ~Alive /\ UNCHANGED vars

\* How much has happened: what came and broke, and whether the log is or was off.
OneIf(b) == IF b THEN 1 ELSE 0

Events ==
  OneIf(logging # Verbose \/ skipped # {})
    + MapThenSumSet(LAMBDA s : clientRead[s] + serverRead[s]
                     + OneIf(clientBroken[s]) + OneIf(serverBroken[s]), Sessions)

Next ==
  /\ \/ Listener
     \/ /\ Alive
        /\ \/ \E s \in Sessions : Up(s) \/ Down(s)
           \/ Keeper
           \/ \E r \in Readers : StatusLocks(r) \/ GetMessages(r) \/ StatusReturns(r)
           \/ SetLogLevel
     \/ Quiet
  /\ Events' <= MaxEvents

Spec == Init /\ [][Next]_vars

\* A goroutine that can go on does.  A session waits its turn for the byte
\* channel and the feed's lock, which Go's channels and sync.Mutex hand on in
\* the order of asking.  Nothing is assumed of the sessions with slow servers.
FairSpec ==
  /\ Spec
  /\ WF_vars(Alive /\ Keeper)
  /\ \A r \in Readers : WF_vars(Alive /\ (GetMessages(r) \/ StatusReturns(r)))
  /\ \A s \in Sessions \ SlowServers :
       /\ SF_vars(Alive /\ (TakeByte(s) \/ RecordClientBuffer(s)))
       /\ WF_vars(Alive /\ WriteServer(s))
-----------------------------------------------------------------------------
Buffers == [source : Sessions \cup {None}, content : Seq(Nat)]

Messages == Seq(Sessions \X Nat)

TypeOK ==
  /\ program \in {"running", "ended"}
  /\ session \in [Sessions -> {"new", "open", "closed"}]
  /\ clientBroken \in [Sessions -> BOOLEAN]
  /\ serverBroken \in [Sessions -> BOOLEAN]
  /\ clientRead \in [Sessions -> Nat]
  /\ serverRead \in [Sessions -> Nat]
  /\ toServer \in [Sessions -> Seq(Nat)]
  /\ toClient \in [Sessions -> Seq(Nat)]
  /\ up \in [Sessions -> {"read", "log", "record", "write", "done"}]
  /\ upData \in [Sessions -> Seq(Nat)]
  /\ logged \in [Sessions -> Nat]
  /\ down \in [Sessions -> {"read", "record", "write", "done"}]
  /\ downData \in [Sessions -> Seq(Nat)]
  /\ handler \in {"get", "send"}
  /\ held \in Messages
  /\ message \in Messages
  /\ keeper \in {"receive", "add", "log"}
  /\ adding \in Messages
  /\ log \in Seq((Sessions \X Nat) \cup ToSet(TextLines))
  /\ skipped \subseteq Sessions \X Nat
  /\ queue \in Seq(Messages)
  /\ Len(queue) <= MaxItems
  /\ feedLock \in Readers \cup {None}
  /\ lastClient \in Buffers
  /\ lastServer \in Buffers
  /\ status \in [Readers -> {"idle", "getMessages", "copy"}]
  /\ logging \in BOOLEAN

\* What the two ends of each session get is what module Relay promises: the
\* other's bytes, in order, whatever the other sessions and the status
\* reports do and however the connections end.
Ways == Sessions \X {"up", "down"}

EndToEnd == INSTANCE Relay WITH
  Ways <- Ways,
  MaxChunk <- BufferSize,
  sent <- [w \in Ways |-> IF w[2] = "up" THEN clientRead[w[1]] ELSE serverRead[w[1]]],
  delivered <- [w \in Ways |-> IF w[2] = "up" THEN toServer[w[1]] ELSE toClient[w[1]]]

EndToEndSpec == EndToEnd!Spec

\* What the log has, what is on its way there, and what waits for the end of
\* its message, in order.
Recorded == log \o adding \o message \o held

\* How many bytes of a client have gone to the RTCM handler.
Taken(s) == clientRead[s] - (Len(upData[s]) - logged[s])

\* Where they are in what is recorded.
Copied(s) == {j \in DOMAIN Recorded : Recorded[j][1] = s}

\* Although all the sessions feed one RTCM handler, and whenever the log is
\* turned on or off: each byte of a client that the RTCM handler has got is in
\* the log or on its way, once and in the order of the client's bytes, or it
\* came to the log while that was off, and never both; and a server gets
\* nothing that the RTCM handler was not given first (handleClientMessages,
\* keepCircularQueueUpdated, SetLogLevel).
CopiedOnceUnlessOff == Alive =>
  \A s \in Sessions :
    /\ \A i \in 1..Taken(s) :
         <<s, i>> \in skipped \/ \E j \in Copied(s) : Recorded[j][2] = i
    /\ \A j \in Copied(s) : Recorded[j][2] \in 1..Taken(s) /\ Recorded[j] \notin skipped
    /\ \A j, k \in Copied(s) : j < k => Recorded[j][2] < Recorded[k][2]
    /\ Len(toServer[s]) <= Taken(s)

\* A report shows the two buffers as they were at one moment, and the messages
\* as they were at another: while it is made the buffers stay, and while it reads
\* the messages these do, whatever the sessions receive (Status, GetMessages).
ReportHoldsStill ==
  [][\A r \in Readers :
       /\ status[r] # "idle" /\ status'[r] # "idle" => UNCHANGED <<lastClient, lastServer>>
       /\ status[r] = "copy" /\ status'[r] = "copy" => UNCHANGED queue]_vars

\* What a client sends to a server that reads gets there, although on the way
\* it waits for the other sessions, the RTCM handler, the queue and its
\* readers, and the report feed: no two of their locks and channels block each
\* other, and a server that does not read holds up nobody else.
TrafficGetsThrough ==
  \A s \in Sessions \ SlowServers :
    up[s] = "log" ~> (up[s] \in {"read", "done"} \/ ~Alive)
=============================================================================
