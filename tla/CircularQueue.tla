---------------------------- MODULE CircularQueue ----------------------------
(***************************************************************************)
(* The queue of recent messages that the proxy shares between the          *)
(* goroutine that adds each message (keepCircularQueueUpdated) and the     *)
(* goroutines that show them (ReportFeed.Status).                          *)
(*                                                                         *)
(* The queue is a map from indices to messages under a sync.RWMutex.  A    *)
(* message is the number of the call of Add that brought it.  What is done *)
(* between two lock operations takes one step for each access to the map.  *)
(***************************************************************************)
EXTENDS Integers, Sequences, FiniteSets, FiniteSetsExt

CONSTANTS
  MaxItems,   \* CircularQueue.MaxItems
  IntSize,    \* Go's int is from -IntSize to IntSize - 1
  Readers,    \* the goroutines that call GetMessages
  MaxAdds     \* bound: calls of Add

\* The proxy's queue holds 20 messages.  (Of a queue of none, Add makes one.)
ASSUME CircularQueueAssumption ==
  /\ MaxItems \in Nat \ {0}
  /\ IntSize \in Nat \ {0}
  /\ MaxAdds \in Nat

Indices == -IntSize..(IntSize - 1)

VARIABLES
  items,       \* Items: a function from indices to messages
  nextIndex,   \* NextIndex
  added,       \* history: the messages 1 to added have been added
  adder,       \* where Add is: "idle", "lock", "evict" or "insert"
  reader,      \* where GetMessages is: "idle", "lock" or "copy", per reader
  keys,        \* the keys that each reader has still to look up
  result,      \* the messages that each reader has, or got last
  asked        \* history: added, when the reader called GetMessages

queueVars == <<items, nextIndex, added>>
readerVars == <<reader, keys, result, asked>>
vars == <<queueVars, adder, readerVars>>

Init ==
  /\ items = <<>>
  /\ nextIndex = 0
  /\ added = 0
  /\ adder = "idle"
  /\ reader = [r \in Readers |-> "idle"]
  /\ keys = [r \in Readers |-> {}]
  /\ result = [r \in Readers |-> <<>>]
  /\ asked = [r \in Readers |-> 0]
-----------------------------------------------------------------------------
(* Add.                                                                    *)

\* From now on new readers wait.
CallAdd ==
  /\ adder = "idle"
  /\ added < MaxAdds
  /\ adder' = "lock"
  /\ UNCHANGED <<queueVars, readerVars>>

\* The readers that are in have left.
Lock ==
  /\ adder = "lock"
  /\ \A r \in Readers : reader[r] # "copy"
  /\ adder' = "evict"
  /\ UNCHANGED <<queueVars, readerVars>>

\* Mutant of Full: the queue takes one message too many.
FullPlusOne == Cardinality(DOMAIN items) > MaxItems

Full == Cardinality(DOMAIN items) >= MaxItems

\* Mutant of Evict: the largest key goes.
EvictLargest ==
  /\ adder = "evict"
  /\ Full
  /\ items' = [k \in DOMAIN items \ {Max(DOMAIN items)} |-> items[k]]
  /\ UNCHANGED <<nextIndex, added, adder, readerVars>>

\* One turn of the loop over the keys in ascending order.
Evict ==
  /\ adder = "evict"
  /\ Full
  /\ items' = [k \in DOMAIN items \ {Min(DOMAIN items)} |-> items[k]]
  /\ UNCHANGED <<nextIndex, added, adder, readerVars>>

EvictedEnough ==
  /\ adder = "evict"
  /\ ~Full
  /\ adder' = "insert"
  /\ UNCHANGED <<queueVars, readerVars>>

\* The int after i, which wraps around.
Successor(i) == IF i = IntSize - 1 THEN -IntSize ELSE i + 1

\* Put the message at the next index, and unlock.
Insert ==
  /\ adder = "insert"
  /\ added' = added + 1
  /\ items' = [k \in DOMAIN items \cup {nextIndex} |->
                 IF k = nextIndex THEN added + 1 ELSE items[k]]
  /\ nextIndex' = Successor(nextIndex)
  /\ adder' = "idle"
  /\ UNCHANGED readerVars
-----------------------------------------------------------------------------
(* GetMessages.                                                            *)

CallGetMessages(r) ==
  /\ reader[r] = "idle"
  /\ reader' = [reader EXCEPT ![r] = "lock"]
  /\ result' = [result EXCEPT ![r] = <<>>]
  /\ asked' = [asked EXCEPT ![r] = added]
  /\ UNCHANGED <<queueVars, adder, keys>>

\* Mutant of RLock: no lock is taken.
RLockNothing(r) ==
  /\ reader[r] = "lock"
  /\ reader' = [reader EXCEPT ![r] = "copy"]
  /\ keys' = [keys EXCEPT ![r] = DOMAIN items]
  /\ UNCHANGED <<queueVars, adder, result, asked>>

\* No Add holds the lock or waits for it.  Then the keys are listed.
RLock(r) ==
  /\ reader[r] = "lock"
  /\ adder = "idle"
  /\ reader' = [reader EXCEPT ![r] = "copy"]
  /\ keys' = [keys EXCEPT ![r] = DOMAIN items]
  /\ UNCHANGED <<queueVars, adder, result, asked>>

\* Look up the smallest key that is left.
CopyItem(r) ==
  /\ reader[r] = "copy"
  /\ keys[r] # {}
  /\ LET k == Min(keys[r]) IN
       /\ keys' = [keys EXCEPT ![r] = @ \ {k}]
       /\ result' = IF k \in DOMAIN items
                    THEN [result EXCEPT ![r] = Append(@, items[k])]
                    ELSE result
  /\ UNCHANGED <<queueVars, adder, reader, asked>>

\* Mutant of Return: GetMessages returns holding its lock.
ReturnLocked(r) ==
  /\ reader[r] = "copy"
  /\ keys[r] = {}
  /\ UNCHANGED vars

\* Unlock and return the messages.
Return(r) ==
  /\ reader[r] = "copy"
  /\ keys[r] = {}
  /\ reader' = [reader EXCEPT ![r] = "idle"]
  /\ UNCHANGED <<queueVars, adder, keys, result, asked>>

AddStep == Lock \/ Evict \/ EvictedEnough \/ Insert

GetMessagesStep(r) == RLock(r) \/ CopyItem(r) \/ Return(r)

Next ==
  \/ CallAdd \/ AddStep
  \/ \E r \in Readers : CallGetMessages(r) \/ GetMessagesStep(r)

Spec == Init /\ [][Next]_vars

\* Calls that have begun go on.
FairSpec ==
  /\ Spec
  /\ WF_vars(AddStep)
  /\ \A r \in Readers : WF_vars(GetMessagesStep(r))
-----------------------------------------------------------------------------
TypeOK ==
  /\ DOMAIN items \subseteq Indices
  /\ \A k \in DOMAIN items : items[k] \in 1..added
  /\ Cardinality(DOMAIN items) <= MaxItems
  /\ nextIndex \in Indices
  /\ added \in 0..MaxAdds
  /\ adder \in {"idle", "lock", "evict", "insert"}
  /\ reader \in [Readers -> {"idle", "lock", "copy"}]
  /\ keys \in [Readers -> SUBSET Indices]
  /\ result \in [Readers -> Seq(1..added)]
  /\ asked \in [Readers -> 0..added]

\* "If a message is added and the buffer is already full, the oldest message
\* is removed to make way for the new one": whenever no Add is at work, the
\* queue holds the last messages added, MaxItems of them if there were so many.
HoldsMostRecent ==
  adder \in {"idle", "lock"} =>
    {items[k] : k \in DOMAIN items} = Max({0, added - MaxItems}) + 1..added

\* What GetMessages returns is what the queue held at one moment of the call:
\* messages in the order of their adding, none left out, none older than the
\* queue held when it was called and all of those that had been added by then,
\* unless more came and pushed them out.
SnapshotOfRecent ==
  \A r \in Readers : reader[r] = "idle" =>
    \E last \in asked[r]..added :
      LET first == Max({0, last - MaxItems}) + 1 IN
        result[r] = [i \in 1..(last - first + 1) |-> first + i - 1]

\* An Add that waits for the lock gets it, however often the report is asked
\* for, and so the RTCM handler behind it is not held up for ever.
AddReturns == adder = "lock" ~> adder = "idle"
=============================================================================
