------------------------- MODULE CircularQueueProofs -------------------------
(***************************************************************************)
(* Proofs about the queue of recent messages, for any size of the queue    *)
(* and any number of readers, as long as NextIndex does not overflow.      *)
(***************************************************************************)
EXTENDS CircularQueue, FiniteSetTheorems, SequenceTheorems, TLAPS

\* The int is large enough to number every message.
NoOverflow == MaxAdds < IntSize

\* How many of the first n messages a queue has pushed out.
Gone(n) == IF n <= MaxItems THEN 0 ELSE n - MaxItems

\* The queue holds the messages from number oldest + 1.
Holds(oldest) ==
  /\ DOMAIN items = oldest..(added - 1)
  /\ \A k \in DOMAIN items : items[k] = k + 1

QueueInv ==
  /\ added \in 0..MaxAdds
  /\ nextIndex = added
  /\ adder \in {"idle", "lock", "evict", "insert"}
  /\ adder # "idle" => added < MaxAdds
  /\ adder \in {"idle", "lock"} => Holds(Gone(added))
  /\ adder = "evict" => Holds(Gone(added)) \/ Holds(Gone(added + 1))
  /\ adder = "insert" => Holds(Gone(added + 1))

\* A reader has the messages that follow the first n.
Has(r, n) ==
  \A i \in 1..Len(result[r]) : result[r][i] = n + i

\* A reader that copies has begun with the oldest message, and has the others
\* before it; one that has returned has all that were there at some moment.
ReaderInv(r) ==
  /\ reader[r] \in {"idle", "lock", "copy"}
  /\ result[r] \in Seq(1..added)
  /\ asked[r] \in 0..added
  /\ keys[r] \in SUBSET (0..(MaxAdds - 1))
  /\ reader[r] = "lock" => result[r] = <<>>
  /\ reader[r] = "copy" =>
       /\ adder \in {"idle", "lock"}
       /\ Len(result[r]) <= added - Gone(added)
       /\ keys[r] = (Gone(added) + Len(result[r]))..(added - 1)
       /\ Has(r, Gone(added))
  /\ reader[r] = "idle" =>
       \E last \in asked[r]..added :
         Len(result[r]) = last - Gone(last) /\ Has(r, Gone(last))

ReadersInv ==
  /\ reader \in [Readers -> {"idle", "lock", "copy"}]
  /\ keys \in [Readers -> SUBSET (0..(MaxAdds - 1))]
  /\ result \in [Readers -> Seq(1..added)]
  /\ asked \in [Readers -> 0..added]
  /\ \A r \in Readers : ReaderInv(r)
-----------------------------------------------------------------------------
\* The smallest number of an interval.
LEMMA MinOfInterval ==
  ASSUME NEW a \in Int, NEW b \in Int, a <= b
  PROVE  Min(a..b) = a
<1>1. a \in a..b /\ \A y \in a..b : a <= y
  OBVIOUS
<1>2. \E x \in a..b : \A y \in a..b : x <= y
  BY <1>1
<1>3. Min(a..b) \in a..b /\ \A y \in a..b : Min(a..b) <= y
  BY <1>2 DEF Min
<1> QED
  BY <1>1, <1>3

\* The larger of a number and zero.
LEMMA MaxWithZero ==
  ASSUME NEW n \in Int
  PROVE  Max({0, n}) = IF n <= 0 THEN 0 ELSE n
<1>1. \E x \in {0, n} : \A y \in {0, n} : x >= y
  <2>1. CASE n <= 0
    BY <2>1
  <2>2. CASE ~(n <= 0)
    BY <2>2
  <2> QED
    BY <2>1, <2>2
<1>2. Max({0, n}) \in {0, n} /\ \A y \in {0, n} : Max({0, n}) >= y
  BY <1>1 DEF Max
<1> QED
  BY <1>2

\* What Gone is made for.
LEMMA GoneIs ==
  ASSUME NEW n \in Nat
  PROVE  /\ Gone(n) \in 0..n
         /\ n - Gone(n) <= MaxItems
         /\ Max({0, n - MaxItems}) = Gone(n)
         /\ n >= MaxItems => Gone(n + 1) = Gone(n) + 1
         /\ n < MaxItems => Gone(n) = 0 /\ Gone(n + 1) = 0
         /\ n - Gone(n + 1) < MaxItems
         /\ Gone(n + 1) \in 0..n
         /\ n - Gone(n) < MaxItems => n < MaxItems
<1>1. MaxItems \in Nat \ {0}
  BY CircularQueueAssumption
<1>2. Max({0, n - MaxItems}) = Gone(n)
  BY <1>1, MaxWithZero DEF Gone
<1> QED
  BY <1>1, <1>2 DEF Gone

\* How many messages the queue holds.
LEMMA HeldCount ==
  ASSUME added \in Nat, NEW oldest \in 0..added, Holds(oldest)
  PROVE  Cardinality(DOMAIN items) = added - oldest
<1>1. Cardinality(oldest..(added - 1)) =
        IF oldest > added - 1 THEN 0 ELSE (added - 1) - oldest + 1
  BY FS_Interval
<1> QED
  BY <1>1 DEF Holds
-----------------------------------------------------------------------------
\* The queue is empty at first.
LEMMA InitQueue == Init => QueueInv
<1> SUFFICES ASSUME Init PROVE QueueInv
  OBVIOUS
<1>1. Gone(0) = 0 /\ MaxAdds \in Nat
  BY CircularQueueAssumption DEF Gone
<1>2. added = 0 /\ items = <<>>
  BY DEF Init
<1>3. DOMAIN items = {} /\ Gone(added)..(added - 1) = {}
  BY <1>1, <1>2
<1>4. Holds(Gone(added))
  BY <1>3 DEF Holds
<1> QED
  BY <1>1, <1>4 DEF Init, QueueInv

\* Add keeps the invariant of the queue, GetMessages leaves the queue alone.
LEMMA NextQueue ==
  ASSUME NoOverflow, QueueInv, [Next]_vars
  PROVE  QueueInv'
<1>1. /\ added \in Nat /\ MaxAdds \in Nat /\ IntSize \in Nat
      /\ MaxItems \in Nat \ {0} /\ MaxAdds < IntSize
      /\ added <= MaxAdds /\ added + 1 \in Nat
  BY CircularQueueAssumption DEF QueueInv, NoOverflow
<1>2. /\ Gone(added) \in 0..added /\ Gone(added + 1) \in 0..added
      /\ added >= MaxItems => Gone(added + 1) = Gone(added) + 1
      /\ added < MaxItems => Gone(added) = Gone(added + 1)
      /\ added - Gone(added + 1) < MaxItems
      /\ added - Gone(added) < MaxItems => added < MaxItems
  BY <1>1, GoneIs
<1>3. CASE UNCHANGED <<queueVars, adder>>
  BY <1>3 DEF QueueInv, Holds, Gone, queueVars
<1>4. CASE CallAdd
  BY <1>4 DEF CallAdd, QueueInv, Holds, Gone, queueVars
<1>5. CASE Lock
  BY <1>5 DEF Lock, QueueInv, Holds, Gone, queueVars
<1>6. CASE Evict
  <2>1. /\ adder = "evict" /\ adder' = "evict" /\ added' = added
        /\ nextIndex' = nextIndex /\ Full
        /\ items' = [k \in DOMAIN items \ {Min(DOMAIN items)} |-> items[k]]
    BY <1>6 DEF Evict
  <2>2. ~Holds(Gone(added + 1))
    <3> SUFFICES ASSUME Holds(Gone(added + 1)) PROVE FALSE
      OBVIOUS
    <3>1. Cardinality(DOMAIN items) = added - Gone(added + 1)
      BY <1>1, <1>2, HeldCount
    <3> QED
      BY <1>1, <1>2, <2>1, <3>1 DEF Full
  <2>3. Holds(Gone(added))
    BY <2>1, <2>2 DEF QueueInv
  <2>4. added - Gone(added) >= MaxItems
    BY <1>1, <1>2, <2>1, <2>3, HeldCount DEF Full
  <2>5. Gone(added + 1) = Gone(added) + 1 /\ Gone(added) <= added - 1
    BY <1>1, <1>2, <2>4
  <2>6. Min(DOMAIN items) = Gone(added)
    BY <1>1, <1>2, <2>3, <2>5, MinOfInterval DEF Holds
  <2>7. DOMAIN items' = (Gone(added) + 1)..(added - 1)
    BY <1>1, <1>2, <2>1, <2>3, <2>6 DEF Holds
  <2>8. \A k \in DOMAIN items' : items'[k] = k + 1
    BY <2>1, <2>3 DEF Holds
  <2>9. Holds(Gone(added + 1))'
    BY <2>1, <2>5, <2>7, <2>8 DEF Holds, Gone
  <2> QED
    BY <2>1, <2>9 DEF QueueInv
<1>7. CASE EvictedEnough
  <2>1. /\ adder = "evict" /\ adder' = "insert" /\ UNCHANGED queueVars /\ ~Full
    BY <1>7 DEF EvictedEnough
  <2>2. Holds(Gone(added + 1))
    <3>1. CASE Holds(Gone(added))
      <4>1. Cardinality(DOMAIN items) = added - Gone(added)
        BY <1>1, <1>2, <3>1, HeldCount
      <4>2. added - Gone(added) < MaxItems
        BY <1>1, <1>2, <2>1, <4>1 DEF Full
      <4> QED
        BY <1>2, <3>1, <4>2
    <3> QED
      BY <2>1, <3>1 DEF QueueInv
  <2> QED
    BY <2>1, <2>2 DEF QueueInv, Holds, Gone, queueVars
<1>8. CASE Insert
  <2>1. /\ adder = "insert" /\ adder' = "idle" /\ added' = added + 1
        /\ items' = [k \in DOMAIN items \cup {added} |->
                       IF k = added THEN added + 1 ELSE items[k]]
        /\ nextIndex' = Successor(added)
    BY <1>8 DEF Insert, QueueInv
  <2>2. nextIndex' = added + 1
    BY <1>1, <2>1 DEF Successor, QueueInv
  <2>3. Holds(Gone(added + 1))
    BY <2>1 DEF QueueInv
  <2>4. DOMAIN items' = Gone(added + 1)..added
    BY <1>1, <1>2, <2>1, <2>3 DEF Holds
  <2>5. \A k \in DOMAIN items' : items'[k] = k + 1
    BY <1>1, <2>1, <2>3 DEF Holds
  <2>6. Holds(Gone(added))'
    BY <1>1, <2>1, <2>4, <2>5 DEF Holds, Gone
  <2> QED
    BY <1>1, <2>1, <2>2, <2>6 DEF QueueInv
<1>9. ASSUME NEW r \in Readers, CallGetMessages(r) \/ GetMessagesStep(r)
      PROVE  UNCHANGED <<queueVars, adder>>
  BY <1>9 DEF CallGetMessages, GetMessagesStep, RLock, CopyItem, Return
<1> QED
  BY <1>3, <1>4, <1>5, <1>6, <1>7, <1>8, <1>9 DEF Next, AddStep, vars

\* The invariant of the queue.
LEMMA QueueInvariant ==
  ASSUME NoOverflow
  PROVE  Spec => []QueueInv
<1>1. Init => QueueInv
  BY InitQueue
<1>2. QueueInv /\ [Next]_vars => QueueInv'
  BY NextQueue
<1> QED
  BY <1>1, <1>2, PTL DEF Spec
-----------------------------------------------------------------------------
\* A sequence of some numbers is a sequence of more numbers.
LEMMA SeqOfMore ==
  ASSUME NEW a \in Nat, NEW b \in Nat, a <= b, NEW s \in Seq(1..a)
  PROVE  s \in Seq(1..b)
<1>1. 1..a \subseteq 1..b
  OBVIOUS
<1> QED
  BY <1>1

\* No reader is in GetMessages at first.
LEMMA InitReaders == Init => ReadersInv
<1> SUFFICES ASSUME Init PROVE ReadersInv
  OBVIOUS
<1>1. Gone(0) = 0
  BY CircularQueueAssumption DEF Gone
<1>2. added = 0
  BY DEF Init
<1>3. /\ reader \in [Readers -> {"idle", "lock", "copy"}]
      /\ keys \in [Readers -> SUBSET (0..(MaxAdds - 1))]
      /\ result \in [Readers -> Seq(1..added)]
      /\ asked \in [Readers -> 0..added]
  BY DEF Init
<1>4. ASSUME NEW r \in Readers PROVE ReaderInv(r)
  <2>1. reader[r] = "idle" /\ result[r] = <<>> /\ asked[r] = 0
    BY DEF Init
  <2>2. Len(result[r]) = 0 - Gone(0) /\ Has(r, Gone(0))
    BY <1>1, <2>1 DEF Has
  <2>3. 0 \in asked[r]..added
    BY <1>2, <2>1
  <2> QED
    BY <1>3, <2>1, <2>2, <2>3 DEF ReaderInv
<1> QED
  BY <1>3, <1>4 DEF ReadersInv

\* What an Add does not change for a reader.
LEMMA AddAndReader ==
  ASSUME QueueInv, NEW r \in Readers, ReaderInv(r), UNCHANGED readerVars,
         added' \in Nat,
         \/ added' = added
         \/ added' = added + 1 /\ reader[r] # "copy",
         adder' \in {"idle", "lock"} \/ reader[r] # "copy"
  PROVE  ReaderInv(r)'
<1>1. /\ reader'[r] = reader[r] /\ keys'[r] = keys[r]
      /\ result'[r] = result[r] /\ asked'[r] = asked[r]
  BY DEF readerVars
<1>2. added \in Nat /\ added <= added'
  BY DEF QueueInv
<1>3. /\ reader[r] \in {"idle", "lock", "copy"} /\ result[r] \in Seq(1..added)
      /\ asked[r] \in 0..added /\ keys[r] \in SUBSET (0..(MaxAdds - 1))
      /\ reader[r] = "lock" => result[r] = <<>>
  BY DEF ReaderInv
<1>4. result[r] \in Seq(1..added') /\ asked[r] \in 0..added'
  BY <1>2, <1>3, SeqOfMore
<1>5. CASE reader[r] = "copy"
  BY <1>1, <1>3, <1>5 DEF ReaderInv, Has, Gone
<1>6. CASE reader[r] = "idle"
  <2>1. PICK last \in asked[r]..added :
          Len(result[r]) = last - Gone(last) /\ Has(r, Gone(last))
    BY <1>6 DEF ReaderInv
  <2>2. last \in asked'[r]..added'
    BY <1>1, <1>2, <1>3
  <2>3. Len(result'[r]) = last - Gone(last) /\ Has(r, Gone(last))'
    BY <1>1, <2>1 DEF Has, Gone
  <2>4. \E n \in asked'[r]..added' :
          Len(result'[r]) = n - Gone(n) /\ Has(r, Gone(n))'
    BY <2>2, <2>3
  <2> QED
    BY <1>1, <1>3, <1>4, <1>6, <2>4 DEF ReaderInv, Gone
<1>7. CASE reader[r] = "lock"
  BY <1>1, <1>3, <1>4, <1>7 DEF ReaderInv
<1> QED
  BY <1>3, <1>5, <1>6, <1>7

\* A step of GetMessages keeps the invariant of its reader.
LEMMA GetMessagesAndReader ==
  ASSUME QueueInv, ReadersInv, NEW r \in Readers,
         CallGetMessages(r) \/ GetMessagesStep(r)
  PROVE  ReaderInv(r)'
<1>1. /\ added \in Nat /\ added <= MaxAdds /\ MaxAdds \in Nat
      /\ Gone(added) \in 0..added
  <2>1. /\ added \in Nat /\ added <= MaxAdds /\ MaxAdds \in Nat
    BY CircularQueueAssumption DEF QueueInv
  <2> QED
    BY <2>1, GoneIs
<1>2. /\ reader \in [Readers -> {"idle", "lock", "copy"}]
      /\ keys \in [Readers -> SUBSET (0..(MaxAdds - 1))]
      /\ result \in [Readers -> Seq(1..added)]
      /\ asked \in [Readers -> 0..added]
      /\ ReaderInv(r)
  BY DEF ReadersInv
<1>3. adder' = adder /\ added' = added
  BY DEF CallGetMessages, GetMessagesStep, RLock, CopyItem, Return, queueVars
<1>4. CASE CallGetMessages(r)
  BY <1>1, <1>2, <1>3, <1>4 DEF CallGetMessages, ReaderInv
<1>5. CASE RLock(r)
  <2>1. /\ reader[r] = "lock" /\ reader'[r] = "copy" /\ adder = "idle"
        /\ keys'[r] = DOMAIN items /\ result' = result /\ asked' = asked
    BY <1>2, <1>5 DEF RLock
  <2>2. result[r] = <<>> /\ Len(result[r]) = 0
    BY <1>2, <2>1 DEF ReaderInv
  <2>3. keys'[r] = Gone(added)..(added - 1)
    BY <2>1 DEF QueueInv, Holds
  <2>4. /\ keys'[r] = (Gone(added) + Len(result[r]))..(added - 1)
        /\ keys'[r] \in SUBSET (0..(MaxAdds - 1))
        /\ Len(result[r]) <= added - Gone(added)
        /\ Has(r, Gone(added))
    BY <1>1, <2>2, <2>3 DEF Has
  <2> QED
    BY <1>2, <1>3, <2>1, <2>4 DEF ReaderInv, Has, Gone
<1>6. CASE CopyItem(r)
  <2> DEFINE n == Gone(added) + Len(result[r])
  <2>1. /\ reader[r] = "copy" /\ reader' = reader /\ asked' = asked /\ keys[r] # {}
        /\ adder \in {"idle", "lock"} /\ Holds(Gone(added))
        /\ Len(result[r]) \in Nat /\ Has(r, Gone(added))
        /\ keys[r] = n..(added - 1)
    BY <1>2, <1>6 DEF CopyItem, ReaderInv, QueueInv
  <2>2. n \in 0..(added - 1) /\ n \in DOMAIN items
    BY <1>1, <2>1 DEF Holds
  <2>3. Min(keys[r]) = n
    BY <1>1, <2>1, <2>2, MinOfInterval
  <2>4. items[n] = n + 1
    BY <2>1, <2>2 DEF Holds
  <2>5. /\ keys'[r] = keys[r] \ {n}
        /\ result'[r] = Append(result[r], n + 1)
    BY <1>2, <1>6, <2>2, <2>3, <2>4 DEF CopyItem
  <2>6. n + 1 \in 1..added
    BY <1>1, <2>2
  <2>7. /\ result'[r] \in Seq(1..added)
        /\ Len(result'[r]) = Len(result[r]) + 1
        /\ \A i \in 1..Len(result[r]) : result'[r][i] = result[r][i]
        /\ result'[r][Len(result[r]) + 1] = n + 1
    BY <1>2, <2>5, <2>6
  <2>8. Has(r, Gone(added))'
    <3>1. ASSUME NEW i \in 1..Len(result'[r])
          PROVE  result'[r][i] = Gone(added) + i
      <4>1. CASE i \in 1..Len(result[r])
        BY <2>1, <2>7, <4>1 DEF Has
      <4>2. CASE i = Len(result[r]) + 1
        BY <1>1, <2>1, <2>7, <4>2
      <4> QED
        BY <2>1, <2>7, <4>1, <4>2
    <3> QED
      BY <1>3, <3>1 DEF Has, Gone
  <2>9. /\ keys'[r] = (Gone(added) + Len(result'[r]))..(added - 1)
        /\ Len(result'[r]) <= added - Gone(added)
    BY SMTT(60), <1>1, <2>1, <2>2, <2>5, <2>7
  <2>10. keys'[r] \in SUBSET (0..(MaxAdds - 1))
    BY <1>2, <2>5
  <2> QED
    BY <1>2, <1>3, <2>1, <2>7, <2>8, <2>9, <2>10 DEF ReaderInv, Gone
<1>7. CASE Return(r)
  <2>1. /\ reader[r] = "copy" /\ reader'[r] = "idle" /\ keys[r] = {}
        /\ keys' = keys /\ result' = result /\ asked' = asked
    BY <1>2, <1>7 DEF Return
  <2>2. /\ Len(result[r]) <= added - Gone(added) /\ Len(result[r]) \in Nat
        /\ keys[r] = (Gone(added) + Len(result[r]))..(added - 1)
        /\ Has(r, Gone(added))
    BY <1>2, <2>1 DEF ReaderInv
  <2>3. Len(result[r]) = added - Gone(added)
    <3>1. ~(Gone(added) + Len(result[r]) <= added - 1)
      <4>1. (Gone(added) + Len(result[r])) \notin keys[r]
        BY <2>1
      <4>2. Gone(added) + Len(result[r]) \in Nat
        BY <1>1, <2>2
      <4> QED
        BY <1>1, <2>2, <4>1, <4>2
    <3> QED
      BY <1>1, <2>2, <3>1
  <2>4. added \in asked[r]..added
    BY <1>1, <1>2
  <2>5. \E last \in asked'[r]..added' :
          Len(result'[r]) = last - Gone(last) /\ Has(r, Gone(last))'
    BY <1>3, <2>1, <2>2, <2>3, <2>4 DEF Has, Gone
  <2> QED
    BY <1>2, <1>3, <2>1, <2>5 DEF ReaderInv, Gone
<1> QED
  BY <1>4, <1>5, <1>6, <1>7 DEF GetMessagesStep

\* Readers do not disturb each other.
LEMMA OtherReader ==
  ASSUME ReadersInv, NEW r \in Readers, NEW s \in Readers, s # r,
         CallGetMessages(s) \/ GetMessagesStep(s)
  PROVE  ReaderInv(r)'
<1>1. /\ reader \in [Readers -> {"idle", "lock", "copy"}]
      /\ keys \in [Readers -> SUBSET (0..(MaxAdds - 1))]
      /\ result \in [Readers -> Seq(1..added)]
      /\ asked \in [Readers -> 0..added]
      /\ ReaderInv(r)
  BY DEF ReadersInv
<1>2. adder' = adder /\ added' = added
  BY DEF CallGetMessages, GetMessagesStep, RLock, CopyItem, Return, queueVars
<1>3. /\ reader'[r] = reader[r] /\ keys'[r] = keys[r]
      /\ result'[r] = result[r] /\ asked'[r] = asked[r]
  <2>1. CASE CallGetMessages(s)
    BY <1>1, <2>1 DEF CallGetMessages
  <2>2. CASE RLock(s)
    BY <1>1, <2>2 DEF RLock
  <2>3. CASE CopyItem(s)
    BY <1>1, <2>3 DEF CopyItem
  <2>4. CASE Return(s)
    BY <1>1, <2>4 DEF Return
  <2> QED
    BY <2>1, <2>2, <2>3, <2>4 DEF GetMessagesStep
<1> QED
  BY <1>1, <1>2, <1>3 DEF ReaderInv, Has, Gone

\* The variables of the readers stay functions on the readers.
LEMMA ReaderFunctions ==
  ASSUME ReadersInv, NEW s \in Readers,
         CallGetMessages(s) \/ GetMessagesStep(s)
  PROVE  /\ DOMAIN reader' = Readers /\ DOMAIN keys' = Readers
         /\ DOMAIN result' = Readers /\ DOMAIN asked' = Readers
         /\ reader' = [r \in Readers |-> reader'[r]]
         /\ keys' = [r \in Readers |-> keys'[r]]
         /\ result' = [r \in Readers |-> result'[r]]
         /\ asked' = [r \in Readers |-> asked'[r]]
<1>1. /\ reader \in [Readers -> {"idle", "lock", "copy"}]
      /\ keys \in [Readers -> SUBSET (0..(MaxAdds - 1))]
      /\ result \in [Readers -> Seq(1..added)]
      /\ asked \in [Readers -> 0..added]
  BY DEF ReadersInv
<1>2. CASE CallGetMessages(s)
  BY <1>1, <1>2 DEF CallGetMessages
<1>3. CASE RLock(s)
  BY <1>1, <1>3 DEF RLock
<1>4. CASE CopyItem(s)
  BY <1>1, <1>4 DEF CopyItem
<1>5. CASE Return(s)
  BY <1>1, <1>5 DEF Return
<1> QED
  BY <1>2, <1>3, <1>4, <1>5 DEF GetMessagesStep

\* Every step keeps the invariant of the readers.
LEMMA NextReaders ==
  ASSUME NoOverflow, QueueInv, ReadersInv, [Next]_vars
  PROVE  ReadersInv'
<1>1. QueueInv'
  BY NextQueue
<1>2. /\ reader = [r \in Readers |-> reader[r]]
      /\ keys = [r \in Readers |-> keys[r]]
      /\ result = [r \in Readers |-> result[r]]
      /\ asked = [r \in Readers |-> asked[r]]
      /\ \A r \in Readers : ReaderInv(r)
  BY DEF ReadersInv
<1>3. added \in Nat /\ added' \in Nat
  BY <1>1, CircularQueueAssumption DEF QueueInv
<1>4. CASE CallAdd \/ AddStep \/ UNCHANGED vars
  <2>1. UNCHANGED readerVars
    BY <1>4 DEF CallAdd, AddStep, Lock, Evict, EvictedEnough, Insert, vars
  <2>2. ASSUME NEW r \in Readers PROVE ReaderInv(r)'
    <3>1. ReaderInv(r)
      BY <1>2
    <3>2. reader[r] = "copy" => adder \in {"idle", "lock"}
      BY <3>1 DEF ReaderInv
    <3>3. \/ added' = added
          \/ added' = added + 1 /\ reader[r] # "copy"
      BY <1>4, <3>2 DEF CallAdd, AddStep, Lock, Evict, EvictedEnough, Insert,
                        vars, queueVars
    <3>4. adder' \in {"idle", "lock"} \/ reader[r] # "copy"
      BY <1>4, <3>2 DEF CallAdd, AddStep, Lock, Evict, EvictedEnough, Insert, vars
    <3> QED
      BY <1>3, <2>1, <3>1, <3>3, <3>4, AddAndReader
  <2>3. /\ reader' = [r \in Readers |-> reader'[r]]
        /\ keys' = [r \in Readers |-> keys'[r]]
        /\ result' = [r \in Readers |-> result'[r]]
        /\ asked' = [r \in Readers |-> asked'[r]]
    BY <1>2, <2>1 DEF readerVars
  <2>4. (\A r \in Readers : ReaderInv(r))'
    BY <2>2
  <2> QED
    BY <2>3, <2>4 DEF ReadersInv, ReaderInv
<1>5. ASSUME NEW s \in Readers, CallGetMessages(s) \/ GetMessagesStep(s)
      PROVE  ReadersInv'
  <2>1. ASSUME NEW r \in Readers PROVE ReaderInv(r)'
    <3>1. CASE r = s
      BY <1>5, <3>1, GetMessagesAndReader
    <3>2. CASE r # s
      BY <1>5, <3>2, OtherReader
    <3> QED
      BY <3>1, <3>2
  <2>2. /\ reader' = [r \in Readers |-> reader'[r]]
        /\ keys' = [r \in Readers |-> keys'[r]]
        /\ result' = [r \in Readers |-> result'[r]]
        /\ asked' = [r \in Readers |-> asked'[r]]
    BY <1>5, ReaderFunctions
  <2> QED
    BY <2>1, <2>2 DEF ReadersInv, ReaderInv
<1> QED
  BY <1>4, <1>5 DEF Next

\* The invariant of the queue and its readers.
LEMMA QueueAndReaders ==
  ASSUME NoOverflow
  PROVE  Spec => [](QueueInv /\ ReadersInv)
<1>1. Init => QueueInv /\ ReadersInv
  BY InitQueue, InitReaders
<1>2. QueueInv /\ ReadersInv /\ [Next]_vars => (QueueInv /\ ReadersInv)'
  BY NextQueue, NextReaders
<1> QED
  BY <1>1, <1>2, PTL DEF Spec
-----------------------------------------------------------------------------
\* Every variable keeps to its type, and the queue to its size.
THEOREM TypeCorrect ==
  ASSUME NoOverflow
  PROVE  Spec => []TypeOK
<1>1. QueueInv /\ ReadersInv => TypeOK
  <2> SUFFICES ASSUME QueueInv, ReadersInv PROVE TypeOK
    OBVIOUS
  <2>1. /\ added \in Nat /\ added <= MaxAdds /\ MaxAdds \in Nat
        /\ IntSize \in Nat /\ MaxAdds < IntSize /\ MaxItems \in Nat \ {0}
    BY CircularQueueAssumption DEF QueueInv, NoOverflow
  <2>2. PICK oldest \in 0..added : Holds(oldest) /\ added - oldest <= MaxItems
    <3>1. /\ Gone(added) \in 0..added /\ added - Gone(added) <= MaxItems
          /\ Gone(added + 1) \in 0..added /\ added - Gone(added + 1) <= MaxItems
      <4>1. added - Gone(added + 1) < MaxItems /\ Gone(added + 1) \in 0..added
        BY <2>1, GoneIs
      <4>2. Gone(added) \in 0..added /\ added - Gone(added) <= MaxItems
        BY <2>1, GoneIs
      <4> QED
        BY <2>1, <4>1, <4>2
    <3>2. Holds(Gone(added)) \/ Holds(Gone(added + 1))
      BY DEF QueueInv
    <3> QED
      BY <3>1, <3>2
  <2>3. DOMAIN items \subseteq Indices
    BY <2>1, <2>2 DEF Holds, Indices
  <2>4. \A k \in DOMAIN items : items[k] \in 1..added
    BY <2>1, <2>2 DEF Holds
  <2>5. Cardinality(DOMAIN items) <= MaxItems
    BY <2>1, <2>2, HeldCount
  <2>6. nextIndex \in Indices
    BY <2>1 DEF QueueInv, Indices
  <2>7. 0..(MaxAdds - 1) \subseteq Indices
    BY <2>1 DEF Indices
  <2>8. keys \in [Readers -> SUBSET Indices]
    BY <2>7 DEF ReadersInv
  <2> QED
    BY <2>3, <2>4, <2>5, <2>6, <2>8 DEF TypeOK, QueueInv, ReadersInv
<1> QED
  BY QueueAndReaders, <1>1, PTL

\* Whenever no Add is at work, the queue holds the messages added last (Add).
THEOREM QueueHoldsMostRecent ==
  ASSUME NoOverflow
  PROVE  Spec => []HoldsMostRecent
<1>1. QueueInv => HoldsMostRecent
  <2> SUFFICES ASSUME QueueInv, adder \in {"idle", "lock"}
               PROVE  {items[k] : k \in DOMAIN items}
                        = Max({0, added - MaxItems}) + 1..added
    BY DEF HoldsMostRecent
  <2>1. added \in Nat
    BY CircularQueueAssumption DEF QueueInv
  <2>2. Max({0, added - MaxItems}) = Gone(added) /\ Gone(added) \in 0..added
    BY <2>1, GoneIs
  <2>3. Holds(Gone(added))
    BY DEF QueueInv
  <2>4. ASSUME NEW m \in {items[k] : k \in DOMAIN items}
        PROVE  m \in Gone(added) + 1..added
    BY <2>1, <2>2, <2>3 DEF Holds
  <2>5. ASSUME NEW m \in Gone(added) + 1..added
        PROVE  m \in {items[k] : k \in DOMAIN items}
    <3>1. m - 1 \in DOMAIN items /\ items[m - 1] = m
      BY <2>1, <2>2, <2>3 DEF Holds
    <3> QED
      BY <3>1
  <2> QED
    BY <2>2, <2>4, <2>5
<1> QED
  BY QueueAndReaders, <1>1, PTL

\* GetMessages returns what the queue held at one moment of the call.
THEOREM GetMessagesIsSnapshot ==
  ASSUME NoOverflow
  PROVE  Spec => []SnapshotOfRecent
<1>1. QueueInv /\ ReadersInv => SnapshotOfRecent
  <2> SUFFICES ASSUME QueueInv, ReadersInv, NEW r \in Readers, reader[r] = "idle"
               PROVE  \E last \in asked[r]..added :
                        LET first == Max({0, last - MaxItems}) + 1 IN
                          result[r] = [i \in 1..(last - first + 1) |-> first + i - 1]
    BY DEF SnapshotOfRecent
  <2>1. PICK last \in asked[r]..added :
          Len(result[r]) = last - Gone(last) /\ Has(r, Gone(last))
    BY DEF ReadersInv, ReaderInv
  <2>2. added \in Nat /\ asked[r] \in 0..added /\ result[r] \in Seq(1..added)
    BY CircularQueueAssumption DEF QueueInv, ReadersInv
  <2>3. last \in Nat
    BY <2>1, <2>2
  <2>4. Gone(last) \in 0..last /\ Max({0, last - MaxItems}) = Gone(last)
    BY <2>3, GoneIs
  <2> DEFINE first == Max({0, last - MaxItems}) + 1
  <2>5. last - first + 1 = Len(result[r])
    BY <2>1, <2>3, <2>4
  <2>6. \A i \in 1..Len(result[r]) : result[r][i] = first + i - 1
    <3>1. ASSUME NEW i \in 1..Len(result[r]) PROVE result[r][i] = first + i - 1
      <4>1. result[r][i] = Gone(last) + i /\ i \in Int /\ Gone(last) \in Int
        BY <2>1, <2>2, <2>4 DEF Has
      <4> QED
        BY <2>4, <4>1
    <3> QED
      BY <3>1
  <2>7. result[r] = [i \in 1..Len(result[r]) |-> result[r][i]]
    <3>1. result[r] \in [1..Len(result[r]) -> 1..added]
      BY <2>2, LenProperties
    <3> QED
      BY <3>1
  <2>8. result[r] = [i \in 1..(last - first + 1) |-> first + i - 1]
    BY <2>5, <2>6, <2>7
  <2> QED
    BY <2>8
<1> QED
  BY QueueAndReaders, <1>1, PTL
=============================================================================
