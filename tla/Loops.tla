------------------------------- MODULE Loops -------------------------------
(***************************************************************************)
(* Induction for the loops of the code, which the models write as          *)
(* FoldLeft: what one pass keeps, the loop keeps.                          *)
(*                                                                         *)
(* Step is one pass: it takes what the loop does not change, the value so  *)
(* far and the element.  Good is what holds of the value after so many     *)
(* passes.  A loop instantiates the module with its own pass, and its      *)
(* instance of the theorem is a fact of first-order logic.                 *)
(***************************************************************************)
EXTENDS WellFoundedInduction, TLAPS

CONSTANTS Step(_, _, _), Good(_, _, _)

Greatest(s) == CHOOSE x \in s : \A y \in s : x >= y

\* What FoldLeft(LAMBDA r, x : Step(ctx, r, x), start, seq) is by its definition, which
\* is spelled out here so that an instance does not bring SequencesExt once more.
Loop(ctx, start, seq) ==
  LET iter[s \in SUBSET (DOMAIN seq)] ==
        IF s = {} THEN start ELSE Step(ctx, iter[s \ {Greatest(s)}], seq[Greatest(s)])
  IN  iter[DOMAIN seq]

-----------------------------------------------------------------------------

\* What holds of 0 and of the next number after each up to n holds of n.
LEMMA UpTo ==
  ASSUME NEW n \in Nat, NEW T, 0 \in T, \A i \in 1 .. n : i - 1 \in T => i \in T
  PROVE  n \in T
<1> DEFINE Rest == {i \in 0 .. n : i \notin T}
<1> SUFFICES ASSUME n \notin T PROVE FALSE
  OBVIOUS
<1>1. Rest \subseteq Nat /\ Rest # {}
  OBVIOUS
<1>2. PICK least \in Rest : \A i \in Rest : ~(<<i, least>> \in OpToRel(<, Nat))
  BY <1>1, NatLessThanWellFounded, WFMin, Zenon
<1>3. \A i \in Rest : ~(i < least)
  BY <1>1, <1>2 DEF OpToRel
<1>4. least # 0
  OBVIOUS
<1>5. least - 1 \in 0 .. n /\ least - 1 < least
  BY <1>4
<1> QED
  BY <1>3, <1>5

\* The largest of the numbers of a set that ends with k.
LEMMA LastIsGreatest ==
  ASSUME NEW k \in Nat, NEW s \in SUBSET (1 .. k), k \in s
  PROVE  Greatest(s) = k
<1>1. \A y \in s : k >= y
  OBVIOUS
<1>2. \A x \in s : (\A y \in s : x >= y) => x = k
  OBVIOUS
<1> QED
  BY <1>1, <1>2 DEF Greatest

\* The recursive function of FoldLeft, on the sets of the first k places.
Iterates(g, ctx, start, seq, k) ==
  g = [s \in SUBSET (1 .. k) |->
         IF s = {} THEN start ELSE Step(ctx, g[s \ {Greatest(s)}], seq[Greatest(s)])]

LEMMA IterateExists ==
  ASSUME NEW ctx, NEW start, NEW seq, NEW n \in Nat
  PROVE  \E g : Iterates(g, ctx, start, seq, n)
<1> DEFINE T == {k \in 0 .. n : \E g : Iterates(g, ctx, start, seq, k)}
<1>1. 0 \in T
  <2> DEFINE g == [s \in SUBSET (1 .. 0) |-> start]
  <2>1. \A s \in SUBSET (1 .. 0) : s = {}
    OBVIOUS
  <2>2. Iterates(g, ctx, start, seq, 0)
    BY <2>1 DEF Iterates
  <2> QED
    BY <2>2
<1>2. ASSUME NEW k \in 1 .. n, k - 1 \in T
      PROVE  k \in T
  <2>1. PICK h : Iterates(h, ctx, start, seq, k - 1)
    BY <1>2
  <2> DEFINE g == [s \in SUBSET (1 .. k) |->
                     IF k \in s THEN Step(ctx, h[s \ {k}], seq[k]) ELSE h[s]]
  <2>2. \A s \in SUBSET (1 .. k) : k \notin s => s \in SUBSET (1 .. k - 1)
    OBVIOUS
  <2>3. ASSUME NEW s \in SUBSET (1 .. k)
        PROVE  g[s] = IF s = {} THEN start ELSE Step(ctx, g[s \ {Greatest(s)}], seq[Greatest(s)])
    <3>1. CASE k \in s
      <4>1. Greatest(s) = k
        BY <3>1, LastIsGreatest
      <4>2. s \ {k} \in SUBSET (1 .. k) /\ k \notin s \ {k}
        OBVIOUS
      <4>3. g[s \ {k}] = h[s \ {k}]
        BY <4>2
      <4> QED
        BY <3>1, <4>1, <4>3
    <3>2. CASE k \notin s /\ s # {}
      <4>1. s \in SUBSET (1 .. k - 1) /\ g[s] = h[s]
        BY <2>2, <3>2
      <4>2. h[s] = Step(ctx, h[s \ {Greatest(s)}], seq[Greatest(s)])
        BY <2>1, <3>2, <4>1 DEF Iterates
      <4>3. s \ {Greatest(s)} \in SUBSET (1 .. k) /\ k \notin s \ {Greatest(s)}
        BY <3>2
      <4>4. g[s \ {Greatest(s)}] = h[s \ {Greatest(s)}]
        BY <4>3
      <4> QED
        BY <3>2, <4>1, <4>2, <4>4
    <3>3. CASE s = {}
      BY <2>1, <2>2, <3>3 DEF Iterates
    <3> QED
      BY <3>1, <3>2, <3>3
  <2>4. Iterates(g, ctx, start, seq, k)
    BY <2>3 DEF Iterates
  <2> QED
    BY <2>4
<1> HIDE DEF T
<1>3. n \in T
  BY <1>1, <1>2, UpTo
<1> QED
  BY <1>3 DEF T

\* What holds before a loop and is kept by each of its passes holds after it.
THEOREM LoopKeeps ==
  ASSUME NEW ctx, NEW start, NEW seq, NEW n \in Nat, DOMAIN seq = 1 .. n,
         Good(ctx, 0, start),
         \A i \in 1 .. n : \A r : Good(ctx, i - 1, r) => Good(ctx, i, Step(ctx, r, seq[i]))
  PROVE  Good(ctx, n, Loop(ctx, start, seq))
<1> DEFINE g == CHOOSE h : Iterates(h, ctx, start, seq, n)
           U == {k \in 0 .. n : Good(ctx, k, g[1 .. k])}
<1>1. Iterates(g, ctx, start, seq, n)
  BY IterateExists
<1>2. Loop(ctx, start, seq) = g[1 .. n]
  BY DEF Loop, Iterates
<1> HIDE DEF g
<1>3. g[{}] = start
  BY <1>1 DEF Iterates
<1>4. ASSUME NEW k \in 1 .. n
      PROVE  g[1 .. k] = Step(ctx, g[1 .. k - 1], seq[k])
  <2>1. Greatest(1 .. k) = k
    BY LastIsGreatest
  <2>2. (1 .. k) \ {k} = 1 .. k - 1 /\ 1 .. k # {} /\ 1 .. k \in SUBSET (1 .. n)
    OBVIOUS
  <2> QED
    BY <1>1, <2>1, <2>2 DEF Iterates
<1>5. 0 \in U
  <2>1. 1 .. 0 = {}
    OBVIOUS
  <2> QED
    BY <1>3, <2>1
<1>6. \A k \in 1 .. n : k - 1 \in U => k \in U
  BY <1>4
<1> HIDE DEF U
<1>7. n \in U
  BY <1>5, <1>6, UpTo
<1> QED
  BY <1>2, <1>7 DEF U
=============================================================================
