--------------------------- MODULE InductionFacts ---------------------------
(***************************************************************************)
(* Induction over the natural numbers, said of sets of numbers and proved  *)
(* from the fact that < is well-founded.                                   *)
(***************************************************************************)
EXTENDS Naturals, WellFoundedInduction, TLAPS

Below == {pair \in Nat \X Nat : pair[1] < pair[2]}

LEMMA BelowIsWellFounded == IsWellFoundedOn(Below, Nat)
  BY NatLessThanWellFounded DEF OpToRel, Below

LEMMA Induction ==
  ASSUME NEW S, 0 \in S, \A n \in Nat : n \in S => n + 1 \in S
  PROVE  Nat \subseteq S
  <1> SUFFICES ASSUME Nat \ S # {} PROVE FALSE
    OBVIOUS
  <1>1. PICK least \in Nat \ S : \A n \in Nat \ S : <<n, least>> \notin Below
    BY ONLY BelowIsWellFounded, WFMin, Nat \ S # {}, Nat \ S \subseteq Nat
  <1>2. least - 1 \in Nat
    OBVIOUS
  <1>3. <<least - 1, least>> \in Below
    BY <1>2 DEF Below
  <1> QED
    BY <1>1, <1>2, <1>3

(***************************************************************************)
(* A fold over positions, as MapThenFoldSet of the community module Folds  *)
(* computes it for a sequence: the last position first.                    *)
(***************************************************************************)

Highest(s) == CHOOSE i \in s : \A k \in s : i >= k

LEMMA HighestIs ==
  ASSUME NEW n \in Nat, NEW s \in SUBSET (1 .. n), n \in s
  PROVE  Highest(s) = n
  <1>1. \A k \in s : n >= k
    OBVIOUS
  <1>2. \A i \in s : (\A k \in s : i >= k) => i = n
    OBVIOUS
  <1> QED
    BY <1>1, <1>2 DEF Highest

LEMMA HighestIsOne ==
  ASSUME NEW n \in Nat, NEW s \in SUBSET (1 .. n), s # {}
  PROVE  Highest(s) \in s
  <1> DEFINE S == {m \in Nat : \A t \in SUBSET (1 .. m) : t # {} => Highest(t) \in t}
  <1>1. 0 \in S
    <2>1. \A t \in SUBSET (1 .. 0) : t = {}
      OBVIOUS
    <2> QED
      BY <2>1
  <1>2. ASSUME NEW m \in Nat, m \in S PROVE m + 1 \in S
    <2> SUFFICES ASSUME NEW t \in SUBSET (1 .. m + 1), t # {} PROVE Highest(t) \in t
      OBVIOUS
    <2>1. CASE m + 1 \in t
      BY <2>1, HighestIs
    <2>2. CASE m + 1 \notin t
      <3>1. t \in SUBSET (1 .. m)
        BY <2>2
      <3> QED
        BY <1>2, <3>1
    <2> QED
      BY <2>1, <2>2
  <1> HIDE DEF S
  <1>3. n \in S
    BY <1>1, <1>2, Induction
  <1> QED
    BY <1>3 DEF S

\* The positions up to one of them.
LEMMA UpTo ==
  ASSUME NEW n \in Nat, NEW k \in 1 .. n
  PROVE  /\ 1 .. k \in SUBSET (1 .. n) /\ 1 .. k # {} /\ Highest(1 .. k) = k
         /\ (1 .. k) \ {k} = 1 .. (k - 1)
  <1>1. 1 .. k \in SUBSET (1 .. n) /\ k \in 1 .. k /\ k \in Nat /\ 1 .. k # {}
    OBVIOUS
  <1>2. Highest(1 .. k) = k
    BY <1>1, HighestIs
  <1> QED
    BY <1>1, <1>2

\* The value of a fold at a set of positions, from the fold itself.
FoldAt(base, step, fold, s) ==
    IF s = {} THEN base ELSE step[fold[s \ {Highest(s)}], Highest(s)]
Folds(A, base, step, n, fold) ==
    /\ fold \in [SUBSET (1 .. n) -> A]
    /\ \A s \in SUBSET (1 .. n) : fold[s] = FoldAt(base, step, fold, s)

LEMMA FoldExists ==
  ASSUME NEW A, NEW base \in A, NEW n \in Nat, NEW step \in [A \X (1 .. n) -> A]
  PROVE  \E fold : Folds(A, base, step, n, fold)
  <1> DEFINE S == {m \in Nat : m <= n => \E fold : Folds(A, base, step, m, fold)}
  <1>1. 0 \in S
    <2> DEFINE fold == [s \in SUBSET (1 .. 0) |-> base]
    <2>1. \A s \in SUBSET (1 .. 0) : s = {}
      OBVIOUS
    <2>2. Folds(A, base, step, 0, fold)
      BY <2>1 DEF Folds, FoldAt
    <2> QED
      BY <2>2
  <1>2. ASSUME NEW m \in Nat, m \in S PROVE m + 1 \in S
    <2> SUFFICES ASSUME m + 1 <= n PROVE \E fold : Folds(A, base, step, m + 1, fold)
      OBVIOUS
    <2>1. PICK fold : Folds(A, base, step, m, fold)
      BY <1>2
    <2> DEFINE more == [s \in SUBSET (1 .. m + 1) |->
                           IF m + 1 \in s THEN step[fold[s \ {m + 1}], m + 1] ELSE fold[s]]
    <2>2. ASSUME NEW s \in SUBSET (1 .. m + 1)
          PROVE  more[s] \in A /\ more[s] = FoldAt(base, step, more, s)
      <3>1. CASE m + 1 \in s
        <4>1. Highest(s) = m + 1
          BY <3>1, HighestIs
        <4>2. /\ s \ {m + 1} \in SUBSET (1 .. m + 1) /\ m + 1 \notin s \ {m + 1} /\ s # {}
              /\ s \ {m + 1} \in SUBSET (1 .. m)
          BY <3>1
        <4>3. more[s \ {m + 1}] = fold[s \ {m + 1}] /\ fold[s \ {m + 1}] \in A
          BY <2>1, <4>2 DEF Folds
        <4>4. more[s] = step[fold[s \ {m + 1}], m + 1] /\ m + 1 \in 1 .. n
          BY <3>1
        <4>5. more[s] \in A
          BY <4>3, <4>4
        <4> HIDE DEF more
        <4> QED
          BY <4>1, <4>2, <4>3, <4>4, <4>5 DEF FoldAt
      <3>2. CASE m + 1 \notin s
        <4>1. s \in SUBSET (1 .. m)
          BY <3>2
        <4>2. fold[s] = FoldAt(base, step, fold, s) /\ more[s] = fold[s] /\ fold[s] \in A
          BY <2>1, <3>2, <4>1 DEF Folds
        <4>3. \A x : more[s \ {x}] = fold[s \ {x}]
          <5> TAKE x
          <5>1. s \ {x} \in SUBSET (1 .. m + 1) /\ m + 1 \notin s \ {x}
            BY <3>2
          <5> QED
            BY <5>1
        <4> HIDE DEF more
        <4> QED
          BY <4>2, <4>3 DEF FoldAt
      <3> QED
        BY <3>1, <3>2
    <2>3. more \in [SUBSET (1 .. m + 1) -> A]
      BY <2>2
    <2> HIDE DEF more
    <2> QED
      BY <2>2, <2>3 DEF Folds
  <1> HIDE DEF S
  <1>3. n \in S
    BY <1>1, <1>2, Induction
  <1> QED
    BY <1>3 DEF S

\* Induction up to a bound.
LEMMA InductionUpTo ==
  ASSUME NEW n \in Nat, NEW S \in SUBSET Nat, 0 \in S,
         \A k \in 1 .. n : k - 1 \in S => k \in S
  PROVE  n \in S
  <1> DEFINE T == {m \in Nat : m <= n => m \in S}
  <1>1. 0 \in T
    OBVIOUS
  <1>2. ASSUME NEW m \in Nat, m \in T PROVE m + 1 \in T
    <2>1. CASE m + 1 <= n
      <3>1. m \in S /\ m + 1 \in 1 .. n /\ (m + 1) - 1 = m
        BY <1>2, <2>1
      <3> QED
        BY <3>1
    <2> QED
      BY <2>1
  <1> HIDE DEF T
  <1>3. n \in T
    BY <1>1, <1>2, Induction
  <1> QED
    BY <1>3 DEF T

(***************************************************************************)
(* A recursive function over the numbers up to a bound: it exists, and so  *)
(* the value its definition chooses goes through its steps one by one.     *)
(***************************************************************************)
Iterates(A, base, step, n, walk) ==
    /\ walk \in [0 .. n -> A]
    /\ walk = [k \in 0 .. n |-> IF k = 0 THEN base ELSE step[walk[k - 1]]]

LEMMA IterationExists ==
  ASSUME NEW A, NEW base \in A, NEW n \in Nat, NEW step \in [A -> A]
  PROVE  \E walk : Iterates(A, base, step, n, walk)
  <1> DEFINE S == {m \in Nat : \E walk : Iterates(A, base, step, m, walk)}
  <1>1. 0 \in S
    <2> DEFINE walk == [k \in 0 .. 0 |-> base]
    <2>1. Iterates(A, base, step, 0, walk)
      BY DEF Iterates
    <2> QED
      BY <2>1
  <1>2. ASSUME NEW m \in Nat, m \in S PROVE m + 1 \in S
    <2>1. PICK walk : Iterates(A, base, step, m, walk)
      BY <1>2
    <2> DEFINE more == [k \in 0 .. m + 1 |-> IF k = m + 1 THEN step[walk[m]] ELSE walk[k]]
    <2>2. walk[m] \in A /\ step[walk[m]] \in A
      BY <2>1 DEF Iterates
    <2>3. more \in [0 .. m + 1 -> A]
      BY <2>1, <2>2 DEF Iterates
    <2>4. ASSUME NEW k \in 0 .. m + 1
          PROVE  more[k] = IF k = 0 THEN base ELSE step[more[k - 1]]
      <3>1. CASE k = m + 1
        <4>1. more[k] = step[walk[m]] /\ more[k - 1] = walk[m] /\ k # 0
          BY <3>1
        <4> HIDE DEF more
        <4> QED
          BY <4>1
      <3>2. CASE k # m + 1
        <4>1. k \in 0 .. m /\ more[k] = walk[k] /\ (k # 0 => more[k - 1] = walk[k - 1])
          BY <3>2
        <4>2. walk[k] = IF k = 0 THEN base ELSE step[walk[k - 1]]
          BY <2>1, <4>1 DEF Iterates
        <4> HIDE DEF more
        <4> QED
          BY <4>1, <4>2
      <3> QED
        BY <3>1, <3>2
    <2>5. more = [k \in 0 .. m + 1 |-> more[k]]
      OBVIOUS
    <2> HIDE DEF more
    <2>6. more = [k \in 0 .. m + 1 |-> IF k = 0 THEN base ELSE step[more[k - 1]]]
      BY <2>4, <2>5
    <2> QED
      BY <2>3, <2>6 DEF Iterates
  <1> HIDE DEF S
  <1>3. n \in S
    BY <1>1, <1>2, Induction
  <1> QED
    BY <1>3 DEF S
=============================================================================
