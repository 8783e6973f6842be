---------------------------- MODULE CompoundProofs ----------------------------
(***************************************************************************)
(* Theorems about CompoundFiles, for any file: a chain of its allocation   *)
(* table is followed to the end mark or refused rightly, a stream has the  *)
(* bytes of its chain and no byte twice, the tree of the directory is left *)
(* with every entry it leads to placed once, and so the file is read or    *)
(* refused.  The lemmas on finite sets are those of MediaProofs.           *)
(***************************************************************************)
EXTENDS CompoundFiles, MediaProofs

(***************************************************************************)
(* The chain of an allocation table.                                       *)
(***************************************************************************)

Chains == [ok : BOOLEAN, list : Seq(Nat), current : Links]
FirstLink(start) == [ok |-> TRUE, list |-> <<>>, current |-> start]
Once(list) == \A i, j \in DOMAIN list : list[i] = list[j] => i = j
Closed(table, start, set) ==
    /\ start \in set
    /\ \A s \in set : s \in 0 .. Len(table) - 1 => table[s + 1] \in set

LEMMA ChainOfIs ==
  ASSUME NEW table \in Seq(Links), NEW start \in Links
  PROVE  /\ ChainOf(table, start) \subseteq Links /\ start \in ChainOf(table, start)
         /\ IsFiniteSet(ChainOf(table, start))
         /\ \A s \in ChainOf(table, start) : s \in 0 .. Len(table) - 1 =>
               table[s + 1] \in ChainOf(table, start)
         /\ \A set \in SUBSET ChainOf(table, start) :
               Closed(table, start, set) => ChainOf(table, start) \subseteq set
  <1> DEFINE all == {start} \cup Range(table)
             closed == {set \in SUBSET all : Closed(table, start, set)}
  <1>1. ChainOf(table, start) = {s \in all : \A set \in closed : s \in set}
    BY DEF ChainOf, Closed
  <1>2. PICK n \in Nat : n = Len(table)
    OBVIOUS
  <1>3. DOMAIN table = 1 .. n /\ \A i \in 1 .. n : table[i] \in Links
    BY <1>2
  <1>4. Range(table) = {table[i] : i \in 1 .. n}
    BY <1>3 DEF Range
  <1>5. all \subseteq Links
    BY <1>3, <1>4
  <1>6. IsFiniteSet(all)
    <2>1. IsFiniteSet(Range(table))
      <3>1. IsFiniteSet(1 .. n)
        BY ONLY n \in Nat, IntervalIsFinite
      <3> QED
        BY ONLY <3>1, <1>4, ImageIsFinite
    <2>2. IsFiniteSet({start})
      BY FS_Singleton
    <2> QED
      BY ONLY <2>1, <2>2, FS_Union
  <1>7. IsFiniteSet(ChainOf(table, start))
    <2>1. ChainOf(table, start) \subseteq all
      BY <1>1
    <2> QED
      BY ONLY <1>6, <2>1, FS_Subset
  <1>8. start \in ChainOf(table, start)
    BY <1>1 DEF Closed
  <1>9. ASSUME NEW s \in ChainOf(table, start), s \in 0 .. Len(table) - 1
        PROVE  table[s + 1] \in ChainOf(table, start)
    <2>1. s + 1 \in 1 .. n
      BY <1>2, <1>9
    <2>2. table[s + 1] \in all
      BY <1>4, <2>1
    <2>3. \A set \in closed : table[s + 1] \in set
      BY <1>1, <1>9 DEF Closed
    <2> QED
      BY <1>1, <2>2, <2>3
  <1>10. ASSUME NEW set \in SUBSET ChainOf(table, start), Closed(table, start, set)
         PROVE  ChainOf(table, start) \subseteq set
    <2>1. set \in closed
      BY <1>1, <1>10
    <2> QED
      BY <1>1, <2>1
  <1>11. ChainOf(table, start) \subseteq Links
    BY <1>1, <1>5
  <1> HIDE DEF all, closed
  <1> QED
    BY <1>7, <1>8, <1>9, <1>10, <1>11

\* What a walk that goes on has in its list is part of the chain, each sector once, and with the
\* current one all that the sectors of the list lead to; a walk that was refused was refused
\* rightly.
OnChain(table, start, limit, walk) ==
    /\ Once(walk.list) /\ Len(walk.list) <= limit
    /\ \A i \in DOMAIN walk.list : /\ walk.list[i] < Len(table)
                                   /\ walk.list[i] \in ChainOf(table, start)
                                   /\ table[walk.list[i] + 1] \in Range(walk.list) \cup {walk.current}
    /\ start \in Range(walk.list) \cup {walk.current}
    /\ walk.current \in ChainOf(table, start)
Chaining(table, start, limit, walk) ==
    /\ walk.ok => OnChain(table, start, limit, walk)
    /\ ~walk.ok => walk.list = <<>> /\ ~SoundChain(table, start, limit)
\* By then it has come that far.
AtLink(walk, turn) == walk.ok => walk.current = Stop \/ Len(walk.list) = turn

LEMMA LinkIsTyped ==
  ASSUME NEW table \in Seq(Links), NEW limit \in Nat, NEW walk \in Chains
  PROVE  ChainTurn(table, limit, walk) \in Chains
  <1>1. PICK ok \in BOOLEAN, list \in Seq(Nat), current \in Links :
           walk = [ok |-> ok, list |-> list, current |-> current]
    BY DEF Chains
  <1>2. /\ walk.ok = ok /\ walk.list = list /\ walk.current = current
    BY <1>1
  <1>3. CASE ~ok \/ current = Stop
    BY <1>2, <1>3 DEF ChainTurn
  <1>4. CASE ok /\ current # Stop /\ ChainRefused(current, table, limit, list)
    <2>1. ChainTurn(table, limit, walk) = [ok |-> FALSE, list |-> <<>>, current |-> current]
      BY <1>1, <1>2, <1>4 DEF ChainTurn
    <2>2. <<>> \in Seq(Nat)
      OBVIOUS
    <2> QED
      BY <2>1, <2>2 DEF Chains
  <1>5. CASE ok /\ current # Stop /\ ~ChainRefused(current, table, limit, list)
    <2>1. current \in Nat
      BY <1>5 DEF Links
    <2>2. current < Len(table)
      BY <1>5, <2>1 DEF ChainRefused
    <2>3. current + 1 \in 1 .. Len(table)
      BY <2>1, <2>2
    <2>4. PICK next \in Links : next = table[current + 1]
      BY <2>3
    <2>5. PICK more \in Seq(Nat) : more = Append(list, current)
      <3>1. list \in Seq(Nat)
        OBVIOUS
      <3>2. Append(list, current) \in Seq(Nat)
        BY ONLY <2>1, <3>1
      <3> QED
        BY <3>2
    <2>6. ChainTurn(table, limit, walk) = [ok |-> ok, list |-> more, current |-> next]
      BY <1>1, <1>2, <1>5, <2>4, <2>5 DEF ChainTurn
    <2> QED
      BY <2>6 DEF Chains
  <1> QED
    BY <1>3, <1>4, <1>5

Appended(A, list, x, more) ==
    /\ more \in Seq(A) /\ Len(more) = Len(list) + 1 /\ more[Len(list) + 1] = x
    /\ DOMAIN list = 1 .. Len(list) /\ DOMAIN more = 1 .. Len(list) + 1
    /\ \A i \in 1 .. Len(list) : more[i] = list[i]
    /\ Range(more) = Range(list) \cup {x}
    /\ Once(list) /\ x \notin Range(list) => Once(more)

LEMMA AppendHas ==
  ASSUME NEW A, NEW list \in Seq(A), NEW x \in A
  PROVE  Appended(A, list, x, Append(list, x))
  <1> DEFINE more == Append(list, x)
  <1>1. PICK n \in Nat : n = Len(list)
    OBVIOUS
  <1>2. /\ more \in Seq(A) /\ Len(more) = n + 1 /\ more[n + 1] = x
        /\ DOMAIN list = 1 .. n /\ DOMAIN more = 1 .. n + 1
        /\ \A i \in 1 .. n : more[i] = list[i]
    BY <1>1
  <1> HIDE DEF more
  <1>3. Range(more) = Range(list) \cup {x}
    <2>1. \A i \in 1 .. n + 1 : i = n + 1 \/ i \in 1 .. n
      OBVIOUS
    <2>2. 1 .. n \subseteq 1 .. n + 1 /\ n + 1 \in 1 .. n + 1
      OBVIOUS
    <2> QED
      BY ONLY <1>2, <2>1, <2>2 DEF Range
  <1>4. ASSUME Once(list), x \notin Range(list) PROVE Once(more)
    <2> SUFFICES ASSUME NEW i \in 1 .. n + 1, NEW j \in 1 .. n + 1, more[i] = more[j] PROVE i = j
      BY <1>2 DEF Once
    <2>1. \A k \in 1 .. n : more[k] = list[k] /\ list[k] # x
      BY <1>2, <1>4 DEF Range
    <2>2. CASE i \in 1 .. n /\ j \in 1 .. n
      BY <1>2, <1>4, <2>1, <2>2 DEF Once
    <2>3. CASE i = n + 1 \/ j = n + 1
      BY <1>2, <2>1, <2>3
    <2> QED
      BY <2>2, <2>3
  <1> QED
    BY <1>1, <1>2, <1>3, <1>4 DEF Appended, more

\* A list with each element once has as many as it has elements.
LEMMA OnceIsCounted ==
  ASSUME NEW A, NEW list \in Seq(A), Once(list)
  PROVE  IsFiniteSet(Range(list)) /\ Cardinality(Range(list)) = Len(list)
  <1>1. PICK n \in Nat : n = Len(list) /\ DOMAIN list = 1 .. n
    OBVIOUS
  <1>2. IsFiniteSet(1 .. n)
    BY ONLY n \in Nat, IntervalIsFinite
  <1>3. Cardinality(1 .. n) = n
    <2>1. 1 \in Int /\ n \in Int /\ (1 > n => n = 0) /\ n - 1 + 1 = n
      OBVIOUS
    <2>2. Cardinality(1 .. n) = IF 1 > n THEN 0 ELSE n - 1 + 1
      BY ONLY <2>1, FS_Interval
    <2> QED
      BY <2>1, <2>2
  <1>4. list \in Bijection(1 .. n, Range(list))
    <2>1. list \in [1 .. n -> Range(list)]
      BY <1>1 DEF Range
    <2>2. \A i, j \in 1 .. n : list[i] = list[j] => i = j
      BY <1>1 DEF Once
    <2>3. \A x \in Range(list) : \E i \in 1 .. n : list[i] = x
      BY <1>1 DEF Range
    <2> QED
      BY ONLY <2>1, <2>2, <2>3 DEF Bijection, Injection, IsInjective, Surjection
  <1>5. Cardinality(1 .. n) = Cardinality(Range(list)) /\ IsFiniteSet(Range(list))
    <2>1. ExistsBijection(1 .. n, Range(list))
      BY ONLY <1>4 DEF ExistsBijection
    <2> QED
      BY ONLY <1>2, <2>1, FS_Bijection
  <1> QED
    BY <1>1, <1>3, <1>5

\* What ends the parser is a chain that is not sound.
LEMMA RefusedIsUnsound ==
  ASSUME NEW table \in Seq(Links), NEW start \in Links, NEW limit \in Nat,
         NEW walk \in Chains, OnChain(table, start, limit, walk), walk.current # Stop,
         ChainRefused(walk.current, table, limit, walk.list)
  PROVE  ~SoundChain(table, start, limit)
  <1>1. PICK list \in Seq(Nat), current \in Links : list = walk.list /\ current = walk.current
    BY DEF Chains
  <1>2. PICK m \in Nat : m = Len(table)
    OBVIOUS
  <1>3. PICK n \in Nat : n = Len(list) /\ DOMAIN list = 1 .. n
    OBVIOUS
  <1>4. current \in Nat /\ Stop \notin Nat
    BY <1>1 DEF Links, Stop
  <1>5. PICK chain : chain = ChainOf(table, start)
    OBVIOUS
  <1>6. /\ chain \subseteq Links /\ IsFiniteSet(chain)
        /\ \A set \in SUBSET chain : Closed(table, start, set) => chain \subseteq set
    BY <1>5, ChainOfIs
  <1>7. /\ \A i \in 1 .. n : /\ list[i] \in Nat /\ list[i] < m /\ list[i] \in chain
                             /\ table[list[i] + 1] \in Range(list) \cup {current}
        /\ start \in Range(list) \cup {current} /\ current \in chain /\ Once(list)
    BY <1>1, <1>2, <1>3, <1>5 DEF OnChain
  <1>8. Range(list) = {list[i] : i \in 1 .. n} /\ Range(list) \subseteq Nat
    BY <1>3 DEF Range
  <1>9. CASE current \in Range(list)
    <2>1. Range(list) \in SUBSET chain
      BY <1>7, <1>8
    <2>2. Closed(table, start, Range(list))
      BY <1>7, <1>8, <1>9 DEF Closed
    <2>3. Stop \notin chain
      BY <1>4, <1>6, <1>8, <2>1, <2>2
    <2> QED
      BY <1>5, <2>3 DEF SoundChain
  <1>10. CASE current \notin Range(list) /\ current >= m
    <2>1. ~(current < m)
      BY <1>4, <1>10
    <2> QED
      BY <1>2, <1>5, <1>7, <2>1 DEF SoundChain
  <1>11. CASE current \notin Range(list) /\ n >= limit
    <2> SUFFICES ASSUME Stop \in chain, Cardinality(chain) <= limit + 1 PROVE FALSE
      BY <1>5 DEF SoundChain
    <2>1. IsFiniteSet(Range(list)) /\ Cardinality(Range(list)) = n
      BY <1>3, <1>7, OnceIsCounted
    <2>2. /\ IsFiniteSet(Range(list) \cup {current})
          /\ Cardinality(Range(list) \cup {current}) = n + 1
      <3>1. /\ IsFiniteSet(Range(list) \cup {current})
            /\ Cardinality(Range(list) \cup {current}) = Cardinality(Range(list)) + 1
        BY ONLY <2>1, <1>11, FS_AddElement
      <3> QED
        BY <2>1, <3>1
    <2>3. Stop \notin Range(list) \cup {current}
      BY <1>4, <1>8
    <2> DEFINE most == (Range(list) \cup {current}) \cup {Stop}
    <2>4. Cardinality(most) = n + 2
      <3>1. Cardinality(most) = Cardinality(Range(list) \cup {current}) + 1
        BY ONLY <2>2, <2>3, FS_AddElement
      <3> QED
        BY <2>2, <3>1
    <2>5. most \subseteq chain
      BY <1>7, <1>8
    <2> HIDE DEF most
    <2>6. Cardinality(most) <= Cardinality(chain)
      BY ONLY <1>6, <2>5, FS_Subset
    <2>7. Cardinality(chain) \in Nat
      BY ONLY <1>6, FS_CardinalityType
    <2> QED
      BY <1>11, <2>4, <2>6, <2>7
  <1> QED
    BY <1>1, <1>2, <1>3, <1>9, <1>10, <1>11 DEF ChainRefused

LEMMA LinkIsFollowed ==
  ASSUME NEW table \in Seq(Links), NEW start \in Links, NEW limit \in Nat, NEW turn \in Nat,
         NEW walk \in Chains, Chaining(table, start, limit, walk), AtLink(walk, turn),
         NEW next, next = ChainTurn(table, limit, walk)
  PROVE  Chaining(table, start, limit, next) /\ AtLink(next, turn + 1)
  <1>1. PICK ok \in BOOLEAN, list \in Seq(Nat), current \in Links :
           walk = [ok |-> ok, list |-> list, current |-> current]
    BY DEF Chains
  <1>2. walk.ok = ok /\ walk.list = list /\ walk.current = current
    BY <1>1
  <1>3. CASE ~ok \/ current = Stop
    <2>1. next = walk
      BY <1>2, <1>3 DEF ChainTurn
    <2> QED
      BY <1>2, <1>3, <2>1 DEF AtLink
  <1>4. CASE ok /\ current # Stop /\ ChainRefused(current, table, limit, list)
    <2>1. next = [ok |-> FALSE, list |-> <<>>, current |-> current]
      BY <1>1, <1>2, <1>4 DEF ChainTurn
    <2>2. OnChain(table, start, limit, walk)
      BY <1>2, <1>4 DEF Chaining
    <2>3. ~SoundChain(table, start, limit)
      BY <1>2, <1>4, <2>2, RefusedIsUnsound
    <2>4. next.ok = FALSE /\ next.list = <<>>
      BY <2>1
    <2> QED
      BY ONLY <2>3, <2>4 DEF Chaining, AtLink
  <1>5. CASE ok /\ current # Stop /\ ~ChainRefused(current, table, limit, list)
    <2>1. current \in Nat
      BY <1>5 DEF Links
    <2>2. PICK m \in Nat : m = Len(table)
      OBVIOUS
    <2>3. PICK n \in Nat : n = Len(list) /\ DOMAIN list = 1 .. n
      OBVIOUS
    <2>4. current \notin Range(list) /\ current < m /\ n < limit
      BY <1>5, <2>1, <2>2, <2>3 DEF ChainRefused
    <2>5. current + 1 \in 1 .. m
      BY <2>1, <2>4
    <2>6. PICK after \in Links : after = table[current + 1]
      BY <2>2, <2>5
    <2>7. PICK more : more = Append(list, current)
      OBVIOUS
    <2>8. next = [ok |-> ok, list |-> more, current |-> after]
      BY <1>1, <1>2, <1>5, <2>6, <2>7 DEF ChainTurn
    <2>9. next.ok = ok /\ next.list = more /\ next.current = after
      BY <2>8
    <2>10. OnChain(table, start, limit, walk) /\ n = turn
      BY <1>2, <1>5, <2>3 DEF Chaining, AtLink
    <2>11. PICK chain : chain = ChainOf(table, start)
      OBVIOUS
    <2>12. /\ Once(list)
           /\ \A i \in 1 .. n : /\ list[i] < m /\ list[i] \in chain
                                /\ table[list[i] + 1] \in Range(list) \cup {current}
           /\ start \in Range(list) \cup {current} /\ current \in chain
      BY <1>2, <2>2, <2>3, <2>10, <2>11 DEF OnChain
    <2>13. list \in Seq(Nat)
      OBVIOUS
    <2>14. /\ more \in Seq(Nat) /\ Len(more) = n + 1 /\ more[n + 1] = current
           /\ DOMAIN more = 1 .. n + 1
           /\ \A i \in 1 .. n : more[i] = list[i]
           /\ Range(more) = Range(list) \cup {current} /\ Once(more)
      <3>1. /\ more \in Seq(Nat) /\ Len(more) = Len(list) + 1 /\ more[Len(list) + 1] = current
            /\ DOMAIN more = 1 .. Len(list) + 1
            /\ \A i \in 1 .. Len(list) : more[i] = list[i]
            /\ Range(more) = Range(list) \cup {current}
            /\ Once(list) /\ current \notin Range(list) => Once(more)
        <4>1. Appended(Nat, list, current, Append(list, current))
          BY ONLY <2>1, <2>13, AppendHas
        <4> QED
          BY ONLY <2>7, <4>1 DEF Appended
      <3>2. Once(list) /\ current \notin Range(list)
        BY ONLY <2>4, <2>12
      <3>3. n = Len(list)
        BY ONLY <2>3
      <3> QED
        BY ONLY <3>1, <3>2, <3>3
    <2>15. after \in chain
      <3>1. current \in 0 .. m - 1
        BY <2>1, <2>4
      <3> QED
        BY <2>2, <2>6, <2>11, <2>12, <3>1, ChainOfIs
    <2>16. ASSUME NEW i \in 1 .. n + 1
           PROVE  /\ more[i] < m /\ more[i] \in chain
                  /\ table[more[i] + 1] \in Range(more) \cup {after}
      <3>1. CASE i = n + 1
        BY <2>4, <2>6, <2>12, <2>14, <3>1
      <3>2. CASE i \in 1 .. n
        BY <2>12, <2>14, <3>2
      <3> QED
        BY <3>1, <3>2
    <2>17. n + 1 <= limit
      BY <2>4
    <2>18. OnChain(table, start, limit, next)
      <3>1. \A i \in DOMAIN more : /\ more[i] < Len(table) /\ more[i] \in ChainOf(table, start)
                                   /\ table[more[i] + 1] \in Range(more) \cup {after}
        BY ONLY <2>2, <2>11, <2>14, <2>16
      <3>2. start \in Range(more) \cup {after} /\ after \in ChainOf(table, start)
        BY ONLY <2>11, <2>12, <2>14, <2>15
      <3>3. Once(more) /\ Len(more) <= limit
        BY ONLY <2>14, <2>17
      <3> QED
        BY ONLY <2>9, <3>1, <3>2, <3>3 DEF OnChain
    <2> QED
      BY ONLY <1>5, <2>9, <2>10, <2>14, <2>18 DEF Chaining, AtLink
  <1> QED
    BY <1>3, <1>4, <1>5

FollowsLinks(table, start, limit, walk) ==
    /\ walk \in [0 .. limit + 1 -> Chains] /\ walk[0] = FirstLink(start)
    /\ \A turn \in 1 .. limit + 1 : walk[turn] = ChainTurn(table, limit, walk[turn - 1])

LEMMA ChainWalkIs ==
  ASSUME NEW table \in Seq(Links), NEW start \in Links, NEW limit \in Nat
  PROVE  \E walk : /\ FollowsLinks(table, start, limit, walk)
                   /\ AllocationChain(start, table, limit) = walk[limit + 1]
  <1> DEFINE A == Chains
             step == [walk \in A |-> ChainTurn(table, limit, walk)]
             walk == CHOOSE w : w = [turn \in 0 .. limit + 1 |->
                        IF turn = 0 THEN FirstLink(start) ELSE ChainTurn(table, limit, w[turn - 1])]
  <1>1. AllocationChain(start, table, limit) = walk[limit + 1]
    BY DEF AllocationChain, FirstLink
  <1>2. PICK n \in Nat : n = limit + 1
    OBVIOUS
  <1>3. FirstLink(start) \in A
    <2>1. <<>> \in Seq(Nat)
      OBVIOUS
    <2> QED
      BY <2>1 DEF FirstLink, Chains
  <1>4. step \in [A -> A]
    BY LinkIsTyped
  <1>5. PICK some : Iterates(A, FirstLink(start), step, n, some)
    <2> HIDE DEF step, A
    <2> QED
      BY <1>3, <1>4, IterationExists
  <1>6. some = [turn \in 0 .. n |-> IF turn = 0 THEN FirstLink(start)
                                    ELSE ChainTurn(table, limit, some[turn - 1])]
    <2>1. ASSUME NEW turn \in 0 .. n, turn # 0
          PROVE  step[some[turn - 1]] = ChainTurn(table, limit, some[turn - 1])
      <3>1. some[turn - 1] \in A
        <4> HIDE DEF A, step
        <4>1. some \in [0 .. n -> A]
          BY <1>5 DEF Iterates
        <4>2. turn - 1 \in 0 .. n
          BY <2>1
        <4> QED
          BY <4>1, <4>2
      <3> QED
        BY <3>1
    <2> HIDE DEF step
    <2> QED
      BY <1>5, <2>1 DEF Iterates
  <1>7. walk = [turn \in 0 .. n |-> IF turn = 0 THEN FirstLink(start)
                                    ELSE ChainTurn(table, limit, walk[turn - 1])]
    BY <1>2, <1>6
  <1> HIDE DEF walk
  <1> DEFINE S == {k \in Nat : walk[k] \in A}
  <1>8. \A k \in 1 .. n : walk[k] = ChainTurn(table, limit, walk[k - 1])
    BY <1>7
  <1>9. walk[0] = FirstLink(start)
    BY <1>7
  <1>10. \A k \in 0 .. n : walk[k] \in A
    <2> SUFFICES ASSUME NEW k \in 0 .. n PROVE walk[k] \in A
      OBVIOUS
    <2>1. ASSUME NEW i \in 1 .. k, i - 1 \in S PROVE i \in S
      <3>1. walk[i - 1] \in Chains /\ walk[i] = ChainTurn(table, limit, walk[i - 1])
        BY <1>8, <2>1
      <3>2. walk[i] \in Chains
        BY <3>1, LinkIsTyped
      <3> QED
        BY <3>2
    <2>2. 0 \in S /\ S \in SUBSET Nat /\ k \in Nat
      BY <1>3, <1>9
    <2> HIDE DEF S
    <2>3. k \in S
      BY <2>1, <2>2, InductionUpTo
    <2> QED
      BY <2>3 DEF S
  <1>11. walk \in [0 .. n -> A]
    <2>1. DOMAIN walk = 0 .. n /\ walk = [k \in 0 .. n |-> walk[k]]
      BY <1>7
    <2> QED
      BY <1>10, <2>1
  <1>12. FollowsLinks(table, start, limit, walk)
    BY <1>2, <1>8, <1>9, <1>11 DEF FollowsLinks
  <1> QED
    BY <1>1, <1>12

\* The parser's chain is the chain of the table if that is sound, and there is none otherwise.
LEMMA ChainIs ==
  ASSUME NEW table \in Seq(Links), NEW start \in Links, NEW limit \in Nat,
         NEW chain, chain = AllocationChain(start, table, limit)
  PROVE  /\ chain.ok \in BOOLEAN /\ chain.list \in Seq(Nat)
         /\ chain.ok <=> SoundChain(table, start, limit)
         /\ ~chain.ok => chain.list = <<>>
         /\ chain.ok => /\ Once(chain.list) /\ Len(chain.list) <= limit
                        /\ Range(chain.list) = ChainOf(table, start) \ {Stop}
                        /\ Len(chain.list) = Cardinality(ChainOf(table, start) \ {Stop})
  <1>1. PICK walk : FollowsLinks(table, start, limit, walk) /\ chain = walk[limit + 1]
    BY ChainWalkIs
  <1>2. PICK n \in Nat : n = limit + 1
    OBVIOUS
  <1>3. /\ walk \in [0 .. n -> Chains] /\ walk[0] = FirstLink(start)
        /\ \A turn \in 1 .. n : walk[turn] = ChainTurn(table, limit, walk[turn - 1])
    BY <1>1, <1>2 DEF FollowsLinks
  <1> DEFINE S == {k \in 0 .. n : Chaining(table, start, limit, walk[k]) /\ AtLink(walk[k], k)}
  <1>4. 0 \in S
    <2>1. PICK first : first = FirstLink(start)
      OBVIOUS
    <2>2. first.ok = TRUE /\ first.list = <<>> /\ first.current = start
      BY <2>1 DEF FirstLink
    <2>3. start \in ChainOf(table, start)
      BY ChainOfIs
    <2>4. DOMAIN first.list = {} /\ Len(first.list) = 0
      BY <2>2
    <2>5. Once(first.list) /\ 0 <= limit
      BY <2>4 DEF Once
    <2>6. OnChain(table, start, limit, first)
      BY ONLY <2>2, <2>3, <2>4, <2>5 DEF OnChain
    <2>7. Chaining(table, start, limit, first) /\ AtLink(first, 0)
      BY ONLY <2>2, <2>4, <2>6 DEF Chaining, AtLink
    <2> QED
      BY <1>3, <2>1, <2>7
  <1>5. ASSUME NEW k \in 1 .. n, k - 1 \in S PROVE k \in S
    <2>1. PICK j \in Nat : j = k - 1
      OBVIOUS
    <2>2. PICK before \in Chains : before = walk[k - 1]
      BY <1>3
    <2>3. Chaining(table, start, limit, before) /\ AtLink(before, j)
      BY <1>5, <2>1, <2>2
    <2>4. walk[k] = ChainTurn(table, limit, before)
      BY <1>3, <2>2
    <2>5. Chaining(table, start, limit, walk[k]) /\ AtLink(walk[k], j + 1)
      BY ONLY table \in Seq(Links), start \in Links, limit \in Nat, <2>1, <2>2, <2>3, <2>4, LinkIsFollowed
    <2>6. j + 1 = k /\ k \in 0 .. n
      BY <2>1
    <2> QED
      BY <2>5, <2>6
  <1>6. S \in SUBSET Nat
    OBVIOUS
  <1> HIDE DEF S
  <1>7. n \in S
    BY <1>4, <1>5, <1>6, InductionUpTo
  <1>8. PICK last \in Chains : last = walk[n]
    BY <1>3
  <1>9. Chaining(table, start, limit, last) /\ AtLink(last, n) /\ chain = last
    BY <1>1, <1>2, <1>7, <1>8 DEF S
  <1>10. PICK ok \in BOOLEAN, list \in Seq(Nat), current \in Links :
           ok = last.ok /\ list = last.list /\ current = last.current
    BY DEF Chains
  <1>11. CASE ~ok
    BY <1>9, <1>10, <1>11 DEF Chaining
  <1>12. CASE ok
    <2>1. PICK all : all = ChainOf(table, start)
      OBVIOUS
    <2>2. /\ Once(list) /\ Len(list) <= limit
          /\ \A i \in DOMAIN list : /\ list[i] < Len(table) /\ list[i] \in all
                                    /\ table[list[i] + 1] \in Range(list) \cup {current}
          /\ start \in Range(list) \cup {current} /\ current \in all
      BY <1>9, <1>10, <1>12, <2>1 DEF Chaining, OnChain
    <2>3. current = Stop
      <3>1. current = Stop \/ Len(list) = n
        BY <1>9, <1>10, <1>12 DEF AtLink
      <3> QED
        BY <1>2, <2>2, <3>1
    <2>4. PICK m \in Nat : m = Len(table)
      OBVIOUS
    <2>5. Range(list) \subseteq Nat /\ Stop \notin Nat
      BY DEF Range, Stop
    <2>6. Range(list) \cup {Stop} \in SUBSET all
      BY <2>2, <2>3 DEF Range
    <2>7. Closed(table, start, Range(list) \cup {Stop})
      <3>1. Stop \notin 0 .. m - 1
        BY DEF Stop
      <3>2. \A s \in Range(list) : table[s + 1] \in Range(list) \cup {Stop}
        BY <2>2, <2>3 DEF Range
      <3> QED
        BY <2>2, <2>3, <2>4, <3>1, <3>2 DEF Closed
    <2>8. all = Range(list) \cup {Stop}
      BY <2>1, <2>6, <2>7, ChainOfIs
    <2>9. Range(list) = all \ {Stop}
      BY <2>5, <2>8
    <2>10. IsFiniteSet(Range(list)) /\ Cardinality(Range(list)) = Len(list)
      BY ONLY list \in Seq(Nat), <2>2, OnceIsCounted
    <2>11. Cardinality(all) = Len(list) + 1
      <3>1. Stop \notin Range(list)
        BY <2>5
      <3>2. Cardinality(Range(list) \cup {Stop}) = Cardinality(Range(list)) + 1
        BY ONLY <2>10, <3>1, FS_AddElement
      <3> QED
        BY <2>8, <2>10, <3>2
    <2>12. \A s \in all : s < m
      <3>1. Stop < m
        BY DEF Stop
      <3>2. \A s \in Range(list) : s < m
        BY <2>2, <2>4 DEF Range
      <3> QED
        BY <2>8, <3>1, <3>2
    <2>13. SoundChain(table, start, limit)
      BY <2>1, <2>2, <2>4, <2>8, <2>11, <2>12 DEF SoundChain
    <2> QED
      BY <1>9, <1>10, <1>12, <2>1, <2>2, <2>9, <2>10, <2>13
  <1> QED
    BY <1>11, <1>12

(***************************************************************************)
(* The bytes of a chain.                                                   *)
(***************************************************************************)

Joins(A, parts, n, all) ==
    /\ all \in [0 .. n -> Seq(A)] /\ all[0] = <<>>
    /\ \A k \in 1 .. n : all[k] = all[k - 1] \o parts[k]
JoinsInto(A, parts, joined) ==
    \E all : Joins(A, parts, Len(parts), all) /\ joined = all[Len(parts)]

LEMMA JoinedIs ==
  ASSUME NEW A, NEW parts \in Seq(Seq(A))
  PROVE  JoinsInto(A, parts, Joined(parts))
  <1>1. PICK n \in Nat : n = Len(parts) /\ DOMAIN parts = 1 .. n
    OBVIOUS
  <1> DEFINE B == Seq(A)
             step == [pair \in B \X (1 .. n) |-> pair[1] \o parts[pair[2]]]
             fold == CHOOSE f : f = [s \in SUBSET (1 .. n) |->
                        IF s = {} THEN <<>> ELSE f[s \ {Highest(s)}] \o parts[Highest(s)]]
  <1>2. \A i \in 1 .. n : parts[i] \in B
    BY <1>1
  <1>3. Joined(parts) = fold[1 .. n]
    BY <1>1 DEF Joined, FoldLeft, MapThenFoldSet, Max, Highest
  <1>4. step \in [B \X (1 .. n) -> B]
    BY <1>2
  <1>5. <<>> \in B
    OBVIOUS
  <1>6. PICK some : Folds(B, <<>>, step, n, some)
    <2> HIDE DEF B, step
    <2> QED
      BY <1>4, <1>5, FoldExists
  <1>7. some = [s \in SUBSET (1 .. n) |->
                  IF s = {} THEN <<>> ELSE some[s \ {Highest(s)}] \o parts[Highest(s)]]
    <2> HIDE DEF B
    <2>1. ASSUME NEW s \in SUBSET (1 .. n), s # {}
          PROVE  some[s] = some[s \ {Highest(s)}] \o parts[Highest(s)]
      <3>1. Highest(s) \in s
        BY <2>1, HighestIsOne
      <3>2. some[s] = step[<<some[s \ {Highest(s)}], Highest(s)>>]
        BY <1>6, <2>1 DEF Folds, FoldAt
      <3>3. some[s \ {Highest(s)}] \in B /\ Highest(s) \in 1 .. n
        <4> HIDE DEF step
        <4> QED
          BY <1>6, <3>1 DEF Folds
      <3> QED
        BY <3>2, <3>3
    <2> HIDE DEF step
    <2>2. some[{}] = <<>>
      BY <1>6 DEF Folds, FoldAt
    <2> QED
      BY <1>6, <2>1, <2>2 DEF Folds
  <1>8. fold = [s \in SUBSET (1 .. n) |->
                  IF s = {} THEN <<>> ELSE fold[s \ {Highest(s)}] \o parts[Highest(s)]]
    BY <1>7
  <1> HIDE DEF fold
  <1> DEFINE all == [k \in 0 .. n |-> fold[1 .. k]]
  <1>9. DOMAIN all = 0 .. n /\ all = [k \in 0 .. n |-> all[k]] /\ \A k \in 0 .. n : all[k] = fold[1 .. k]
    OBVIOUS
  <1> HIDE DEF all, step, B
  <1>10. all[0] = <<>>
    <2>1. 1 .. 0 = {} /\ {} \in SUBSET (1 .. n) /\ 0 \in 0 .. n
      OBVIOUS
    <2>2. fold[{}] = <<>>
      BY <1>8, <2>1
    <2> QED
      BY <1>9, <2>1, <2>2
  <1>11. ASSUME NEW k \in 1 .. n PROVE all[k] = all[k - 1] \o parts[k]
    <2>1. /\ 1 .. k \in SUBSET (1 .. n) /\ 1 .. k # {} /\ Highest(1 .. k) = k
          /\ (1 .. k) \ {k} = 1 .. (k - 1)
      BY UpTo
    <2>2. fold[1 .. k] = fold[1 .. (k - 1)] \o parts[k]
      BY <1>8, <2>1
    <2>3. k \in 0 .. n /\ k - 1 \in 0 .. n
      OBVIOUS
    <2> QED
      BY <1>9, <2>2, <2>3
  <1> DEFINE S == {k \in 0 .. n : all[k] \in B}
  <1>12. 0 \in S
    BY <1>5, <1>10
  <1>13. ASSUME NEW k \in 1 .. n, k - 1 \in S PROVE k \in S
    <2>1. PICK before \in B : before = all[k - 1]
      BY <1>13
    <2>2. PICK part \in B : part = parts[k]
      BY <1>2
    <2>3. before \o part \in B
      <3>1. before \in Seq(A) /\ part \in Seq(A)
        BY DEF B
      <3> QED
        BY ONLY <3>1 DEF B
    <2>4. all[k] = before \o part
      BY <1>11, <2>1, <2>2
    <2>5. k \in 0 .. n
      OBVIOUS
    <2> QED
      BY ONLY <2>3, <2>4, <2>5
  <1>14. S \in SUBSET Nat
    OBVIOUS
  <1>15. ASSUME NEW m \in 0 .. n PROVE m \in S
    <2>1. \A k \in 1 .. m : k - 1 \in S => k \in S
      BY <1>13
    <2>2. m \in Nat
      OBVIOUS
    <2> HIDE DEF S
    <2> QED
      BY <1>12, <1>14, <2>1, <2>2, InductionUpTo
  <1>16. all \in [0 .. n -> Seq(A)]
    BY <1>9, <1>15 DEF B
  <1>17. Joined(parts) = all[n]
    BY <1>3, <1>9
  <1>18. Joins(A, parts, n, all)
    BY <1>10, <1>11, <1>16 DEF Joins
  <1> QED
    BY <1>1, <1>17, <1>18 DEF JoinsInto

LEMMA JoinedIsTyped ==
  ASSUME NEW A, NEW parts \in Seq(Seq(A))
  PROVE  Joined(parts) \in Seq(A)
  <1>1. PICK n \in Nat : n = Len(parts)
    OBVIOUS
  <1>2. JoinsInto(A, parts, Joined(parts))
    BY JoinedIs
  <1>3. PICK all : Joins(A, parts, n, all) /\ Joined(parts) = all[n]
    BY <1>1, <1>2 DEF JoinsInto
  <1> QED
    BY <1>3 DEF Joins

Concatenated(A, a, b, c) ==
    /\ c \in Seq(A) /\ Len(c) = Len(a) + Len(b) /\ Range(c) = Range(a) \cup Range(b)
    /\ Once(a) /\ Once(b) /\ Range(a) \cap Range(b) = {} => Once(c)

LEMMA ConcatenationIs ==
  ASSUME NEW A, NEW a \in Seq(A), NEW b \in Seq(A)
  PROVE  Concatenated(A, a, b, a \o b)
  <1>1. PICK n \in Nat : n = Len(a) /\ DOMAIN a = 1 .. n
    OBVIOUS
  <1>2. PICK m \in Nat : m = Len(b) /\ DOMAIN b = 1 .. m
    OBVIOUS
  <1>3. PICK c \in Seq(A) : c = a \o b
    <2>1. a \o b \in Seq(A)
      BY ONLY a \in Seq(A), b \in Seq(A)
    <2> QED
      BY <2>1
  <1>4. Len(c) = n + m /\ DOMAIN c = 1 .. n + m
    BY <1>1, <1>2, <1>3
  <1>5. \A i \in 1 .. n : c[i] = a[i] /\ i \in 1 .. n + m
    BY <1>1, <1>2, <1>3
  <1>6. \A i \in 1 .. m : c[n + i] = b[i] /\ n + i \in 1 .. n + m
    BY <1>1, <1>2, <1>3
  <1>7. \A i \in 1 .. n + m : i \in 1 .. n \/ \E j \in 1 .. m : i = n + j
    <2> TAKE i \in 1 .. n + m
    <2> SUFFICES ASSUME i \notin 1 .. n PROVE \E j \in 1 .. m : i = n + j
      OBVIOUS
    <2>1. i - n \in 1 .. m /\ i = n + (i - n)
      BY ONLY n \in Nat, m \in Nat, i \in 1 .. n + m, i \notin 1 .. n
    <2> QED
      BY ONLY <2>1
  <1>8. Range(c) = Range(a) \cup Range(b)
    <2>1. ASSUME NEW x \in Range(c) PROVE x \in Range(a) \cup Range(b)
      <3>1. PICK i \in 1 .. n + m : x = c[i]
        BY <1>4, <2>1 DEF Range
      <3>2. CASE i \in 1 .. n
        BY ONLY <1>1, <1>5, <3>1, <3>2 DEF Range
      <3>3. CASE \E j \in 1 .. m : i = n + j
        BY ONLY <1>2, <1>6, <3>1, <3>3 DEF Range
      <3> QED
        BY ONLY <1>7, <3>1, <3>2, <3>3
    <2>2. ASSUME NEW x \in Range(a) PROVE x \in Range(c)
      BY ONLY <1>1, <1>4, <1>5, <2>2 DEF Range
    <2>3. ASSUME NEW x \in Range(b) PROVE x \in Range(c)
      BY ONLY <1>2, <1>4, <1>6, <2>3 DEF Range
    <2> QED
      BY ONLY <2>1, <2>2, <2>3
  <1>9. ASSUME Once(a), Once(b), Range(a) \cap Range(b) = {} PROVE Once(c)
    <2> SUFFICES ASSUME NEW i \in 1 .. n + m, NEW j \in 1 .. n + m, c[i] = c[j] PROVE i = j
      BY <1>4 DEF Once
    <2>1. \A k \in 1 .. n, l \in 1 .. m : c[k] # c[n + l]
      <3> TAKE k \in 1 .. n, l \in 1 .. m
      <3>1. c[k] \in Range(a)
        BY ONLY <1>1, <1>5, k \in 1 .. n DEF Range
      <3>2. c[n + l] \in Range(b)
        BY ONLY <1>2, <1>6, l \in 1 .. m DEF Range
      <3> QED
        BY ONLY <1>9, <3>1, <3>2
    <2>2. CASE i \in 1 .. n /\ j \in 1 .. n
      BY <1>1, <1>5, <1>9, <2>2 DEF Once
    <2>3. CASE \E k, l \in 1 .. m : i = n + k /\ j = n + l
      <3>1. PICK k \in 1 .. m, l \in 1 .. m : i = n + k /\ j = n + l
        BY <2>3
      <3>2. b[k] = b[l]
        BY <1>6, <3>1
      <3> QED
        BY <1>2, <1>9, <3>1, <3>2 DEF Once
    <2> QED
      BY <1>7, <2>1, <2>2, <2>3
  <1> QED
    BY <1>1, <1>2, <1>3, <1>4, <1>8, <1>9 DEF Concatenated

Bytes == Nat \X Nat
SectorBytes(s) == [k \in 1 .. FullSector |-> <<s, k>>]
LEMMA SectorBytesAre ==
  ASSUME NEW s \in Nat
  PROVE  /\ SectorBytes(s) \in Seq(Bytes) /\ Len(SectorBytes(s)) = FullSector
         /\ Once(SectorBytes(s)) /\ \A b \in Range(SectorBytes(s)) : b[1] = s
  <1>1. PICK full \in Nat : full = FullSector
    BY CompoundAssumption
  <1>2. PICK bytes : bytes = [k \in 1 .. full |-> <<s, k>>]
    OBVIOUS
  <1>3. /\ bytes \in Seq(Bytes) /\ Len(bytes) = full /\ DOMAIN bytes = 1 .. full
    <2>1. \A k \in 1 .. full : <<s, k>> \in Bytes
      BY DEF Bytes
    <2> QED
      BY <1>2, <2>1
  <1>4. \A k \in 1 .. full : bytes[k] = <<s, k>>
    BY <1>2
  <1>5. Once(bytes)
    BY <1>3, <1>4 DEF Once
  <1>6. \A b \in Range(bytes) : b[1] = s
    BY <1>3, <1>4 DEF Range
  <1>7. SectorBytes(s) = bytes
    BY <1>1, <1>2 DEF SectorBytes
  <1> QED
    BY <1>1, <1>3, <1>5, <1>6, <1>7

LEMMA WholeIs ==
  ASSUME NEW list \in Seq(Nat), Once(list)
  PROVE  /\ Whole(list) \in Seq(Bytes) /\ Once(Whole(list))
         /\ Len(Whole(list)) = FullSector * Len(list)
  <1>1. PICK n \in Nat : n = Len(list) /\ DOMAIN list = 1 .. n
    OBVIOUS
  <1>2. PICK full \in Nat : full = FullSector
    BY CompoundAssumption
  <1> DEFINE parts == [i \in DOMAIN list |-> SectorBytes(list[i])]
  <1>3. Whole(list) = Joined(parts)
    BY DEF Whole, SectorBytes
  <1>4. \A i \in 1 .. n : /\ list[i] \in Nat /\ parts[i] = SectorBytes(list[i])
                          /\ parts[i] \in Seq(Bytes) /\ Len(parts[i]) = full
                          /\ Once(parts[i]) /\ \A b \in Range(parts[i]) : b[1] = list[i]
    BY <1>1, <1>2, SectorBytesAre
  <1>5. parts \in Seq(Seq(Bytes)) /\ Len(parts) = n
    BY <1>1, <1>4
  <1> HIDE DEF parts
  <1>6. PICK all : Joins(Bytes, parts, n, all) /\ Whole(list) = all[n]
    <2>1. JoinsInto(Bytes, parts, Joined(parts))
      BY <1>5, JoinedIs
    <2> QED
      BY <1>3, <1>5, <2>1 DEF JoinsInto
  <1>7. /\ \A k \in 0 .. n : all[k] \in Seq(Bytes)
        /\ all[0] = <<>> /\ \A k \in 1 .. n : all[k] = all[k - 1] \o parts[k]
    BY <1>6 DEF Joins
  <1> DEFINE Right(k) == /\ Len(all[k]) = full * k /\ Once(all[k])
                         /\ \A b \in Range(all[k]) : \E i \in 1 .. k : b[1] = list[i]
             S == {k \in 0 .. n : Right(k)}
  <1>8. 0 \in S
    <2>1. Len(all[0]) = 0 /\ DOMAIN all[0] = {} /\ full * 0 = 0
      BY <1>7
    <2>2. Once(all[0]) /\ Range(all[0]) = {}
      BY <2>1 DEF Once, Range
    <2> QED
      BY <2>1, <2>2
  <1>9. ASSUME NEW k \in 1 .. n, k - 1 \in S PROVE k \in S
    <2>1. PICK before \in Seq(Bytes) : before = all[k - 1]
      BY <1>7
    <2>2. PICK part \in Seq(Bytes) : part = parts[k]
      BY <1>4
    <2>3. /\ Len(before) = full * (k - 1) /\ Once(before)
          /\ \A b \in Range(before) : \E i \in 1 .. k - 1 : b[1] = list[i]
      BY <1>9, <2>1
    <2>4. Len(part) = full /\ Once(part) /\ \A b \in Range(part) : b[1] = list[k]
      BY <1>4, <2>2
    <2>5. Range(before) \cap Range(part) = {}
      <3>1. ASSUME NEW i \in 1 .. k - 1 PROVE list[i] # list[k]
        <4>1. i \in 1 .. n /\ k \in 1 .. n /\ i # k
          OBVIOUS
        <4> QED
          BY ONLY <1>1, <4>1, Once(list) DEF Once
      <3> QED
        BY ONLY <2>3, <2>4, <3>1
    <2>6. PICK after : after = before \o part
      OBVIOUS
    <2>7. Concatenated(Bytes, before, part, after)
      BY ONLY <2>1, <2>2, <2>6, ConcatenationIs
    <2>8. /\ Len(after) = full * (k - 1) + full /\ Once(after)
          /\ Range(after) = Range(before) \cup Range(part)
      BY ONLY <2>3, <2>4, <2>5, <2>7 DEF Concatenated
    <2>9. full * (k - 1) + full = full * k
      OBVIOUS
    <2>10. \A b \in Range(after) : \E i \in 1 .. k : b[1] = list[i]
      <3>1. 1 .. k - 1 \subseteq 1 .. k /\ k \in 1 .. k
        OBVIOUS
      <3>2. ASSUME NEW b \in Range(before) PROVE \E i \in 1 .. k : b[1] = list[i]
        BY ONLY <2>3, <3>1, <3>2
      <3>3. ASSUME NEW b \in Range(part) PROVE \E i \in 1 .. k : b[1] = list[i]
        BY ONLY <2>4, <3>1, <3>3
      <3> QED
        BY ONLY <2>8, <3>2, <3>3
    <2>11. all[k] = after /\ k \in 0 .. n
      <3>1. all[k] = all[k - 1] \o parts[k]
        BY <1>7
      <3>2. k \in 0 .. n
        OBVIOUS
      <3> QED
        BY ONLY <2>1, <2>2, <2>6, <3>1, <3>2
    <2> QED
      BY ONLY <2>8, <2>9, <2>10, <2>11
  <1>10. S \in SUBSET Nat
    OBVIOUS
  <1> HIDE DEF S
  <1>11. n \in S
    BY <1>8, <1>9, <1>10, InductionUpTo
  <1> QED
    BY <1>1, <1>2, <1>6, <1>7, <1>11 DEF S

LEMMA LeastIs ==
  ASSUME NEW a \in Nat, NEW b \in Nat
  PROVE  Min({a, b}) = IF a <= b THEN a ELSE b
  BY DEF Min

LEMMA CutIs ==
  ASSUME NEW A, NEW bytes \in Seq(A), Once(bytes), NEW size \in Nat
  PROVE  /\ Cut(bytes, size) \in Seq(A) /\ Once(Cut(bytes, size))
         /\ Len(Cut(bytes, size)) = Min({Len(bytes), size}) /\ Len(Cut(bytes, size)) <= size
  <1>1. PICK n \in Nat : n = Len(bytes) /\ DOMAIN bytes = 1 .. n
    OBVIOUS
  <1>2. PICK m \in Nat : m = Min({n, size}) /\ m <= n /\ m <= size
    BY LeastIs
  <1>3. PICK cut : cut = [k \in 1 .. m |-> bytes[k]]
    OBVIOUS
  <1>4. \A k \in 1 .. m : k \in 1 .. n /\ bytes[k] \in A
    BY <1>1, <1>2
  <1>5. cut \in Seq(A) /\ Len(cut) = m /\ DOMAIN cut = 1 .. m
    BY <1>3, <1>4
  <1>6. Once(cut)
    BY <1>1, <1>3, <1>4, <1>5 DEF Once
  <1>7. Cut(bytes, size) = cut
    BY <1>1, <1>2, <1>3 DEF Cut
  <1> QED
    BY <1>1, <1>2, <1>5, <1>6, <1>7

\* The small sectors of a chain, one after the other; one that is not there is left out.
WithSmall(own, bytes, m) == IF m < Len(own) THEN Append(bytes, own[m + 1]) ELSE bytes
TakesSmall(A, own, list, n, bytes) ==
    /\ bytes \in [0 .. n -> Seq(A)] /\ bytes[0] = <<>>
    /\ \A k \in 1 .. n : bytes[k] = WithSmall(own, bytes[k - 1], list[k])
TakesInto(A, own, list, taken) ==
    \E bytes : TakesSmall(A, own, list, Len(list), bytes) /\ taken = bytes[Len(list)]

LEMMA WithSmallIsTyped ==
  ASSUME NEW A, NEW own \in Seq(A), NEW bytes \in Seq(A), NEW m \in Nat
  PROVE  WithSmall(own, bytes, m) \in Seq(A)
  <1>1. CASE m < Len(own)
    <2>1. m + 1 \in 1 .. Len(own)
      BY <1>1
    <2>2. PICK x \in A : x = own[m + 1]
      BY <2>1
    <2>3. Append(bytes, x) \in Seq(A)
      BY ONLY bytes \in Seq(A), x \in A
    <2> QED
      BY <1>1, <2>2, <2>3 DEF WithSmall
  <1>2. CASE ~(m < Len(own))
    BY <1>2 DEF WithSmall
  <1> QED
    BY <1>1, <1>2

LEMMA SmallSectorsAreTaken ==
  ASSUME NEW A, NEW own \in Seq(A), NEW list \in Seq(Nat)
  PROVE  TakesInto(A, own, list, SmallSectors(own, list))
  <1>1. PICK n \in Nat : n = Len(list) /\ DOMAIN list = 1 .. n
    OBVIOUS
  <1> DEFINE B == Seq(A)
             step == [pair \in B \X (1 .. n) |-> WithSmall(own, pair[1], list[pair[2]])]
             fold == CHOOSE f : f = [s \in SUBSET (1 .. n) |->
                        IF s = {} THEN <<>> ELSE WithSmall(own, f[s \ {Highest(s)}], list[Highest(s)])]
  <1>2. \A i \in 1 .. n : list[i] \in Nat
    BY <1>1
  <1>3. SmallSectors(own, list) = fold[1 .. n]
    BY <1>1 DEF SmallSectors, WithSmall, FoldLeft, MapThenFoldSet, Max, Highest
  <1>4. step \in [B \X (1 .. n) -> B]
    <2>1. ASSUME NEW pair \in B \X (1 .. n) PROVE WithSmall(own, pair[1], list[pair[2]]) \in B
      BY <1>2, WithSmallIsTyped
    <2> QED
      BY <2>1
  <1>5. <<>> \in B
    OBVIOUS
  <1>6. PICK some : Folds(B, <<>>, step, n, some)
    <2> HIDE DEF B, step
    <2> QED
      BY <1>4, <1>5, FoldExists
  <1>7. some = [s \in SUBSET (1 .. n) |->
                  IF s = {} THEN <<>> ELSE WithSmall(own, some[s \ {Highest(s)}], list[Highest(s)])]
    <2> HIDE DEF B
    <2>1. ASSUME NEW s \in SUBSET (1 .. n), s # {}
          PROVE  some[s] = WithSmall(own, some[s \ {Highest(s)}], list[Highest(s)])
      <3>1. Highest(s) \in s
        BY <2>1, HighestIsOne
      <3>2. some[s] = step[<<some[s \ {Highest(s)}], Highest(s)>>]
        BY <1>6, <2>1 DEF Folds, FoldAt
      <3>3. some[s \ {Highest(s)}] \in B /\ Highest(s) \in 1 .. n
        <4> HIDE DEF step
        <4> QED
          BY <1>6, <3>1 DEF Folds
      <3> QED
        BY <3>2, <3>3
    <2> HIDE DEF step
    <2>2. some[{}] = <<>>
      BY <1>6 DEF Folds, FoldAt
    <2> QED
      BY <1>6, <2>1, <2>2 DEF Folds
  <1>8. fold = [s \in SUBSET (1 .. n) |->
                  IF s = {} THEN <<>> ELSE WithSmall(own, fold[s \ {Highest(s)}], list[Highest(s)])]
    BY <1>7
  <1> HIDE DEF fold
  <1> DEFINE bytes == [k \in 0 .. n |-> fold[1 .. k]]
  <1>9. /\ DOMAIN bytes = 0 .. n /\ bytes = [k \in 0 .. n |-> bytes[k]]
        /\ \A k \in 0 .. n : bytes[k] = fold[1 .. k]
    OBVIOUS
  <1> HIDE DEF bytes, step, B
  <1>10. bytes[0] = <<>>
    <2>1. 1 .. 0 = {} /\ {} \in SUBSET (1 .. n) /\ 0 \in 0 .. n
      OBVIOUS
    <2>2. fold[{}] = <<>>
      BY <1>8, <2>1
    <2> QED
      BY <1>9, <2>1, <2>2
  <1>11. ASSUME NEW k \in 1 .. n PROVE bytes[k] = WithSmall(own, bytes[k - 1], list[k])
    <2>1. /\ 1 .. k \in SUBSET (1 .. n) /\ 1 .. k # {} /\ Highest(1 .. k) = k
          /\ (1 .. k) \ {k} = 1 .. (k - 1)
      BY UpTo
    <2>2. fold[1 .. k] = WithSmall(own, fold[1 .. (k - 1)], list[k])
      BY <1>8, <2>1
    <2>3. k \in 0 .. n /\ k - 1 \in 0 .. n
      OBVIOUS
    <2> QED
      BY <1>9, <2>2, <2>3
  <1> DEFINE S == {k \in 0 .. n : bytes[k] \in B}
  <1>12. 0 \in S
    BY <1>5, <1>10
  <1>13. ASSUME NEW k \in 1 .. n, k - 1 \in S PROVE k \in S
    <2>1. PICK before \in Seq(A) : before = bytes[k - 1]
      BY <1>13 DEF B
    <2>2. WithSmall(own, before, list[k]) \in B
      BY <1>2, WithSmallIsTyped DEF B
    <2>3. bytes[k] = WithSmall(own, before, list[k])
      BY <1>11, <2>1
    <2>4. k \in 0 .. n
      OBVIOUS
    <2> QED
      BY ONLY <2>2, <2>3, <2>4
  <1>14. S \in SUBSET Nat
    OBVIOUS
  <1>15. ASSUME NEW m \in 0 .. n PROVE m \in S
    <2>1. \A k \in 1 .. m : k - 1 \in S => k \in S
      BY <1>13
    <2>2. m \in Nat
      OBVIOUS
    <2> HIDE DEF S
    <2> QED
      BY <1>12, <1>14, <2>1, <2>2, InductionUpTo
  <1>16. bytes \in [0 .. n -> Seq(A)]
    BY <1>9, <1>15 DEF B
  <1>17. SmallSectors(own, list) = bytes[n]
    BY <1>3, <1>9
  <1>18. TakesSmall(A, own, list, n, bytes)
    BY <1>10, <1>11, <1>16 DEF TakesSmall
  <1> QED
    BY <1>1, <1>17, <1>18 DEF TakesInto

LEMMA SmallSectorsAre ==
  ASSUME NEW A, NEW own \in Seq(A), Once(own), NEW list \in Seq(Nat), Once(list)
  PROVE  SmallSectors(own, list) \in Seq(A) /\ Once(SmallSectors(own, list))
  <1>1. PICK n \in Nat : n = Len(list) /\ DOMAIN list = 1 .. n
    OBVIOUS
  <1>2. PICK m \in Nat : m = Len(own) /\ DOMAIN own = 1 .. m
    OBVIOUS
  <1>3. PICK bytes : TakesSmall(A, own, list, n, bytes) /\ SmallSectors(own, list) = bytes[n]
    <2>1. TakesInto(A, own, list, SmallSectors(own, list))
      BY SmallSectorsAreTaken
    <2> QED
      BY <1>1, <2>1 DEF TakesInto
  <1>4. /\ \A k \in 0 .. n : bytes[k] \in Seq(A)
        /\ bytes[0] = <<>> /\ \A k \in 1 .. n : bytes[k] = WithSmall(own, bytes[k - 1], list[k])
    BY <1>3 DEF TakesSmall
  <1> DEFINE From(b, k) == \E i \in 1 .. k : list[i] < m /\ b = own[list[i] + 1]
             S == {k \in 0 .. n : Once(bytes[k]) /\ \A b \in Range(bytes[k]) : From(b, k)}
  <1>5. 0 \in S
    <2>1. DOMAIN bytes[0] = {}
      BY <1>4
    <2>2. Once(bytes[0]) /\ Range(bytes[0]) = {}
      BY <2>1 DEF Once, Range
    <2> QED
      BY <2>2
  <1>6. ASSUME NEW k \in 1 .. n, k - 1 \in S PROVE k \in S
    <2>1. PICK before \in Seq(A) : before = bytes[k - 1]
      BY <1>4
    <2>2. Once(before) /\ \A b \in Range(before) : From(b, k - 1)
      BY <1>6, <2>1
    <2>3. PICK sector \in Nat : sector = list[k]
      BY <1>1
    <2>4. bytes[k] = WithSmall(own, before, sector)
      BY <1>4, <2>1, <2>3
    <2>5. k \in 0 .. n /\ 1 .. k - 1 \subseteq 1 .. k /\ k \in 1 .. k
      OBVIOUS
    <2>6. \A b \in Range(before) : From(b, k)
      BY ONLY <2>2, <2>5
    <2>7. CASE sector < m
      <3>1. sector + 1 \in 1 .. m
        BY <2>7
      <3>2. PICK x \in A : x = own[sector + 1]
        BY <1>2, <3>1
      <3>3. x \notin Range(before)
        <4> SUFFICES ASSUME From(x, k - 1) PROVE FALSE
          BY <2>2
        <4>1. PICK i \in 1 .. k - 1 : list[i] < m /\ x = own[list[i] + 1]
          OBVIOUS
        <4>2. PICK other \in Nat : other = list[i] /\ i \in 1 .. n /\ i # k
          BY <1>1
        <4>3. other + 1 \in 1 .. m /\ own[other + 1] = own[sector + 1]
          BY <3>2, <4>1, <4>2
        <4>4. other + 1 = sector + 1
          BY ONLY <1>2, <3>1, <4>3, Once(own) DEF Once
        <4>5. list[i] = list[k]
          <5>1. other = sector
            BY ONLY <4>4, other \in Nat, sector \in Nat
          <5> QED
            BY ONLY <2>3, <4>2, <5>1
        <4> QED
          BY ONLY <1>1, <4>2, <4>5, Once(list), k \in 1 .. n DEF Once
      <3>4. bytes[k] = Append(before, x)
        BY <1>2, <2>4, <2>7, <3>2 DEF WithSmall
      <3>5. Appended(A, before, x, Append(before, x))
        BY ONLY before \in Seq(A), x \in A, AppendHas
      <3>6. Once(bytes[k]) /\ Range(bytes[k]) = Range(before) \cup {x}
        BY ONLY <2>2, <3>3, <3>4, <3>5 DEF Appended
      <3>7. From(x, k)
        BY <2>3, <2>5, <2>7, <3>2
      <3> QED
        BY ONLY <2>5, <2>6, <3>6, <3>7
    <2>8. CASE ~(sector < m)
      <3>1. bytes[k] = before
        BY <1>2, <2>4, <2>8 DEF WithSmall
      <3> QED
        BY ONLY <2>2, <2>5, <2>6, <3>1
    <2> QED
      BY <2>7, <2>8
  <1>7. S \in SUBSET Nat
    OBVIOUS
  <1> HIDE DEF S
  <1>8. n \in S
    BY <1>5, <1>6, <1>7, InductionUpTo
  <1> QED
    BY <1>3, <1>4, <1>8 DEF S

(***************************************************************************)
(* The tree of a directory.                                                *)
(***************************************************************************)

Follows(slots, first, set) ==
    /\ {first} \cap InUse(slots) \subseteq set
    /\ \A id \in set : LinksOf(slots, id) \cap InUse(slots) \subseteq set

LEMMA LinkedAre ==
  ASSUME NEW slots, NEW first
  PROVE  /\ LinkedEntries(slots, first) \subseteq InUse(slots)
         /\ Follows(slots, first, LinkedEntries(slots, first))
         /\ \A set \in SUBSET InUse(slots) :
               Follows(slots, first, set) => LinkedEntries(slots, first) \subseteq set
  <1>1. PICK used : used = InUse(slots)
    OBVIOUS
  <1> DEFINE closed == {set \in SUBSET used : Follows(slots, first, set)}
  <1>2. LinkedEntries(slots, first) = {id \in used : \A set \in closed : id \in set}
    BY <1>1 DEF LinkedEntries, Follows
  <1>3. {first} \cap used \subseteq LinkedEntries(slots, first)
    BY <1>1, <1>2 DEF Follows
  <1>4. ASSUME NEW id \in LinkedEntries(slots, first), NEW link \in LinksOf(slots, id) \cap used
        PROVE  link \in LinkedEntries(slots, first)
    <2>1. \A set \in closed : id \in set
      BY <1>2
    <2>2. \A set \in closed : link \in set
      BY <1>1, <2>1 DEF Follows
    <2> HIDE DEF closed
    <2> QED
      BY <1>2, <2>2
  <1>5. Follows(slots, first, LinkedEntries(slots, first))
    BY <1>1, <1>3, <1>4 DEF Follows
  <1> QED
    BY <1>1, <1>2, <1>5

LEMMA PopIs ==
  ASSUME NEW A, NEW list \in Seq(A), list # <<>>
  PROVE  /\ Front(list) \in Seq(A) /\ Last(list) \in A /\ Len(list) \in Nat \ {0}
         /\ Len(Front(list)) = Len(list) - 1
         /\ Range(list) = Range(Front(list)) \cup {Last(list)}
  <1>1. PICK n \in Nat : n = Len(list) /\ DOMAIN list = 1 .. n
    OBVIOUS
  <1>2. n # 0
    BY <1>1
  <1>3. PICK front : front = [i \in 1 .. n - 1 |-> list[i]]
    OBVIOUS
  <1>4. front \in Seq(A) /\ Len(front) = n - 1 /\ DOMAIN front = 1 .. n - 1
    <2>1. n - 1 \in Nat /\ \A i \in 1 .. n - 1 : list[i] \in A
      BY <1>1, <1>2
    <2> QED
      BY <1>3, <2>1
  <1>5. Front(list) = front
    BY <1>1, <1>3, <1>4 DEF Front
  <1>6. Last(list) = list[n] /\ list[n] \in A
    BY <1>1, <1>2 DEF Last
  <1>7. Range(list) = Range(front) \cup {list[n]}
    <2>1. \A i \in 1 .. n : i = n \/ i \in 1 .. n - 1
      OBVIOUS
    <2>2. 1 .. n - 1 \subseteq 1 .. n /\ n \in 1 .. n
      BY <1>2
    <2>3. \A i \in 1 .. n - 1 : front[i] = list[i]
      BY <1>3
    <2> QED
      BY ONLY <1>1, <1>4, <2>1, <2>2, <2>3 DEF Range
  <1> QED
    BY <1>1, <1>2, <1>4, <1>5, <1>6, <1>7

TreeWalks == [calls : Seq(Links), placed : Seq(Nat)]
FirstCall(first) == [calls |-> <<first>>, placed |-> <<>>]

\* One turn: no call is left, or the last one has nothing to place, or it places its entry.
NothingToPlace(slots, walk, next) ==
    /\ walk.calls # <<>>
    /\ Last(walk.calls) \in InUse(slots) => Last(walk.calls) \in Range(walk.placed)
    /\ next = [calls |-> Front(walk.calls), placed |-> walk.placed]
Places3(slots, walk, next) ==
    /\ walk.calls # <<>>
    /\ Last(walk.calls) \in InUse(slots) \ Range(walk.placed)
    /\ next.placed = Append(walk.placed, Last(walk.calls))
    /\ \E more \in Seq(Links) :
          /\ next.calls = Front(walk.calls) \o more /\ Len(more) = 3
          /\ LinksOf(slots, Last(walk.calls)) \subseteq Range(more)
          /\ Range(more) \subseteq LinksOf(slots, Last(walk.calls)) \cup {Stop}

LEMMA CallIs ==
  ASSUME NEW slots \in Seq(DirectoryEntries), NEW walk \in TreeWalks,
         NEW next, next = AssignTurn(slots, walk)
  PROVE  /\ next \in TreeWalks
         /\ \/ walk.calls = <<>> /\ next = walk
            \/ NothingToPlace(slots, walk, next)
            \/ Places3(slots, walk, next)
  <1>1. PICK calls \in Seq(Links), placed \in Seq(Nat) : walk = [calls |-> calls, placed |-> placed]
    BY DEF TreeWalks
  <1>2. walk.calls = calls /\ walk.placed = placed
    BY <1>1
  <1>3. CASE calls = <<>>
    BY <1>2, <1>3 DEF AssignTurn
  <1>4. CASE calls # <<>>
    <2>1. PICK front \in Seq(Links), id \in Links : front = Front(calls) /\ id = Last(calls)
      BY <1>4, PopIs
    <2>2. CASE id \in Range(placed) \/ id \notin InUse(slots)
      <3>1. next = [calls |-> front, placed |-> placed]
        BY <1>1, <1>2, <1>4, <2>1, <2>2 DEF AssignTurn
      <3>2. next \in TreeWalks
        BY <3>1 DEF TreeWalks
      <3>3. NothingToPlace(slots, walk, next)
        BY <1>2, <1>4, <2>1, <2>2, <3>1 DEF NothingToPlace
      <3> QED
        BY <3>2, <3>3
    <2>3. CASE id \notin Range(placed) /\ id \in InUse(slots)
      <3>1. id \in Nat /\ slots[id] \in DirectoryEntries
        BY <2>3 DEF InUse
      <3>2. PICK a \in Links, b \in Links, c \in Links :
               /\ a = slots[id].right /\ c = slots[id].left
               /\ b = IF slots[id].kind = "storage" THEN slots[id].child ELSE Stop
        BY <3>1 DEF DirectoryEntries, Links
      <3>3. PICK more : more = <<a, b, c>>
        OBVIOUS
      <3>4. more \in Seq(Links) /\ Len(more) = 3 /\ Range(more) = {a, b, c}
        BY <3>3 DEF Range
      <3>5. /\ LinksOf(slots, id) \subseteq Range(more)
            /\ Range(more) \subseteq LinksOf(slots, id) \cup {Stop}
        BY <3>2, <3>4 DEF LinksOf
      <3>6. PICK to \in Seq(Links) : to = front \o more
        <4>1. more \in Seq(Links) /\ front \in Seq(Links)
          BY ONLY <3>4, <2>1
        <4>2. front \o more \in Seq(Links)
          BY ONLY <4>1
        <4> QED
          BY ONLY <4>2
      <3>7. PICK after \in Seq(Nat) : after = Append(placed, id)
        <4>1. id \in Nat /\ placed \in Seq(Nat)
          BY <3>1
        <4>2. Append(placed, id) \in Seq(Nat)
          BY ONLY <4>1
        <4> QED
          BY ONLY <4>2
      <3>8. next = [calls |-> to, placed |-> after]
        BY <1>1, <1>2, <1>4, <2>1, <2>3, <3>2, <3>3, <3>6, <3>7 DEF AssignTurn
      <3>9. next \in TreeWalks /\ next.calls = to /\ next.placed = after
        BY <3>8 DEF TreeWalks
      <3>10. Places3(slots, walk, next)
        BY <1>2, <1>4, <2>1, <2>3, <3>4, <3>5, <3>6, <3>7, <3>9 DEF Places3
      <3> QED
        BY <3>9, <3>10
    <2> QED
      BY <2>2, <2>3
  <1> QED
    BY <1>3, <1>4

\* What is placed is led to, once each; what it leads to is placed or still to be tried; and each
\* turn but those that follow the last call uses up one of the calls that were ever made.
Placing(slots, first, walk, turn) ==
    /\ Once(walk.placed) /\ Range(walk.placed) \subseteq LinkedEntries(slots, first)
    /\ Range(walk.calls) \cap InUse(slots) \subseteq LinkedEntries(slots, first)
    /\ {first} \cap InUse(slots) \subseteq Range(walk.placed) \cup Range(walk.calls)
    /\ \A id \in Range(walk.placed) :
          LinksOf(slots, id) \cap InUse(slots) \subseteq Range(walk.placed) \cup Range(walk.calls)
    /\ walk.calls = <<>> \/ turn + Len(walk.calls) = 1 + 3 * Len(walk.placed)

LEMMA CallKeeps ==
  ASSUME NEW slots \in Seq(DirectoryEntries), NEW first \in Links, NEW turn \in Nat,
         NEW walk \in TreeWalks, Placing(slots, first, walk, turn),
         NEW next, next = AssignTurn(slots, walk)
  PROVE  next \in TreeWalks /\ Placing(slots, first, next, turn + 1)
  <1>1. /\ next \in TreeWalks
        /\ \/ walk.calls = <<>> /\ next = walk
           \/ NothingToPlace(slots, walk, next)
           \/ Places3(slots, walk, next)
    BY CallIs
  <1>2. PICK used, linked : used = InUse(slots) /\ linked = LinkedEntries(slots, first)
    OBVIOUS
  <1>3. PICK calls \in Seq(Links), placed \in Seq(Nat) : walk.calls = calls /\ walk.placed = placed
    BY DEF TreeWalks
  <1>4. PICK to \in Seq(Links), after \in Seq(Nat) : next.calls = to /\ next.placed = after
    BY <1>1 DEF TreeWalks
  <1>5. /\ Once(placed) /\ Range(placed) \subseteq linked
        /\ Range(calls) \cap used \subseteq linked
        /\ {first} \cap used \subseteq Range(placed) \cup Range(calls)
        /\ \A id \in Range(placed) : LinksOf(slots, id) \cap used \subseteq Range(placed) \cup Range(calls)
        /\ calls = <<>> \/ turn + Len(calls) = 1 + 3 * Len(placed)
    BY <1>2, <1>3 DEF Placing
  <1>6. CASE calls = <<>> /\ next = walk
    BY <1>1, <1>3, <1>6 DEF Placing
  <1>7. CASE calls # <<>> /\ NothingToPlace(slots, walk, next)
    <2>1. to = Front(calls) /\ after = placed /\ (Last(calls) \in used => Last(calls) \in Range(placed))
      BY <1>2, <1>3, <1>4, <1>7 DEF NothingToPlace
    <2>2. /\ Len(calls) \in Nat \ {0} /\ Len(to) = Len(calls) - 1
          /\ Range(calls) = Range(to) \cup {Last(calls)}
      BY <1>7, <2>1, PopIs
    <2>3. (turn + 1) + Len(to) = 1 + 3 * Len(after)
      <3>1. PICK c \in Nat, p \in Nat : c = Len(calls) /\ p = Len(placed)
        OBVIOUS
      <3>2. turn + c = 1 + 3 * p /\ Len(to) = c - 1 /\ Len(after) = p
        BY ONLY <1>5, <1>7, <2>1, <2>2, <3>1
      <3> QED
        BY ONLY <3>2, c \in Nat, p \in Nat, turn \in Nat
    <2>4. /\ {first} \cap used \subseteq Range(after) \cup Range(to)
          /\ Range(to) \cap used \subseteq linked
          /\ \A id \in Range(after) : LinksOf(slots, id) \cap used \subseteq Range(after) \cup Range(to)
      BY ONLY <1>5, <2>1, <2>2
    <2> QED
      BY ONLY <1>1, <1>2, <1>4, <1>5, <2>1, <2>3, <2>4 DEF Placing
  <1>8. CASE calls # <<>> /\ Places3(slots, walk, next)
    <2>1. PICK id \in Links, front \in Seq(Links) : id = Last(calls) /\ front = Front(calls)
      BY <1>8, PopIs
    <2>2. PICK links : links = LinksOf(slots, id)
      OBVIOUS
    <2>3. PICK more \in Seq(Links) : /\ to = front \o more /\ Len(more) = 3
                                     /\ links \subseteq Range(more) /\ Range(more) \subseteq links \cup {Stop}
      BY <1>3, <1>4, <1>8, <2>1, <2>2 DEF Places3
    <2>4. id \in used /\ id \notin Range(placed) /\ after = Append(placed, id)
      BY <1>2, <1>3, <1>4, <1>8, <2>1 DEF Places3
    <2>5. /\ Len(calls) \in Nat \ {0} /\ Len(front) = Len(calls) - 1
          /\ Range(calls) = Range(front) \cup {id}
      BY <1>8, <2>1, PopIs
    <2>6. Len(to) = Len(front) + 3 /\ Range(to) = Range(front) \cup Range(more)
      <3>1. Concatenated(Links, front, more, front \o more)
        BY ONLY front \in Seq(Links), more \in Seq(Links), ConcatenationIs
      <3> QED
        BY ONLY <2>3, <3>1 DEF Concatenated
    <2>7. id \in Nat /\ Stop \notin used
      BY <1>2, <2>4 DEF InUse, Stop
    <2>8. Len(after) = Len(placed) + 1 /\ Range(after) = Range(placed) \cup {id} /\ Once(after)
      <3>1. Appended(Nat, placed, id, Append(placed, id))
        BY ONLY placed \in Seq(Nat), <2>7, AppendHas
      <3> QED
        BY ONLY <1>5, <2>4, <3>1 DEF Appended
    <2>9. (turn + 1) + Len(to) = 1 + 3 * Len(after)
      <3>1. PICK c \in Nat, p \in Nat : c = Len(calls) /\ p = Len(placed)
        OBVIOUS
      <3>2. turn + c = 1 + 3 * p /\ Len(to) = (c - 1) + 3 /\ Len(after) = p + 1
        BY ONLY <1>5, <1>8, <2>5, <2>6, <2>8, <3>1
      <3> QED
        BY ONLY <3>2, c \in Nat, p \in Nat, turn \in Nat
    <2>10. links \cap used \subseteq linked
      <3>1. id \in linked
        BY ONLY <1>5, <2>4, <2>5
      <3>2. Follows(slots, first, linked)
        BY ONLY <1>2, LinkedAre
      <3> QED
        BY ONLY <1>2, <2>2, <3>1, <3>2 DEF Follows
    <2>11. Range(to) \cap used \subseteq linked
      BY ONLY <1>5, <2>3, <2>5, <2>6, <2>7, <2>10
    <2>12. Range(after) \subseteq linked
      BY ONLY <1>5, <2>4, <2>5, <2>8
    <2>13. Range(placed) \cup Range(calls) \subseteq Range(after) \cup Range(to)
      BY ONLY <2>5, <2>6, <2>8
    <2>14. /\ {first} \cap used \subseteq Range(after) \cup Range(to)
           /\ \A i \in Range(placed) : LinksOf(slots, i) \cap used \subseteq Range(after) \cup Range(to)
      BY ONLY <1>5, <2>13
    <2>15. links \subseteq Range(to)
      BY ONLY <2>3, <2>6
    <2>16. \A i \in Range(after) : LinksOf(slots, i) \cap used \subseteq Range(after) \cup Range(to)
      BY ONLY <2>2, <2>8, <2>14, <2>15
    <2> QED
      BY ONLY <1>1, <1>2, <1>4, <2>8, <2>9, <2>11, <2>12, <2>14, <2>16 DEF Placing
  <1> QED
    BY <1>1, <1>3, <1>6, <1>7, <1>8 DEF NothingToPlace, Places3

Calls(slots, first, n, walk) ==
    /\ walk \in [0 .. n -> TreeWalks] /\ walk[0] = FirstCall(first)
    /\ \A turn \in 1 .. n : walk[turn] = AssignTurn(slots, walk[turn - 1])

LEMMA TreeWalkIs ==
  ASSUME NEW slots \in Seq(DirectoryEntries), NEW first \in Links
  PROVE  \E walk : /\ Calls(slots, first, 3 * Len(slots) + 1, walk)
                   /\ AssignTree(slots, first) = walk[3 * Len(slots) + 1].placed
  <1> DEFINE A == TreeWalks
             step == [walk \in A |-> AssignTurn(slots, walk)]
             walk == CHOOSE w : w = [turn \in 0 .. 3 * Len(slots) + 1 |->
                        IF turn = 0 THEN FirstCall(first) ELSE AssignTurn(slots, w[turn - 1])]
  <1>1. AssignTree(slots, first) = walk[3 * Len(slots) + 1].placed
    BY DEF AssignTree, FirstCall
  <1>2. PICK n \in Nat : n = 3 * Len(slots) + 1
    OBVIOUS
  <1>3. FirstCall(first) \in A
    <2>1. <<>> \in Seq(Nat) /\ <<first>> \in Seq(Links)
      OBVIOUS
    <2> QED
      BY <2>1 DEF FirstCall, TreeWalks
  <1>4. step \in [A -> A]
    BY CallIs
  <1>5. PICK some : Iterates(A, FirstCall(first), step, n, some)
    <2> HIDE DEF step, A
    <2> QED
      BY <1>3, <1>4, IterationExists
  <1>6. some = [turn \in 0 .. n |-> IF turn = 0 THEN FirstCall(first)
                                    ELSE AssignTurn(slots, some[turn - 1])]
    <2>1. ASSUME NEW turn \in 0 .. n, turn # 0
          PROVE  step[some[turn - 1]] = AssignTurn(slots, some[turn - 1])
      <3>1. some[turn - 1] \in A
        <4> HIDE DEF A, step
        <4>1. some \in [0 .. n -> A]
          BY <1>5 DEF Iterates
        <4>2. turn - 1 \in 0 .. n
          BY <2>1
        <4> QED
          BY <4>1, <4>2
      <3> QED
        BY <3>1
    <2> HIDE DEF step
    <2> QED
      BY <1>5, <2>1 DEF Iterates
  <1>7. walk = [turn \in 0 .. n |-> IF turn = 0 THEN FirstCall(first)
                                    ELSE AssignTurn(slots, walk[turn - 1])]
    BY <1>2, <1>6
  <1> HIDE DEF walk
  <1> DEFINE S == {k \in Nat : walk[k] \in A}
  <1>8. \A k \in 1 .. n : walk[k] = AssignTurn(slots, walk[k - 1])
    BY <1>7
  <1>9. walk[0] = FirstCall(first)
    BY <1>7
  <1>10. \A k \in 0 .. n : walk[k] \in A
    <2> SUFFICES ASSUME NEW k \in 0 .. n PROVE walk[k] \in A
      OBVIOUS
    <2>1. ASSUME NEW i \in 1 .. k, i - 1 \in S PROVE i \in S
      <3>1. walk[i - 1] \in TreeWalks /\ walk[i] = AssignTurn(slots, walk[i - 1])
        BY <1>8, <2>1
      <3>2. walk[i] \in TreeWalks
        BY <3>1, CallIs
      <3> QED
        BY <3>2
    <2>2. 0 \in S /\ S \in SUBSET Nat /\ k \in Nat
      BY <1>3, <1>9
    <2> HIDE DEF S
    <2>3. k \in S
      BY <2>1, <2>2, InductionUpTo
    <2> QED
      BY <2>3 DEF S
  <1>11. walk \in [0 .. n -> A]
    <2>1. DOMAIN walk = 0 .. n /\ walk = [k \in 0 .. n |-> walk[k]]
      BY <1>7
    <2> QED
      BY <1>10, <2>1
  <1>12. Calls(slots, first, n, walk)
    BY <1>8, <1>9, <1>11 DEF Calls
  <1> QED
    BY <1>1, <1>2, <1>12

\* An entry in use has a place, and one only, exactly if the links lead to it.
LEMMA TreeIs ==
  ASSUME NEW slots \in Seq(DirectoryEntries), NEW first \in Links
  PROVE  LET placed == AssignTree(slots, first)
         IN  /\ placed \in Seq(Nat) /\ Cardinality(Range(placed)) = Len(placed)
             /\ Range(placed) = LinkedEntries(slots, first)
  <1>1. PICK m \in Nat : m = Len(slots)
    OBVIOUS
  <1>2. PICK n \in Nat : n = 3 * m + 1
    OBVIOUS
  <1>3. PICK walk : Calls(slots, first, n, walk) /\ AssignTree(slots, first) = walk[n].placed
    BY <1>1, <1>2, TreeWalkIs
  <1>4. /\ walk \in [0 .. n -> TreeWalks] /\ walk[0] = FirstCall(first)
        /\ \A turn \in 1 .. n : walk[turn] = AssignTurn(slots, walk[turn - 1])
    BY <1>3 DEF Calls
  <1> DEFINE S == {k \in 0 .. n : Placing(slots, first, walk[k], k)}
  <1>5. 0 \in S
    <2>1. PICK start : start = FirstCall(first)
      OBVIOUS
    <2>2. start.calls = <<first>> /\ start.placed = <<>>
      BY <2>1 DEF FirstCall
    <2>3. /\ Range(start.calls) = {first} /\ Len(start.calls) = 1
          /\ DOMAIN start.placed = {} /\ Len(start.placed) = 0
      BY <2>2 DEF Range
    <2>4. Once(start.placed) /\ Range(start.placed) = {}
      BY <2>3 DEF Once, Range
    <2>5. {first} \cap InUse(slots) \subseteq LinkedEntries(slots, first)
      BY LinkedAre DEF Follows
    <2>6. 0 + Len(start.calls) = 1 + 3 * Len(start.placed)
      BY ONLY <2>3
    <2>7. Placing(slots, first, start, 0)
      BY ONLY <2>3, <2>4, <2>5, <2>6 DEF Placing
    <2> QED
      BY <1>4, <2>1, <2>7
  <1>6. ASSUME NEW k \in 1 .. n, k - 1 \in S PROVE k \in S
    <2>1. PICK j \in Nat : j = k - 1
      OBVIOUS
    <2>2. PICK before \in TreeWalks : before = walk[k - 1]
      BY <1>4
    <2>3. Placing(slots, first, before, j)
      BY <1>6, <2>1, <2>2
    <2>4. walk[k] = AssignTurn(slots, before)
      BY <1>4, <2>2
    <2>5. Placing(slots, first, walk[k], j + 1)
      BY ONLY slots \in Seq(DirectoryEntries), first \in Links, j \in Nat, before \in TreeWalks,
              <2>3, <2>4, CallKeeps
    <2>6. j + 1 = k /\ k \in 0 .. n
      BY <2>1
    <2> QED
      BY <2>5, <2>6
  <1>7. S \in SUBSET Nat
    OBVIOUS
  <1> HIDE DEF S
  <1>8. n \in S
    BY <1>5, <1>6, <1>7, InductionUpTo
  <1>9. PICK last \in TreeWalks : last = walk[n]
    BY <1>4
  <1>10. PICK calls \in Seq(Links), placed \in Seq(Nat) : calls = last.calls /\ placed = last.placed
    BY DEF TreeWalks
  <1>11. PICK used, linked : used = InUse(slots) /\ linked = LinkedEntries(slots, first)
    OBVIOUS
  <1>12. /\ Once(placed) /\ Range(placed) \subseteq linked
         /\ {first} \cap used \subseteq Range(placed) \cup Range(calls)
         /\ \A id \in Range(placed) : LinksOf(slots, id) \cap used \subseteq Range(placed) \cup Range(calls)
         /\ calls = <<>> \/ n + Len(calls) = 1 + 3 * Len(placed)
    BY <1>8, <1>9, <1>10, <1>11 DEF S, Placing
  <1>13. linked \subseteq used /\ used \subseteq 1 .. m
    <2>1. linked \subseteq used
      BY <1>11, LinkedAre
    <2>2. used \subseteq 1 .. m
      BY <1>1, <1>11 DEF InUse
    <2> QED
      BY <2>1, <2>2
  <1>14. Cardinality(Range(placed)) = Len(placed)
    BY ONLY placed \in Seq(Nat), <1>12, OnceIsCounted
  <1>15. Len(placed) <= m
    <2>1. IsFiniteSet(1 .. m)
      BY ONLY m \in Nat, IntervalIsFinite
    <2>2. Range(placed) \subseteq 1 .. m
      BY ONLY <1>12, <1>13
    <2>3. Cardinality(Range(placed)) <= Cardinality(1 .. m)
      BY ONLY <2>1, <2>2, FS_Subset
    <2>4. Cardinality(1 .. m) = m
      <3>1. 1 \in Int /\ m \in Int /\ (1 > m => m = 0) /\ m - 1 + 1 = m
        OBVIOUS
      <3>2. Cardinality(1 .. m) = IF 1 > m THEN 0 ELSE m - 1 + 1
        BY ONLY <3>1, FS_Interval
      <3> QED
        BY <3>1, <3>2
    <2> QED
      BY <1>14, <2>3, <2>4
  <1>16. calls = <<>>
    <2>1. PICK c \in Nat, p \in Nat : c = Len(calls) /\ p = Len(placed)
      OBVIOUS
    <2>2. p <= m /\ (calls = <<>> \/ n + c = 1 + 3 * p)
      BY ONLY <1>12, <1>15, <2>1
    <2>3. calls # <<>> => c = 0
      BY ONLY <1>2, <2>2, c \in Nat, p \in Nat, m \in Nat
    <2> QED
      BY <2>1, <2>3
  <1>17. Range(calls) = {}
    BY <1>16 DEF Range
  <1>18. Follows(slots, first, Range(placed))
    BY ONLY <1>11, <1>12, <1>17 DEF Follows
  <1>19. linked \subseteq Range(placed)
    <2>1. Range(placed) \in SUBSET InUse(slots)
      BY ONLY <1>11, <1>12, <1>13
    <2> QED
      BY ONLY <1>11, <1>18, <2>1, LinkedAre
  <1>20. AssignTree(slots, first) = placed
    BY <1>3, <1>9, <1>10
  <1> QED
    BY <1>11, <1>12, <1>14, <1>19, <1>20

(***************************************************************************)
(* The file.                                                               *)
(***************************************************************************)

GoodChain(file, start) == SoundChain(file.fat, start, MaxComponents) /\ InFile(file, start)
Held(file, start) == FullSector * Cardinality(ChainOf(file.fat, start) \ {Stop})

LEMMA SectorsAre ==
  ASSUME NEW file, IsCompound(file), NEW start \in Links, NEW limit \in Nat,
         NEW chain, chain = Sectors(file, start, limit)
  PROVE  /\ chain.ok \in BOOLEAN /\ chain.list \in Seq(Nat)
         /\ chain.ok <=> SoundChain(file.fat, start, limit) /\ InFile(file, start)
         /\ Once(chain.list) /\ \A i \in DOMAIN chain.list : chain.list[i] \in 0 .. file.sectors - 1
         /\ chain.ok => Len(chain.list) = Cardinality(ChainOf(file.fat, start) \ {Stop})
  <1>1. PICK table \in Seq(Links), size \in Nat : table = file.fat /\ size = file.sectors
    BY DEF IsCompound
  <1>2. PICK taken : taken = AllocationChain(start, table, limit)
    OBVIOUS
  <1>3. PICK all : all = ChainOf(table, start)
    OBVIOUS
  <1>4. /\ taken.ok \in BOOLEAN /\ taken.list \in Seq(Nat)
        /\ taken.ok <=> SoundChain(table, start, limit)
        /\ taken.ok => /\ Once(taken.list) /\ Range(taken.list) = all \ {Stop}
                       /\ Len(taken.list) = Cardinality(all \ {Stop})
    BY ONLY table \in Seq(Links), start \in Links, limit \in Nat, <1>2, <1>3, ChainIs
  <1>5. PICK list \in Seq(Nat) : list = taken.list
    BY <1>4
  <1>6. PICK n \in Nat : n = Len(list) /\ DOMAIN list = 1 .. n
    OBVIOUS
  <1> DEFINE within == \A i \in DOMAIN list : list[i] < size
  <1>7. chain = IF taken.ok /\ within THEN taken ELSE Unread
    BY <1>1, <1>2, <1>5 DEF Sectors
  <1>8. taken.ok => (within <=> InFile(file, start))
    <2> SUFFICES ASSUME taken.ok PROVE within <=> \A s \in all : s < size
      BY <1>1, <1>3 DEF InFile
    <2>1. Stop < size
      BY DEF Stop
    <2>2. Range(list) = all \ {Stop}
      BY <1>4, <1>5
    <2>3. within <=> \A s \in Range(list) : s < size
      BY DEF Range
    <2> HIDE DEF within
    <2> QED
      BY ONLY <2>1, <2>2, <2>3
  <1>9. CASE taken.ok /\ within
    <2>1. chain = taken
      BY <1>7, <1>9
    <2>2. \A i \in DOMAIN list : list[i] \in 0 .. size - 1
      BY <1>6, <1>9
    <2> HIDE DEF within
    <2> QED
      BY ONLY <1>1, <1>3, <1>4, <1>5, <1>8, <1>9, <2>1, <2>2
  <1>10. CASE ~(taken.ok /\ within)
    <2>1. chain.ok = FALSE /\ chain.list = <<>>
      BY <1>7, <1>10 DEF Unread
    <2>2. <<>> \in Seq(Nat) /\ DOMAIN chain.list = {}
      BY <2>1
    <2>3. Once(chain.list)
      BY <2>2 DEF Once
    <2> HIDE DEF within
    <2> QED
      BY ONLY <1>1, <1>4, <1>8, <1>10, <2>1, <2>2, <2>3
  <1> QED
    BY <1>9, <1>10

LEMMA StopIsGood ==
  ASSUME NEW file, IsCompound(file)
  PROVE  GoodChain(file, Stop) /\ Held(file, Stop) = 0
  <1>1. PICK table \in Seq(Links), size \in Nat : table = file.fat /\ size = file.sectors
    BY DEF IsCompound
  <1>2. Stop \in Links /\ Stop = -1 /\ Stop \notin 0 .. Len(table) - 1
    BY DEF Links, Stop
  <1>3. Closed(table, Stop, {Stop})
    BY <1>2 DEF Closed
  <1>4. ChainOf(table, Stop) = {Stop}
    <2>1. Stop \in ChainOf(table, Stop)
      BY <1>2, ChainOfIs
    <2>2. ChainOf(table, Stop) \subseteq {Stop}
      BY <1>2, <1>3, <2>1, ChainOfIs
    <2> QED
      BY <2>1, <2>2
  <1>5. Cardinality({Stop}) = 1 /\ Cardinality({}) = 0
    BY FS_Singleton, FS_EmptySet
  <1>6. SoundChain(table, Stop, MaxComponents) /\ \A s \in ChainOf(table, Stop) : s < size
    <2>1. PICK limit \in Nat : limit = MaxComponents /\ 1 <= limit + 1
      BY CompoundAssumption
    <2>2. Stop < Len(table) /\ Stop < size
      BY <1>2
    <2> QED
      BY <1>4, <1>5, <2>1, <2>2 DEF SoundChain
  <1>7. ChainOf(table, Stop) \ {Stop} = {} /\ FullSector * 0 = 0
    BY <1>4, CompoundAssumption
  <1> QED
    BY <1>1, <1>5, <1>6, <1>7 DEF GoodChain, InFile, Held

LEMMA LeastOf ==
  ASSUME NEW S \in SUBSET Nat, S # {}
  PROVE  Min(S) \in S
  <1>1. PICK least \in S : \A n \in S : <<n, least>> \notin Below
    BY ONLY BelowIsWellFounded, WFMin, S # {}, S \subseteq Nat
  <1>2. ASSUME NEW n \in S PROVE least <= n
    <2>1. PICK a \in Nat, b \in Nat : a = n /\ b = least
      OBVIOUS
    <2>2. <<a, b>> \notin Below
      BY <1>1, <2>1
    <2>3. ~(a < b)
      BY ONLY <2>2, a \in Nat, b \in Nat DEF Below
    <2> QED
      BY ONLY <2>1, <2>3, a \in Nat, b \in Nat
  <1> QED
    BY <1>2 DEF Min

LEMMA SlotsAre ==
  ASSUME NEW file, IsCompound(file), NEW list \in Seq(Nat),
         \A i \in DOMAIN list : list[i] \in 0 .. file.sectors - 1
  PROVE  /\ Slots(file, list) \in Seq(DirectoryEntries)
         /\ \A id \in InUse(Slots(file, list)) : Slots(file, list)[id] \in DirectoryEntries
         /\ RootOf(Slots(file, list)) # Stop => RootOf(Slots(file, list)) \in InUse(Slots(file, list))
  <1>1. PICK n \in Nat : n = Len(list) /\ DOMAIN list = 1 .. n
    OBVIOUS
  <1> DEFINE parts == [i \in DOMAIN list |-> file.entries[list[i]]]
  <1>2. parts \in Seq(Seq(DirectoryEntries))
    <2>1. \A i \in 1 .. n : file.entries[list[i]] \in Seq(DirectoryEntries)
      BY <1>1 DEF IsCompound
    <2> QED
      BY <1>1, <2>1
  <1>3. PICK slots \in Seq(DirectoryEntries) : slots = Slots(file, list)
    <2> HIDE DEF parts
    <2>1. Joined(parts) \in Seq(DirectoryEntries)
      BY <1>2, JoinedIsTyped
    <2> QED
      BY <2>1 DEF Slots, parts
  <1>4. \A id \in InUse(slots) : id \in Nat /\ slots[id] \in DirectoryEntries
    BY DEF InUse
  <1>5. RootOf(slots) # Stop => RootOf(slots) \in InUse(slots)
    <2>1. Roots(slots) \in SUBSET Nat /\ Roots(slots) \subseteq InUse(slots)
      BY <1>4 DEF Roots
    <2>2. Roots(slots) # {} => Min(Roots(slots)) \in Roots(slots)
      BY ONLY <2>1, LeastOf
    <2> QED
      BY <2>1, <2>2 DEF RootOf
  <1> QED
    BY <1>3, <1>4, <1>5

LEMMA SmallTableIs ==
  ASSUME NEW file, IsCompound(file)
  PROVE  SmallTable(file).ok \in BOOLEAN /\ SmallTable(file).list \in Seq(Links)
  <1>1. file.firstMini \in Links /\ file.miniCount \in Nat
    BY DEF IsCompound
  <1>2. PICK chain : chain = Sectors(file, file.firstMini, file.miniCount)
    OBVIOUS
  <1>3. PICK list \in Seq(Nat) : list = chain.list /\ \A i \in DOMAIN list : list[i] \in 0 .. file.sectors - 1
    BY <1>1, <1>2, SectorsAre
  <1>4. PICK n \in Nat : n = Len(list) /\ DOMAIN list = 1 .. n
    OBVIOUS
  <1> DEFINE parts == [i \in DOMAIN list |-> file.mini[list[i]]]
  <1>5. parts \in Seq(Seq(Links))
    <2>1. \A i \in 1 .. n : file.mini[list[i]] \in Seq(Links)
      BY <1>3, <1>4 DEF IsCompound
    <2> QED
      BY <1>4, <2>1
  <1>6. \/ SmallTable(file) = [ok |-> TRUE, list |-> <<>>] \/ SmallTable(file) = Unread
        \/ SmallTable(file) = [ok |-> TRUE, list |-> Joined(parts)]
    BY <1>2, <1>3 DEF SmallTable
  <1> HIDE DEF parts
  <1>7. Joined(parts) \in Seq(Links) /\ <<>> \in Seq(Links)
    BY <1>5, JoinedIsTyped
  <1>8. CASE SmallTable(file) = Unread
    BY ONLY <1>7, <1>8 DEF Unread
  <1>9. CASE SmallTable(file) = [ok |-> TRUE, list |-> <<>>]
    BY ONLY <1>7, <1>9
  <1>10. CASE SmallTable(file) = [ok |-> TRUE, list |-> Joined(parts)]
    BY ONLY <1>7, <1>10
  <1> QED
    BY <1>6, <1>8, <1>9, <1>10

LEMMA NoBytesAre ==
  <<>> \in Seq(Bytes) /\ Once(<<>>) /\ Len(<<>>) = 0
  BY DEF Once

LEMMA OwnStreamIs ==
  ASSUME NEW file, IsCompound(file), NEW slots,
         \A id \in InUse(slots) : slots[id] \in DirectoryEntries,
         RootOf(slots) # Stop => RootOf(slots) \in InUse(slots)
  PROVE  /\ OwnStream(file, slots).ok \in BOOLEAN /\ OwnStream(file, slots).list \in Seq(Bytes)
         /\ Once(OwnStream(file, slots).list)
  <1>1. CASE RootOf(slots) = Stop
    <2>1. OwnStream(file, slots) = [ok |-> TRUE, list |-> <<>>]
      BY <1>1 DEF OwnStream
    <2> QED
      BY ONLY <2>1, NoBytesAre
  <1>2. CASE RootOf(slots) # Stop
    <2>1. PICK root \in DirectoryEntries : root = slots[RootOf(slots)]
      BY <1>2
    <2>2. PICK start \in Links, size \in Nat : start = root.start /\ size = root.size
      BY DEF DirectoryEntries
    <2>3. PICK limit \in Nat : limit = MaxComponents
      BY CompoundAssumption
    <2>4. PICK chain : chain = Sectors(file, start, limit)
      OBVIOUS
    <2>5. PICK list \in Seq(Nat) : list = chain.list /\ Once(list)
      BY <2>4, SectorsAre
    <2>6. PICK cut : cut = Cut(Whole(list), size)
      OBVIOUS
    <2>7. cut \in Seq(Bytes) /\ Once(cut)
      <3>1. PICK whole \in Seq(Bytes) : whole = Whole(list) /\ Once(whole)
        BY ONLY list \in Seq(Nat), <2>5, WholeIs
      <3> QED
        BY ONLY <3>1, <2>6, size \in Nat, CutIs
    <2>8. \/ OwnStream(file, slots) = [ok |-> TRUE, list |-> <<>>] \/ OwnStream(file, slots) = Unread
          \/ OwnStream(file, slots) = [ok |-> TRUE, list |-> cut]
      BY <1>2, <2>1, <2>2, <2>3, <2>4, <2>5, <2>6 DEF OwnStream
    <2>9. CASE OwnStream(file, slots) = [ok |-> TRUE, list |-> <<>>]
      BY ONLY <2>9, NoBytesAre
    <2>10. CASE OwnStream(file, slots) = Unread
      BY ONLY <2>10, NoBytesAre DEF Unread
    <2>11. CASE OwnStream(file, slots) = [ok |-> TRUE, list |-> cut]
      BY ONLY <2>7, <2>11
    <2> QED
      BY <2>8, <2>9, <2>10, <2>11
  <1> QED
    BY <1>1, <1>2

Wanted(entry) == entry.kind = "stream" /\ entry.size \in 1 .. MaxStream
\* What the reader makes of one entry.
LEMMA StreamIs ==
  ASSUME NEW file, IsCompound(file), NEW entry \in DirectoryEntries,
         NEW small \in Seq(Links), NEW own \in Seq(Bytes), Once(own),
         NEW stream, stream = Stream(file, entry, small, own)
  PROVE  /\ stream.ok \in BOOLEAN /\ stream.list \in Seq(Bytes) /\ Once(stream.list)
         /\ Len(stream.list) <= entry.size
         /\ ~stream.ok => /\ Wanted(entry)
                          /\ \/ entry.start # Stop /\ ~GoodChain(file, entry.start)
                             \/ /\ entry.size < MiniCutoff
                                /\ ~SoundChain(small, entry.start, MaxComponents)
         /\ stream.ok /\ Wanted(entry) /\ entry.size >= MiniCutoff =>
               /\ GoodChain(file, entry.start)
               /\ Len(stream.list) = Min({entry.size, Held(file, entry.start)})
  <1>1. PICK start \in Links, size \in Nat : start = entry.start /\ size = entry.size
    BY DEF DirectoryEntries
  <1>2. PICK limit \in Nat, most \in Nat, cutoff \in Nat, full \in Nat :
           limit = MaxComponents /\ most = MaxStream /\ cutoff = MiniCutoff /\ full = FullSector
    BY CompoundAssumption
  <1> DEFINE wanted == entry.kind = "stream" /\ size # 0 /\ ~(size > most)
  <1>3. size \in 1 .. most <=> size # 0 /\ ~(size > most)
    BY ONLY size \in Nat, most \in Nat
  <1>4. wanted <=> Wanted(entry)
    BY <1>1, <1>2, <1>3 DEF Wanted
  <1> SUFFICES /\ stream.ok \in BOOLEAN /\ stream.list \in Seq(Bytes) /\ Once(stream.list)
               /\ Len(stream.list) <= size
               /\ ~stream.ok => /\ wanted
                                /\ \/ start # Stop /\ ~GoodChain(file, start)
                                   \/ size < cutoff /\ ~SoundChain(small, start, limit)
               /\ stream.ok /\ wanted /\ size >= cutoff =>
                     GoodChain(file, start) /\ Len(stream.list) = Min({size, Held(file, start)})
    BY <1>1, <1>2, <1>4
  <1>5. PICK nothing : nothing = [ok |-> TRUE, list |-> <<>>]
    OBVIOUS
  <1>6. nothing.ok = TRUE /\ nothing.list = <<>>
    BY ONLY <1>5
  <1>7. Unread.ok = FALSE /\ Unread.list = <<>>
    BY ONLY DEF Unread
  <1>8. <<>> \in Seq(Bytes) /\ Once(<<>>) /\ Len(<<>>) <= size
    <2>1. 0 <= size
      BY ONLY size \in Nat
    <2> QED
      BY ONLY <2>1, NoBytesAre
  <1>9. CASE ~wanted
    <2>1. stream = nothing
      BY <1>1, <1>2, <1>5, <1>9 DEF Stream
    <2> HIDE DEF wanted
    <2> QED
      BY ONLY <1>6, <1>9, <1>8, <2>1
  <1>10. CASE wanted /\ size < cutoff /\ small # <<>> /\ own # <<>>
    <2>1. PICK mini : mini = AllocationChain(start, small, limit)
      OBVIOUS
    <2>2. /\ mini.ok \in BOOLEAN /\ mini.list \in Seq(Nat)
          /\ mini.ok <=> SoundChain(small, start, limit)
          /\ mini.ok => Once(mini.list)
      BY ONLY small \in Seq(Links), start \in Links, limit \in Nat, <2>1, ChainIs
    <2>3. stream = IF mini.ok THEN [ok |-> TRUE, list |-> Cut(SmallSectors(own, mini.list), size)] ELSE Unread
      BY <1>1, <1>2, <1>10, <2>1 DEF Stream
    <2>4. ~(size >= cutoff)
      BY <1>10
    <2>5. CASE mini.ok
      <3>1. PICK list \in Seq(Nat) : list = mini.list /\ Once(list)
        BY <2>2, <2>5
      <3>2. PICK bytes \in Seq(Bytes) : bytes = SmallSectors(own, list) /\ Once(bytes)
        BY ONLY own \in Seq(Bytes), Once(own), <3>1, SmallSectorsAre
      <3>3. PICK cut : cut = Cut(bytes, size)
        OBVIOUS
      <3>4. cut \in Seq(Bytes) /\ Once(cut) /\ Len(cut) <= size
        BY ONLY <3>2, <3>3, size \in Nat, CutIs
      <3>5. stream.ok = TRUE /\ stream.list = cut
        BY <2>3, <2>5, <3>1, <3>2, <3>3
      <3> QED
        BY ONLY <2>4, <3>4, <3>5
    <2>6. CASE ~mini.ok
      <3>1. stream = Unread
        BY <2>3, <2>6
      <3> QED
        BY ONLY <1>7, <1>10, <1>8, <2>2, <2>6, <3>1
    <2> QED
      BY <2>2, <2>5, <2>6
  <1>11. CASE wanted /\ ~(size < cutoff /\ small # <<>> /\ own # <<>>) /\ start = Stop
    <2>1. stream = nothing
      BY <1>1, <1>2, <1>5, <1>11 DEF Stream
    <2>2. GoodChain(file, start) /\ Held(file, start) = 0
      BY <1>11, StopIsGood
    <2>3. Min({size, 0}) = 0
      BY LeastIs
    <2> HIDE DEF wanted
    <2> QED
      BY ONLY <1>6, <1>8, <2>1, <2>2, <2>3, NoBytesAre
  <1>12. CASE wanted /\ ~(size < cutoff /\ small # <<>> /\ own # <<>>) /\ start # Stop
    <2>1. PICK chain : chain = Sectors(file, start, limit)
      OBVIOUS
    <2>2. PICK held : held = Cardinality(ChainOf(file.fat, start) \ {Stop})
      OBVIOUS
    <2>3. /\ chain.ok \in BOOLEAN /\ chain.list \in Seq(Nat)
          /\ chain.ok <=> GoodChain(file, start)
          /\ Once(chain.list)
          /\ chain.ok => Len(chain.list) = held
      BY <1>2, <2>1, <2>2, SectorsAre DEF GoodChain
    <2>4. stream = IF chain.ok THEN [ok |-> TRUE, list |-> Cut(Whole(chain.list), size)] ELSE Unread
      BY <1>1, <1>2, <1>12, <2>1 DEF Stream
    <2>5. CASE chain.ok
      <3>1. PICK list \in Seq(Nat) : list = chain.list /\ Once(list)
        BY <2>3
      <3>2. PICK bytes \in Seq(Bytes) : bytes = Whole(list) /\ Once(bytes) /\ Len(bytes) = FullSector * Len(list)
        BY ONLY <3>1, WholeIs
      <3>3. PICK cut : cut = Cut(bytes, size)
        OBVIOUS
      <3>4. cut \in Seq(Bytes) /\ Once(cut) /\ Len(cut) <= size /\ Len(cut) = Min({Len(bytes), size})
        BY ONLY <3>2, <3>3, size \in Nat, CutIs
      <3>5. stream.ok = TRUE /\ stream.list = cut
        BY <2>4, <2>5, <3>1, <3>2, <3>3
      <3>6. Len(bytes) = Held(file, start)
        BY ONLY <2>2, <2>3, <2>5, <3>1, <3>2 DEF Held
      <3>7. Min({Len(bytes), size}) = Min({size, Held(file, start)})
        BY ONLY <3>6, {Len(bytes), size} = {size, Len(bytes)}
      <3> QED
        BY ONLY <2>3, <2>5, <3>4, <3>5, <3>7
    <2>6. CASE ~chain.ok
      <3>1. stream = Unread
        BY <2>4, <2>6
      <3> QED
        BY ONLY <1>7, <1>12, <1>8, <2>3, <2>6, <3>1
    <2> QED
      BY <2>3, <2>5, <2>6
  <1> QED
    BY <1>9, <1>10, <1>11, <1>12

\* A compound file is read or it is refused (document.py:389-502).
THEOREM EveryCompoundFileIsReadOrRefused ==
  ASSUME NEW file, IsCompound(file)
  PROVE  CompoundIsReadOrRefused(file)
  <1>1. PICK limit \in Nat : limit = MaxComponents
    BY CompoundAssumption
  <1>2. PICK directory : directory = Sectors(file, file.firstDir, limit)
    OBVIOUS
  <1>3. file.firstDir \in Links
    BY DEF IsCompound
  <1>4. PICK list \in Seq(Nat) : /\ list = directory.list
                                 /\ \A i \in DOMAIN list : list[i] \in 0 .. file.sectors - 1
    BY <1>2, <1>3, SectorsAre
  <1>5. directory.ok <=> GoodChain(file, file.firstDir)
    BY <1>1, <1>2, <1>3, SectorsAre DEF GoodChain
  <1>6. PICK slots \in Seq(DirectoryEntries) : slots = Slots(file, list)
    BY <1>4, SlotsAre
  <1>7. PICK root : root = RootOf(slots)
    OBVIOUS
  <1>8. /\ \A id \in InUse(slots) : slots[id] \in DirectoryEntries
        /\ root # Stop => root \in InUse(slots)
    BY <1>4, <1>6, <1>7, SlotsAre
  <1>9. PICK table, own : table = SmallTable(file) /\ own = OwnStream(file, slots)
    OBVIOUS
  <1>10. PICK small \in Seq(Links), bytes \in Seq(Bytes) : /\ small = table.list
                                                           /\ bytes = own.list /\ Once(bytes)
    BY <1>7, <1>8, <1>9, SmallTableIs, OwnStreamIs
  <1>11. PICK streams : streams = [id \in InUse(slots) |-> Stream(file, slots[id], small, bytes)]
    OBVIOUS
  <1>12. PICK parsed : parsed = ParseCfb(file)
    OBVIOUS
  <1> DEFINE ok == /\ file.geometry
                   /\ directory.ok /\ Cardinality(InUse(slots)) <= MaxComponents
                   /\ table.ok /\ own.ok /\ \A id \in InUse(slots) : streams[id].ok
  <1>13. /\ parsed.outcome = IF ok THEN "parsed" ELSE "refused"
         /\ parsed.slots = slots
         /\ parsed.placed = IF root = Stop THEN <<>> ELSE AssignTree(slots, slots[root].child)
         /\ parsed.data = [id \in InUse(slots) |-> streams[id].list]
    BY <1>1, <1>2, <1>4, <1>6, <1>7, <1>9, <1>10, <1>11, <1>12 DEF ParseCfb
  <1>14. ASSUME NEW id \in InUse(slots), NEW entry, entry = slots[id], NEW stream, stream = streams[id]
         PROVE  /\ parsed.data[id] = stream.list
                /\ stream.ok \in BOOLEAN /\ stream.list \in Seq(Bytes) /\ Once(stream.list)
                /\ Len(stream.list) <= entry.size
                /\ ~stream.ok => /\ Wanted(entry)
                                 /\ \/ entry.start # Stop /\ ~GoodChain(file, entry.start)
                                    \/ /\ entry.size < MiniCutoff
                                       /\ ~SoundChain(small, entry.start, MaxComponents)
                /\ stream.ok /\ Wanted(entry) /\ entry.size >= MiniCutoff =>
                      /\ GoodChain(file, entry.start)
                      /\ Len(stream.list) = Min({entry.size, Held(file, entry.start)})
    <2>1. entry \in DirectoryEntries /\ stream = Stream(file, entry, small, bytes)
      BY <1>8, <1>11, <1>14
    <2>2. parsed.data[id] = stream.list
      BY <1>13, <1>14
    <2> QED
      BY ONLY IsCompound(file), small \in Seq(Links), bytes \in Seq(Bytes), <1>10, <2>1, <2>2, StreamIs
  <1>15. PICK wanted : wanted = {id \in InUse(slots) : Wanted(slots[id])}
    OBVIOUS
  <1>16. PICK large : large = {id \in wanted : slots[id].size >= MiniCutoff}
    OBVIOUS
  <1>17. ASSUME ok PROVE GoodChain(file, file.firstDir)
    BY <1>5, <1>17
  <1>18. ASSUME ok, NEW id \in large
         PROVE  /\ GoodChain(file, slots[id].start)
                /\ Len(parsed.data[id]) = Min({slots[id].size, Held(file, slots[id].start)})
    <2>1. id \in InUse(slots) /\ Wanted(slots[id]) /\ slots[id].size >= MiniCutoff
      BY ONLY <1>15, <1>16, id \in large
    <2>2. streams[id].ok
      BY <1>18, <2>1
    <2>3. PICK entry, stream : entry = slots[id] /\ stream = streams[id]
      OBVIOUS
    <2>4. /\ parsed.data[id] = stream.list
          /\ stream.ok /\ Wanted(entry) /\ entry.size >= MiniCutoff =>
                /\ GoodChain(file, entry.start)
                /\ Len(stream.list) = Min({entry.size, Held(file, entry.start)})
      BY ONLY <1>14, <2>1, <2>3
    <2> QED
      BY ONLY <2>1, <2>2, <2>3, <2>4
  <1>19. ASSUME NEW id \in wanted
         PROVE  /\ Len(parsed.data[id]) <= slots[id].size
                /\ Cardinality(Range(parsed.data[id])) = Len(parsed.data[id])
    <2>1. id \in InUse(slots)
      BY <1>15
    <2>2. PICK data : data = parsed.data[id] /\ data \in Seq(Bytes) /\ Once(data) /\ Len(data) <= slots[id].size
      BY <1>14, <2>1
    <2> QED
      BY ONLY <2>2, OnceIsCounted
  <1>20. ASSUME root # Stop
         PROVE  /\ Cardinality(Range(parsed.placed)) = Len(parsed.placed)
                /\ Range(parsed.placed) = LinkedEntries(slots, slots[root].child)
    <2>1. PICK first \in Links : first = slots[root].child
      BY <1>8, <1>20 DEF DirectoryEntries
    <2>2. parsed.placed = AssignTree(slots, first)
      BY <1>13, <1>20, <2>1
    <2> QED
      BY ONLY slots \in Seq(DirectoryEntries), first \in Links, <2>1, <2>2, TreeIs
  <1>21. ASSUME file.geometry, ~ok, GoodChain(file, file.firstDir)
         PROVE  \/ ~(Cardinality(InUse(slots)) <= MaxComponents)
                \/ \E id \in wanted : slots[id].start # Stop /\ ~GoodChain(file, slots[id].start)
                \/ ~table.ok \/ ~own.ok
                \/ \E id \in wanted \ large : ~SoundChain(small, slots[id].start, MaxComponents)
    <2> SUFFICES ASSUME NEW id \in InUse(slots), ~streams[id].ok
                 PROVE  \/ \E i \in wanted : slots[i].start # Stop /\ ~GoodChain(file, slots[i].start)
                        \/ \E i \in wanted \ large : ~SoundChain(small, slots[i].start, MaxComponents)
      BY <1>5, <1>21
    <2>1. /\ Wanted(slots[id])
          /\ \/ slots[id].start # Stop /\ ~GoodChain(file, slots[id].start)
             \/ /\ slots[id].size < MiniCutoff
                /\ ~SoundChain(small, slots[id].start, MaxComponents)
      BY <1>14
    <2>2. id \in wanted
      BY <1>15, <2>1
    <2>3. slots[id].size < MiniCutoff => id \notin large
      <3>1. PICK size \in Nat, cutoff \in Nat : size = slots[id].size /\ cutoff = MiniCutoff
        BY <1>8, CompoundAssumption DEF DirectoryEntries
      <3>2. size < cutoff => ~(size >= cutoff)
        BY ONLY size \in Nat, cutoff \in Nat
      <3> QED
        BY <1>16, <3>1, <3>2
    <2> QED
      BY ONLY <2>1, <2>2, <2>3
  <1>22. ~(Cardinality(InUse(slots)) <= MaxComponents) => Cardinality(InUse(slots)) > MaxComponents
    <2>1. PICK n \in Nat : n = Len(slots) /\ DOMAIN slots = 1 .. n
      OBVIOUS
    <2>2. IsFiniteSet(1 .. n)
      BY ONLY n \in Nat, IntervalIsFinite
    <2>3. InUse(slots) \subseteq 1 .. n
      BY <2>1 DEF InUse
    <2>4. IsFiniteSet(InUse(slots))
      BY ONLY <2>2, <2>3, FS_Subset
    <2>5. Cardinality(InUse(slots)) \in Nat
      BY ONLY <2>4, FS_CardinalityType
    <2> QED
      BY <1>1, <2>5
  <1>23. /\ parsed.outcome = "parsed" <=> ok
         /\ parsed.outcome = "refused" <=> ~ok
    BY <1>13
  <1> HIDE DEF ok
  <1>24. wanted = {id \in InUse(slots) : slots[id].kind = "stream" /\ slots[id].size \in 1 .. MaxStream}
    BY <1>15 DEF Wanted
  <1>25. parsed.slots = slots
    BY <1>13
  <1>26. ReadOrRefused(file, parsed)
    BY ONLY <1>7, <1>9, <1>10, <1>16, <1>17, <1>18, <1>19, <1>20, <1>21, <1>22, <1>23, <1>24, <1>25
       DEF ReadOrRefused, GoodChain, Held
  <1> QED
    BY ONLY <1>12, <1>26 DEF CompoundIsReadOrRefused
=============================================================================
