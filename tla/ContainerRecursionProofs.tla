--------------------- MODULE ContainerRecursionProofs ---------------------
(***************************************************************************)
(* Theorems about ContainerRecursion, for any contents, however they hold  *)
(* each other, and any budgets: the calls nest within the recursion depth, *)
(* the job stays within its budgets of children and bytes, the graph it    *)
(* reports is the one it walked, the usage counters are what was           *)
(* materialised, and the partitions of a job keep their common limit as    *)
(* long as no partition holds a partition table.                           *)
(***************************************************************************)
EXTENDS ContainerRecursion, FiniteSetTheorems, InductionFacts

Calls == [node : Nat, depth : Nat, next : Nat, charge : Nat]
DerivedObjects == [object : Objects, parent : Nat, index : Nat, depth : Nat]

(***************************************************************************)
(* The three things that happen to the call stack.                         *)
(***************************************************************************)

\* The loop of the innermost call moves on.
LEMMA Advanced ==
    ASSUME NEW S, NEW s \in Seq(S), s # <<>>, NEW x \in S,
           NEW t, t = <<x>> \o Tail(s)
    PROVE  /\ t \in Seq(S) /\ t # <<>> /\ Len(t) = Len(s) /\ t[1] = x
           /\ \A i \in 2..Len(t) : t[i] = s[i]
    OBVIOUS

\* The innermost call returns.
LEMMA Returned ==
    ASSUME NEW S, NEW s \in Seq(S), s # <<>>, NEW t, t = Tail(s)
    PROVE  /\ t \in Seq(S) /\ Len(t) = Len(s) - 1
           /\ \A i \in 1..Len(t) : t[i] = s[i + 1]
    OBVIOUS

\* The innermost call moves on and makes another.
LEMMA Called ==
    ASSUME NEW S, NEW s \in Seq(S), s # <<>>, NEW x \in S, NEW y \in S,
           NEW t, t = <<y>> \o (<<x>> \o Tail(s))
    PROVE  /\ t \in Seq(S) /\ t # <<>> /\ Len(t) = Len(s) + 1 /\ t[1] = y /\ t[2] = x
           /\ \A i \in 3..Len(t) : t[i] = s[i - 1]
    OBVIOUS

LEMMA Appended ==
    ASSUME NEW S, NEW s \in Seq(S), NEW x \in S, NEW t, t = Append(s, x)
    PROVE  /\ t \in Seq(S) /\ Len(t) = Len(s) + 1 /\ t[Len(t)] = x
           /\ \A i \in 1..Len(s) : t[i] = s[i]
    OBVIOUS

(***************************************************************************)
(* Every step of the walk does one of five things to calls and graph.      *)
(***************************************************************************)

Advance ==
    /\ stack # <<>>
    /\ Top.next = 0 => Top.depth < MaxRecursionDepth
    /\ stack' = <<[Top EXCEPT !.next = @ + 1]>> \o Tail(stack)
    /\ derived' = derived

Leave == stack # <<>> /\ stack' = Tail(stack) /\ derived' = derived
GiveUp == stack' = <<>> /\ derived' = derived
Stay == stack' = stack /\ derived' = derived

Found == [object |-> Member.object, parent |-> Top.node, index |-> Top.next,
          depth |-> Top.depth + 1]

Take ==
    /\ stack # <<>>
    /\ Top.next \in 1..Len(Parent.members)
    /\ Member \in Members
    /\ derived' = Append(derived, Found)
    /\ \/ stack' = <<[Top EXCEPT !.next = @ + 1]>> \o Tail(stack)
       \/ /\ Top.depth + 1 < MaxRecursionDepth
          /\ \E charge \in Nat :
                stack' = <<Frame(Len(derived) + 1, Top.depth + 1, charge)>>
                           \o (<<[Top EXCEPT !.next = @ + 1]>> \o Tail(stack))

Kinds == Advance \/ Leave \/ GiveUp \/ Stay \/ Take

\* What the calls are like: the innermost is the deepest, and only containers above the
\* depth limit are opened.
Nested ==
    \A i \in 1..Len(stack) :
        /\ stack[i].depth = Len(stack) - i
        /\ stack[i].depth = DepthOf(stack[i].node)
        /\ stack[i].next > 0 => stack[i].depth < MaxRecursionDepth
        /\ i > 1 => stack[i].next > 0

StackInv ==
    /\ stack \in Seq(Calls)
    /\ derived \in Seq(DerivedObjects)
    /\ Len(stack) <= IF MaxRecursionDepth = 0 THEN 1 ELSE MaxRecursionDepth
    /\ \A i \in 1..Len(stack) : stack[i].node \in Nodes
    /\ Nested

LEMMA CallFields ==
    ASSUME NEW s \in Seq(Calls), NEW i \in 1..Len(s)
    PROVE  s[i] \in Calls /\ s[i].node \in Nat /\ s[i].depth \in Nat /\ s[i].next \in Nat
<1>1. s[i] \in Calls
  OBVIOUS
<1> QED BY <1>1 DEF Calls

LEMMA NextMember ==
    ASSUME NEW x \in Calls, NEW y, y = [x EXCEPT !.next = @ + 1]
    PROVE  /\ y \in Calls /\ y.node = x.node /\ y.depth = x.depth /\ y.charge = x.charge
           /\ y.next = x.next + 1 /\ x.next \in Nat /\ x.depth \in Nat /\ x.node \in Nat
    BY DEF Calls

LEMMA TopIsACall ==
    ASSUME stack \in Seq(Calls), stack # <<>>, NEW x, x = [Top EXCEPT !.next = @ + 1]
    PROVE  /\ Top \in Calls /\ Top = stack[1] /\ 1 \in 1..Len(stack)
           /\ x \in Calls /\ x.node = Top.node /\ x.depth = Top.depth
           /\ x.next = Top.next + 1 /\ Top.next \in Nat /\ Top.depth \in Nat
<1>1. Top \in Calls /\ Top = stack[1] /\ 1 \in 1..Len(stack)
  BY DEF Top
<1> QED BY <1>1, NextMember

LEMMA AdvanceNests == ASSUME StackInv, Advance PROVE StackInv'
<1> DEFINE x == [Top EXCEPT !.next = @ + 1]
<1> HIDE DEF x
<1>1. /\ Top \in Calls /\ Top = stack[1] /\ 1 \in 1..Len(stack) /\ x \in Calls
      /\ x.node = Top.node /\ x.depth = Top.depth /\ x.next = Top.next + 1
      /\ Top.next \in Nat /\ Top.depth \in Nat
  BY TopIsACall DEF StackInv, Advance, x
<1>2. /\ stack' \in Seq(Calls) /\ Len(stack') = Len(stack) /\ stack'[1] = x
      /\ \A i \in 2..Len(stack') : stack'[i] = stack[i]
  BY <1>1, Advanced DEF StackInv, Advance, x
<1>3. Top.depth < MaxRecursionDepth
  <2>1. Top.next > 0 => Top.depth < MaxRecursionDepth
    BY <1>1 DEF StackInv, Nested
  <2> QED BY <1>1, <2>1 DEF Advance
<1>4. \A i \in 1..Len(stack') : stack'[i].node \in Nodes'
  <2>1. Nodes' = Nodes
    BY DEF Advance, Nodes
  <2> QED BY <1>1, <1>2, <2>1 DEF StackInv
<1>5. Nested'
  <2> SUFFICES ASSUME NEW i \in 1..Len(stack')
               PROVE  /\ stack'[i].depth = Len(stack') - i
                      /\ stack'[i].depth = DepthOf(stack[i].node)'
                      /\ stack'[i].next > 0 => stack'[i].depth < MaxRecursionDepth
                      /\ i > 1 => stack'[i].next > 0
    BY DEF Nested
  <2>1. \A n : DepthOf(n)' = DepthOf(n)
    BY DEF Advance, DepthOf
  <2>2. CASE i = 1
    BY <2>1, <2>2, <1>1, <1>2, <1>3 DEF StackInv, Nested
  <2>3. CASE i # 1
    <3>1. i \in 2..Len(stack') /\ i \in 1..Len(stack) /\ stack'[i] = stack[i]
      BY <2>3, <1>2
    <3> QED BY <2>1, <2>3, <3>1, <1>2 DEF StackInv, Nested
  <2> QED BY <2>2, <2>3
<1> QED BY <1>2, <1>4, <1>5 DEF StackInv, Advance

LEMMA LeaveNests == ASSUME StackInv, Leave PROVE StackInv'
<1>1. /\ stack' \in Seq(Calls) /\ Len(stack') = Len(stack) - 1
      /\ \A i \in 1..Len(stack') : stack'[i] = stack[i + 1]
  BY Returned DEF StackInv, Leave
<1>2. \A n : DepthOf(n)' = DepthOf(n)
  BY DEF Leave, DepthOf
<1>3. Nested'
  <2> SUFFICES ASSUME NEW i \in 1..Len(stack')
               PROVE  /\ stack'[i].depth = Len(stack') - i
                      /\ stack'[i].depth = DepthOf(stack[i].node)'
                      /\ stack'[i].next > 0 => stack'[i].depth < MaxRecursionDepth
                      /\ i > 1 => stack'[i].next > 0
    BY DEF Nested
  <2>1. i + 1 \in 1..Len(stack) /\ stack'[i] = stack[i + 1]
    BY <1>1 DEF StackInv
  <2>2. /\ stack[i + 1].depth = Len(stack) - (i + 1)
        /\ stack[i + 1].depth = DepthOf(stack[i + 1].node)
        /\ stack[i + 1].next > 0 => stack[i + 1].depth < MaxRecursionDepth
        /\ stack[i + 1].next > 0
    BY <2>1 DEF StackInv, Nested
  <2>3. stack[i + 1].depth = DepthOf(stack[i].node)'
    BY <2>1, <2>2 DEF Leave, DepthOf
  <2> QED BY <1>1, <2>1, <2>2, <2>3 DEF StackInv
<1>4. Len(stack') <= IF MaxRecursionDepth = 0 THEN 1 ELSE MaxRecursionDepth
  BY <1>1, BudgetAssumption DEF StackInv
<1> QED BY <1>1, <1>3, <1>4 DEF StackInv, Leave, Nodes

LEMMA TakeNests == ASSUME StackInv, Take PROVE StackInv'
<1> DEFINE x == [Top EXCEPT !.next = @ + 1]
<1> HIDE DEF x
<1>1. /\ Top \in Calls /\ Top = stack[1] /\ 1 \in 1..Len(stack) /\ x \in Calls
      /\ x.node = Top.node /\ x.depth = Top.depth /\ x.next = Top.next + 1
      /\ Top.next \in Nat /\ Top.depth \in Nat
  BY TopIsACall DEF StackInv, Take, x
<1>2. Found \in DerivedObjects /\ Found.depth = Top.depth + 1
  BY <1>1 DEF Take, Found, DerivedObjects, Members, Calls
<1>3. /\ derived' \in Seq(DerivedObjects) /\ Len(derived') = Len(derived) + 1
      /\ derived'[Len(derived) + 1] = Found
      /\ \A n \in 1..Len(derived) : derived'[n] = derived[n]
  BY <1>2, Appended DEF StackInv, Take
<1>4. \A n \in Nodes : n \in Nodes' /\ DepthOf(n)' = DepthOf(n)
  BY <1>3 DEF StackInv, DepthOf, Nodes
<1>5. /\ Len(derived) + 1 \in Nodes'
      /\ derived'[Len(derived) + 1].depth = Top.depth + 1
      /\ Len(derived) + 1 # 0
  BY <1>2, <1>3 DEF StackInv, DepthOf, Nodes
<1>6. Top.depth < MaxRecursionDepth /\ Top.depth = Len(stack) - 1
  BY <1>1 DEF StackInv, Take, Nested
<1>7. CASE stack' = <<x>> \o Tail(stack)
  <2>1. /\ stack' \in Seq(Calls) /\ Len(stack') = Len(stack) /\ stack'[1] = x
        /\ \A i \in 2..Len(stack') : stack'[i] = stack[i]
    BY <1>1, <1>7, Advanced DEF StackInv, Take
  <2>2. \A i \in 1..Len(stack') : stack'[i].node \in Nodes'
    BY <1>1, <1>4, <2>1 DEF StackInv
  <2>3. ASSUME NEW i \in 1..Len(stack')
        PROVE  /\ stack'[i].depth = Len(stack') - i
               /\ stack'[i].depth = DepthOf(stack[i].node)'
               /\ stack'[i].next > 0 => stack'[i].depth < MaxRecursionDepth
               /\ i > 1 => stack'[i].next > 0
    <3>1. CASE i = 1
      BY <3>1, <1>1, <1>4, <1>6, <2>1 DEF StackInv, Nested
    <3>2. CASE i # 1
      <4>1. i \in 2..Len(stack') /\ i \in 1..Len(stack) /\ stack'[i] = stack[i]
        BY <3>2, <2>1
      <4> QED BY <3>2, <4>1, <1>4, <2>1 DEF StackInv, Nested
    <3> QED BY <3>1, <3>2
  <2> QED BY <1>3, <2>1, <2>2, <2>3 DEF StackInv, Nested
<1>8. ASSUME NEW charge \in Nat, Top.depth + 1 < MaxRecursionDepth,
             stack' = <<Frame(Len(derived) + 1, Top.depth + 1, charge)>>
                        \o (<<x>> \o Tail(stack))
      PROVE  StackInv'
  <2> DEFINE y == Frame(Len(derived) + 1, Top.depth + 1, charge)
  <2>1. /\ y \in Calls /\ y.node = Len(derived) + 1 /\ y.depth = Top.depth + 1
        /\ y.next = 0
    <3>1. Len(derived) + 1 \in Nat /\ Top.depth + 1 \in Nat
      BY <1>1 DEF StackInv
    <3> QED BY <3>1, <1>8 DEF Frame, Calls
  <2> HIDE DEF y
  <2>2. /\ stack' \in Seq(Calls) /\ Len(stack') = Len(stack) + 1
        /\ stack'[1] = y /\ stack'[2] = x
        /\ \A i \in 3..Len(stack') : stack'[i] = stack[i - 1]
    <3>1. stack \in Seq(Calls) /\ stack # <<>>
      BY <1>1 DEF StackInv
    <3>2. stack' = <<y>> \o (<<x>> \o Tail(stack)) /\ y \in Calls /\ x \in Calls
      BY <1>1, <1>8, <2>1 DEF y
    <3> QED BY ONLY <3>1, <3>2, Called
  <2>3. ASSUME NEW i \in 1..Len(stack')
        PROVE  /\ stack'[i].node \in Nodes'
               /\ stack'[i].depth = Len(stack') - i
               /\ stack'[i].depth = DepthOf(stack[i].node)'
               /\ stack'[i].next > 0 => stack'[i].depth < MaxRecursionDepth
               /\ i > 1 => stack'[i].next > 0
    <3>1. CASE i = 1
      <4>1. DepthOf(stack[i].node)' = Top.depth + 1
        BY <3>1, <1>5, <2>1, <2>2 DEF DepthOf
      <4> QED BY <3>1, <4>1, <1>1, <1>5, <1>6, <2>1, <2>2 DEF StackInv
    <3>2. CASE i = 2
      BY <3>2, <1>1, <1>4, <1>6, <2>2 DEF StackInv, Nested
    <3>3. CASE i > 2
      <4>1. stack'[i] = stack[i - 1] /\ i - 1 \in 1..Len(stack) /\ i - 1 > 1
        BY <3>3, <2>2 DEF StackInv
      <4>2. PICK k \in 1..Len(stack) : k = i - 1 /\ k > 1
        BY <4>1
      <4>3. PICK call : call = stack[k] /\ call = stack'[i]
        BY ONLY <4>1, <4>2
      <4>4. /\ call.node \in Nodes /\ call.depth = Len(stack) - k
            /\ call.depth = DepthOf(call.node) /\ call.next > 0
            /\ call.next > 0 => call.depth < MaxRecursionDepth
        BY <4>2, <4>3 DEF StackInv, Nested
      <4>5. call.node \in Nodes' /\ call.depth = DepthOf(call.node)'
        BY <1>4, <4>4
      <4>6. Len(stack') - i = Len(stack) - k
        BY <2>2, <4>2 DEF StackInv
      <4> QED BY <4>3, <4>4, <4>5, <4>6 DEF DepthOf
    <3> QED BY <2>2, <3>1, <3>2, <3>3
  <2>4. Len(stack') <= IF MaxRecursionDepth = 0 THEN 1 ELSE MaxRecursionDepth
    BY <1>1, <1>6, <1>8, <2>2, BudgetAssumption DEF StackInv
  <2> QED BY <1>3, <2>2, <2>3, <2>4 DEF StackInv, Nested
<1> QED BY <1>7, <1>8 DEF Take, x

LEMMA KindsNest == ASSUME StackInv, Kinds PROVE StackInv'
<1>1. CASE GiveUp
  BY <1>1, BudgetAssumption DEF GiveUp, StackInv, Nested, Nodes
<1>2. CASE Stay
  BY <1>2 DEF Stay, StackInv, Nested, Nodes, DepthOf
<1> QED BY <1>1, <1>2, AdvanceNests, LeaveNests, TakeNests DEF Kinds

(***************************************************************************)
(* TypeOK, and which kind each action is.                                  *)
(***************************************************************************)

\* While the walk lasts, the counter that numbers the files is that of the derived objects.
Counted == outcome = "walking" => materialized = Len(derived)

WalkInv == content \in Contents /\ TypeOK /\ Nested /\ Counted

LEMMA WalkIsStackInv == ASSUME WalkInv PROVE StackInv
BY DEF WalkInv, TypeOK, StackInv, Calls, DerivedObjects

\* While the walk goes on there is an innermost call, on an object of a known content.
LEMMA WhileWalking ==
    ASSUME WalkInv, outcome = "walking"
    PROVE  /\ stack # <<>> /\ Top \in Calls /\ Top = stack[1] /\ 1 \in 1..Len(stack)
           /\ Top.next \in Nat /\ Top.depth \in Nat /\ Top.charge \in Nat
           /\ Top.node \in Nodes /\ ObjectOf(Top.node) \in Objects
           /\ Parent \in ContentType /\ WellFormed(Parent)
           /\ Parent.bytes \in Nat /\ Parent.partial \in Completeness
           /\ Parent.members \in Seq(Members)
<1>1. stack \in Seq(Calls) /\ stack # <<>>
  BY DEF WalkInv, TypeOK, Calls
<1>2. Top \in Calls /\ Top = stack[1] /\ 1 \in 1..Len(stack)
  BY <1>1 DEF Top
<1>3. Top.next \in Nat /\ Top.depth \in Nat /\ Top.charge \in Nat
  BY <1>2 DEF Calls
<1>4. Top.node \in Nodes
  BY <1>1, <1>2 DEF WalkInv, TypeOK
<1>5. ObjectOf(Top.node) \in Objects
  <2>1. CASE Top.node = 0
    BY <2>1, RootAssumption DEF ObjectOf
  <2>2. CASE Top.node # 0
    <3>1. derived \in Seq(DerivedObjects) /\ Top.node \in 1..Len(derived)
      BY <2>2, <1>4 DEF WalkInv, TypeOK, Nodes, DerivedObjects
    <3>2. derived[Top.node] \in DerivedObjects
      BY <3>1
    <3> QED BY <2>2, <3>2 DEF ObjectOf, DerivedObjects
  <2> QED BY <2>1, <2>2
<1>6. Parent \in ContentType /\ WellFormed(Parent)
  BY <1>5, ContentsAssumption DEF WalkInv, Parent
<1>7. /\ Parent.bytes \in Nat /\ Parent.partial \in Completeness
      /\ Parent.members \in Seq(Members)
  BY <1>6 DEF ContentType
<1> QED BY <1>1, <1>2, <1>3, <1>4, <1>5, <1>6, <1>7

\* In the loop there is a member.
LEMMA InTheLoop ==
    ASSUME WalkInv, InLoop
    PROVE  /\ Top.next \in 1..Len(Parent.members)
           /\ Member \in Members /\ Member.object \in Objects
           /\ Child \in ContentType /\ WellFormed(Child) /\ Child.bytes \in Nat
<1>1. Parent.members \in Seq(Members) /\ Top.next \in Nat
  BY WhileWalking DEF InLoop
<1>2. Top.next \in 1..Len(Parent.members)
  BY <1>1 DEF InLoop
<1>3. Member \in Members
  BY <1>1, <1>2 DEF Member
<1>4. Member.object \in Objects
  BY <1>3 DEF Members
<1>5. Child \in ContentType /\ WellFormed(Child)
  BY <1>4, ContentsAssumption DEF WalkInv, Child
<1>6. Child.bytes \in Nat
  BY <1>5 DEF ContentType
<1> QED BY <1>2, <1>3, <1>4, <1>5, <1>6

LEMMA ActionKinds ==
    ASSUME WalkInv, [Next]_vars
    PROVE  Kinds /\ content' = content
<1>1. CASE TurnAway
  BY <1>1, WhileWalking DEF TurnAway, Opening, Return, Leave, Kinds
<1>2. CASE OpenLeaf
  BY <1>2, WhileWalking DEF OpenLeaf, Opening, Return, Leave, Kinds
<1>3. CASE FailToOpen
  BY <1>3 DEF FailToOpen, Abort, GiveUp, Kinds
<1>4. CASE OpenContainer
  <2>1. Top.next = 0 /\ Top.depth < MaxRecursionDepth /\ stack # <<>> /\ 0 + 1 = 1
    BY <1>4, WhileWalking DEF OpenContainer, Opening
  <2>2. stack' = <<[Top EXCEPT !.next = 1]>> \o Tail(stack)
    BY <1>4 DEF OpenContainer
  <2>3. [Top EXCEPT !.next = 1] = [Top EXCEPT !.next = @ + 1]
    BY <2>1
  <2> QED BY <1>4, <2>1, <2>2, <2>3 DEF OpenContainer, Advance, Kinds
<1>5. CASE EndLoop
  BY <1>5, WhileWalking DEF EndLoop, Return, Leave, Kinds
<1>6. CASE Break
  BY <1>6, WhileWalking DEF Break, InLoop, Return, Leave, Kinds
<1>7. CASE PassOver
  <2>1. stack # <<>> /\ Top.next # 0
    BY <1>7, WhileWalking, InTheLoop DEF PassOver, InLoop
  <2> QED BY <1>7, <2>1 DEF PassOver, Skip, Advance, Kinds
<1>8. CASE Fail
  BY <1>8 DEF Fail, Abort, GiveUp, Kinds
<1>9. CASE TakeMember
  <2>1. /\ stack # <<>> /\ Top.depth \in Nat /\ Top.next \in 1..Len(Parent.members)
        /\ Member \in Members /\ Child.bytes \in Nat
    BY <1>9, WhileWalking, InTheLoop DEF TakeMember, InLoop
  <2>2. Charge \in Nat
    BY <2>1 DEF Charge
  <2>3. derived' = Append(derived, Found) /\ content' = content
    BY <1>9 DEF TakeMember, Found
  <2>4. CASE TooDeep(Top.depth + 1)
    <3>1. stack' = <<[Top EXCEPT !.next = @ + 1]>> \o Tail(stack)
      BY <1>9, <2>4 DEF TakeMember
    <3> QED BY <2>1, <2>3, <3>1 DEF Take, Kinds
  <2>5. CASE ~TooDeep(Top.depth + 1)
    <3>1. Top.depth + 1 < MaxRecursionDepth
      BY <2>1, <2>5, BudgetAssumption DEF TooDeep
    <3>2. stack' = <<Frame(Len(derived) + 1, Top.depth + 1, Charge)>>
                     \o (<<[Top EXCEPT !.next = @ + 1]>> \o Tail(stack))
      BY <1>9, <2>5 DEF TakeMember
    <3> QED BY <2>1, <2>2, <2>3, <3>1, <3>2 DEF Take, Kinds
  <2> QED BY <2>4, <2>5
<1>10. CASE Expire
  BY <1>10 DEF Expire, Stay, Kinds
<1>11. CASE UNCHANGED vars
  BY <1>11 DEF vars, Stay, Kinds
<1>12. CASE Overlook
  <2>1. stack # <<>> /\ Top.next # 0
    BY <1>12, WhileWalking, InTheLoop DEF Overlook, InLoop
  <2> QED BY <1>12, <2>1 DEF Overlook, Skip, Advance, Kinds
<1> QED
  BY <1>1, <1>2, <1>3, <1>4, <1>5, <1>6, <1>7, <1>8, <1>9, <1>10, <1>11, <1>12
  DEF Next, Ended

\* The variables that are not calls or graph.
Plain ==
    /\ late \in BOOLEAN
    /\ discovered \in Nat /\ materialized \in Nat /\ extracted \in Nat /\ partitioned \in Nat
    /\ completeness \in Completeness
    /\ files \subseteq Nat
    /\ outcome \in {"walking", "done", "raised"}
    /\ outcome = "walking" <=> stack # <<>>

LEMMA ReturnIsPlain ==
    ASSUME WalkInv, outcome = "walking", NEW c \in Completeness, NEW e, Return(c, e),
           late' = late, discovered' \in Nat, materialized' = materialized,
           extracted' = extracted
    PROVE  Plain'
<1>1. Verdict(c, e) \in Completeness
  BY DEF Verdict, Completeness
<1>2. Top.charge \in Nat /\ partitioned \in Nat /\ files \subseteq Nat
  BY WhileWalking DEF WalkInv, TypeOK
<1>3. completeness' \in Completeness /\ partitioned' \in Nat /\ files' \subseteq Nat
  <2>1. partitioned' = partitioned + Top.charge
    BY DEF Return
  <2>2. completeness' = c \/ completeness' = Verdict(c, e)
    BY DEF Return
  <2>3. files' = {} \/ files' = files
    BY DEF Return
  <2>4. files' \subseteq Nat
    BY <1>2, <2>3
  <2>5. partitioned' \in Nat
    BY <1>2, <2>1
  <2>6. completeness' \in Completeness
    BY <1>1, <2>2
  <2> QED BY <2>4, <2>5, <2>6
<1>4. outcome' \in {"walking", "done", "raised"} /\ (outcome' = "walking" <=> stack' # <<>>)
  BY DEF Return
<1> QED BY <1>3, <1>4 DEF Plain, WalkInv, TypeOK

LEMMA AbortIsPlain ==
    ASSUME WalkInv, NEW caught \in BOOLEAN, Abort(caught), discovered' \in Nat,
           materialized' \in Nat, extracted' \in Nat
    PROVE  Plain'
BY DEF Abort, WalkInv, TypeOK, Plain, Completeness

LEMMA SkipIsPlain ==
    ASSUME WalkInv, outcome = "walking", NEW e, NEW left \in SUBSET Nat, Skip(e, left),
           discovered' \in Nat
    PROVE  Plain'
<1>1. stack \in Seq(Calls) /\ stack # <<>>
  BY WalkIsStackInv, WhileWalking DEF StackInv
<1>2. [Top EXCEPT !.next = @ + 1] \in Calls
  BY <1>1, TopIsACall
<1>3. stack' # <<>>
  BY <1>1, <1>2, Advanced DEF Skip
<1>4. files \subseteq Nat /\ files' = files \cup left
  BY DEF WalkInv, TypeOK, Skip
<1>5. files' \subseteq Nat
  BY <1>4
<1> QED BY <1>3, <1>5 DEF Skip, Plain, WalkInv, TypeOK

LEMMA ParseVerdictIsOne ==
    ASSUME WalkInv, outcome = "walking"
    PROVE  ParseVerdict \in Completeness
BY WhileWalking DEF ParseVerdict, WalkInv, TypeOK, Completeness

LEMMA StepIsPlain == ASSUME WalkInv, [Next]_vars PROVE Plain'
<1>0. /\ late \in BOOLEAN /\ discovered \in Nat /\ extracted \in Nat /\ partitioned \in Nat
      /\ completeness \in Completeness /\ files \subseteq Nat
      /\ materialized \in Nat /\ discovered + 1 \in Nat /\ materialized + 1 \in Nat
  BY DEF WalkInv, TypeOK
<1>1. CASE TurnAway
  BY <1>0, <1>1, ReturnIsPlain DEF TurnAway, Opening
<1>2. CASE OpenLeaf
  <2>1. /\ ParseVerdict \in Completeness
        /\ "PARTIAL_ERROR" \in Completeness /\ "PARTIAL_UNSUPPORTED" \in Completeness
    BY <1>2, ParseVerdictIsOne DEF OpenLeaf, Opening, Completeness
  <2> QED BY <1>0, <1>2, <2>1, ReturnIsPlain DEF OpenLeaf, Opening
<1>3. CASE FailToOpen
  BY <1>0, <1>3, AbortIsPlain DEF FailToOpen
<1>4. CASE OpenContainer
  <2>1. /\ stack \in Seq(Calls) /\ stack # <<>> /\ Top.next = 0 /\ 0 + 1 = 1
        /\ outcome = "walking"
    BY <1>4, WalkIsStackInv, WhileWalking DEF StackInv, OpenContainer, Opening
  <2>2. [Top EXCEPT !.next = @ + 1] \in Calls
    BY <2>1, TopIsACall
  <2>3. stack' = <<[Top EXCEPT !.next = @ + 1]>> \o Tail(stack)
    BY <1>4, <2>1 DEF OpenContainer
  <2>4. stack' # <<>>
    BY <2>1, <2>2, <2>3, Advanced
  <2>5. ParseVerdict \in Completeness
    BY <2>1, ParseVerdictIsOne
  <2> QED BY <1>0, <1>4, <2>1, <2>4, <2>5 DEF OpenContainer, Plain
<1>5. CASE EndLoop
  BY <1>0, <1>5, ReturnIsPlain DEF EndLoop
<1>6. CASE Break
  BY <1>0, <1>6, ReturnIsPlain DEF Break, InLoop
<1>7. CASE PassOver
  <2>1. {} \in SUBSET Nat
    OBVIOUS
  <2> QED BY <1>0, <1>7, <2>1, SkipIsPlain DEF PassOver, InLoop, LeftByMaterialize
<1>8. CASE Fail
  <2>1. extracted + Child.bytes \in Nat
    BY <1>0, <1>8, InTheLoop DEF Fail
  <2>2. discovered' \in Nat /\ materialized' \in Nat /\ extracted' \in Nat
    BY <1>0, <1>8, <2>1 DEF Fail
  <2>3. \E caught \in BOOLEAN : Abort(caught)
    BY <1>8 DEF Fail
  <2> QED BY <2>2, <2>3, AbortIsPlain
<1>9. CASE TakeMember
  <2>1. /\ stack \in Seq(Calls) /\ stack # <<>> /\ derived \in Seq(DerivedObjects)
        /\ Child.bytes \in Nat /\ Top.depth \in Nat /\ outcome = "walking"
    BY <1>9, WalkIsStackInv, WhileWalking, InTheLoop DEF StackInv, TakeMember, InLoop
  <2>2. [Top EXCEPT !.next = @ + 1] \in Calls
    BY <2>1, TopIsACall
  <2>3. Charge \in Nat /\ Len(derived) \in Nat
    BY <2>1 DEF Charge
  <2>4. Frame(Len(derived) + 1, Top.depth + 1, Charge) \in Calls
    BY <2>1, <2>3 DEF Frame, Calls
  <2>5. stack' # <<>> /\ partitioned' \in Nat
    <3>1. CASE TooDeep(Top.depth + 1)
      <4>1. /\ stack' = <<[Top EXCEPT !.next = @ + 1]>> \o Tail(stack)
            /\ partitioned' = partitioned + Charge
        BY <1>9, <3>1 DEF TakeMember
      <4>2. stack' # <<>>
        BY <2>1, <2>2, <4>1, Advanced
      <4> QED BY <1>0, <2>3, <4>1, <4>2
    <3>2. CASE ~TooDeep(Top.depth + 1)
      <4>1. /\ stack' = <<Frame(Len(derived) + 1, Top.depth + 1, Charge)>>
                          \o (<<[Top EXCEPT !.next = @ + 1]>> \o Tail(stack))
            /\ partitioned' = partitioned
        BY <1>9, <3>2 DEF TakeMember
      <4>2. stack' # <<>>
        BY <2>1, <2>2, <2>4, <4>1, Called
      <4> QED BY <1>0, <4>1, <4>2
    <3> QED BY <3>1, <3>2
  <2>6. files' \subseteq Nat /\ extracted' \in Nat
    <3>1. files' = files \cup {materialized} /\ extracted' = extracted + Child.bytes
      BY <1>9 DEF TakeMember
    <3>2. files' \subseteq Nat
      BY <1>0, <2>3, <3>1
    <3>3. extracted' \in Nat
      BY <1>0, <2>1, <3>1
    <3> QED BY <3>2, <3>3
  <2> QED BY <1>0, <1>9, <2>1, <2>5, <2>6 DEF TakeMember, Plain
<1>10. CASE Expire
  BY <1>10 DEF Expire, Plain, WalkInv, TypeOK
<1>11. CASE UNCHANGED vars
  BY <1>11 DEF vars, Plain, WalkInv, TypeOK
<1>12. CASE Overlook
  <2>1. {} \in SUBSET Nat /\ discovered' \in Nat
    BY <1>0, <1>12 DEF Overlook
  <2> QED BY <1>12, <2>1, SkipIsPlain DEF Overlook, InLoop
<1> QED
  BY <1>1, <1>2, <1>3, <1>4, <1>5, <1>6, <1>7, <1>8, <1>9, <1>10, <1>11, <1>12
  DEF Next, Ended

LEMMA CountedNext == ASSUME WalkInv, [Next]_vars PROVE Counted'
<1>1. CASE TakeMember
  <2>1. derived \in Seq(DerivedObjects) /\ derived' = Append(derived, Found)
    BY <1>1, WalkIsStackInv DEF StackInv, TakeMember, Found
  <2>2. Len(derived') = Len(derived) + 1
    BY <2>1
  <2> QED BY <1>1, <2>2 DEF TakeMember, InLoop, WalkInv, Counted
<1> QED
  BY <1>1
  DEF Next, vars, TurnAway, OpenLeaf, FailToOpen, OpenContainer, EndLoop, Break, Overlook,
      PassOver, Skip, Fail, Abort, Expire, Ended, Opening, InLoop, Return, WalkInv, Counted

LEMMA WalkInvInit == ASSUME Init PROVE WalkInv
<1>1. content \in [Objects -> ContentType]
  BY ContentsAssumption DEF Init
<1>2. /\ Frame(0, 0, 0) \in Calls /\ Frame(0, 0, 0).node = 0
      /\ Frame(0, 0, 0).depth = 0 /\ Frame(0, 0, 0).next = 0
  BY DEF Frame, Calls
<1>3. /\ stack \in Seq(Calls) /\ Len(stack) = 1 /\ stack[1] = Frame(0, 0, 0)
      /\ stack # <<>>
  BY <1>2 DEF Init
<1>4. derived \in Seq(DerivedObjects) /\ Len(derived) = 0
  BY DEF Init
<1>5. Nested
  BY <1>2, <1>3 DEF Nested, DepthOf
<1>6. Len(stack) <= IF MaxRecursionDepth = 0 THEN 1 ELSE MaxRecursionDepth
  BY <1>3, BudgetAssumption
<1>7. \A i \in DOMAIN stack : stack[i].node \in Nodes
  BY <1>2, <1>3, <1>4 DEF Nodes
<1> QED
  BY <1>1, <1>3, <1>4, <1>5, <1>6, <1>7
  DEF Init, WalkInv, TypeOK, Counted, Completeness, Calls, DerivedObjects

LEMMA WalkInvNext == ASSUME WalkInv, [Next]_vars PROVE WalkInv'
<1>1. StackInv' /\ content' = content
  BY WalkIsStackInv, ActionKinds, KindsNest
<1>2. Plain'
  BY StepIsPlain
<1>3. \A i \in DOMAIN stack' : stack'[i].node \in Nodes'
  BY <1>1 DEF StackInv
<1>4. content' \in Contents /\ content' \in [Objects -> ContentType]
  BY <1>1 DEF WalkInv, TypeOK
<1>5. TypeOK'
  BY <1>1, <1>2, <1>3, <1>4 DEF TypeOK, StackInv, Plain, Calls, DerivedObjects
<1> QED BY <1>1, <1>4, <1>5, CountedNext DEF WalkInv, StackInv

\* Every variable keeps its type and _process_object never nests deeper than the
\* recursion depth, also when contents hold themselves.
THEOREM CallsStayShallow == Spec => []TypeOK
<1>1. Init => WalkInv
  BY WalkInvInit
<1>2. WalkInv /\ [Next]_vars => WalkInv'
  BY WalkInvNext
<1>3. WalkInv => TypeOK
  BY DEF WalkInv
<1> QED BY <1>1, <1>2, <1>3, PTL DEF Spec

(***************************************************************************)
(* The graph.  A call records its members in order, so what its object has *)
(* below it are members before the next one; and an object is gone into    *)
(* once, so no two calls record edges of the same node.                    *)
(***************************************************************************)

Size == 1..Len(derived)

TrueEdge(n) ==
    /\ derived[n].parent \in 0..(n - 1)
    /\ derived[n].index \in DOMAIN ParentOf(derived[n]).members
    /\ derived[n].object = ParentOf(derived[n]).members[derived[n].index].object
    /\ derived[n].depth = DepthOf(derived[n].parent) + 1

SameEdge(m, n) == derived[m].parent = derived[n].parent /\ derived[m].index = derived[n].index

EdgesBehind ==
    \A i \in 1..Len(stack) : \A n \in Size :
        derived[n].parent = stack[i].node => derived[n].index < stack[i].next

OneCallPerNode ==
    \A i, j \in 1..Len(stack) : stack[i].node = stack[j].node => i = j

EdgeInv ==
    /\ \A n \in Size : TrueEdge(n)
    /\ \A m, n \in Size : SameEdge(m, n) => m = n
    /\ EdgesBehind
    /\ OneCallPerNode

LEMMA EdgeInvIsTrue == ASSUME WalkInv, EdgeInv PROVE EdgesAreTrue
<1>1. DOMAIN derived = Size
  BY DEF WalkInv, TypeOK, Size
<1> QED BY <1>1 DEF EdgeInv, EdgesAreTrue, TrueEdge, SameEdge

\* What TakeMember adds to the graph.
LEMMA GraphGrows ==
    ASSUME WalkInv, outcome = "walking", Take, content' = content
    PROVE  /\ derived \in Seq(DerivedObjects) /\ Len(derived) \in Nat
           /\ Len(derived') = Len(derived) + 1
           /\ \A n \in Size : derived'[n] = derived[n]
           /\ derived'[Len(derived) + 1] = Found
           /\ Found.object = Member.object /\ Found.parent = Top.node
           /\ Found.index = Top.next /\ Found.depth = Top.depth + 1
           /\ Top.depth = DepthOf(Top.node) /\ Top.node \in Nodes
           /\ Parent = content[IF Top.node = 0 THEN Root ELSE derived[Top.node].object]
           /\ Top = stack[1] /\ 1 \in 1..Len(stack) /\ Top.next \in Nat
           /\ Member \in Members
<1>1. Found \in DerivedObjects
  <2>1. Top.node \in Nat /\ Top.next \in Nat /\ Top.depth + 1 \in Nat
    BY WhileWalking DEF Calls
  <2>2. Member.object \in Objects
    BY DEF Take, Members
  <2> QED BY <2>1, <2>2 DEF Found, DerivedObjects
<1>2. derived \in Seq(DerivedObjects) /\ derived' = Append(derived, Found)
  BY DEF WalkInv, TypeOK, DerivedObjects, Take
<1>3. /\ Len(derived') = Len(derived) + 1
      /\ \A n \in Size : derived'[n] = derived[n]
      /\ derived'[Len(derived) + 1] = Found
  BY <1>1, <1>2, Appended DEF Size
<1>4. /\ Found.object = Member.object /\ Found.parent = Top.node
      /\ Found.index = Top.next /\ Found.depth = Top.depth + 1
  BY DEF Found
<1>5. Top = stack[1] /\ 1 \in 1..Len(stack) /\ Top.node \in Nodes /\ Top.next \in Nat
  BY WhileWalking
<1>6. Top.depth = DepthOf(Top.node)
  BY <1>5 DEF WalkInv, Nested
<1>7. Parent = content[IF Top.node = 0 THEN Root ELSE derived[Top.node].object]
  BY DEF Parent, ObjectOf
<1>8. derived \in Seq(DerivedObjects) /\ Len(derived) \in Nat /\ Member \in Members
  BY <1>2 DEF Take
<1> QED BY <1>3, <1>4, <1>5, <1>6, <1>7, <1>8

\* The stack after TakeMember, next members and nodes only.
LEMMA CallsAfterTake ==
    ASSUME WalkInv, outcome = "walking", Take
    PROVE  \/ /\ Len(stack') = Len(stack)
              /\ stack'[1].node = Top.node /\ stack'[1].next = Top.next + 1
              /\ \A i \in 2..Len(stack') : stack'[i] = stack[i]
           \/ /\ Len(stack') = Len(stack) + 1
              /\ stack'[1].node = Len(derived) + 1 /\ stack'[1].next = 0
              /\ stack'[2].node = Top.node /\ stack'[2].next = Top.next + 1
              /\ \A i \in 3..Len(stack') : stack'[i] = stack[i - 1]
<1> DEFINE x == [Top EXCEPT !.next = @ + 1]
<1>1. stack \in Seq(Calls) /\ stack # <<>> /\ Top \in Calls /\ Len(derived) \in Nat
  BY WhileWalking, WalkIsStackInv DEF StackInv
<1>2. x \in Calls /\ x.node = Top.node /\ x.next = Top.next + 1 /\ Top.depth \in Nat
  BY <1>1, TopIsACall
<1> HIDE DEF x
<1>3. CASE stack' = <<x>> \o Tail(stack)
  BY <1>1, <1>2, <1>3, Advanced
<1>4. ASSUME NEW charge \in Nat,
             stack' = <<Frame(Len(derived) + 1, Top.depth + 1, charge)>>
                        \o (<<x>> \o Tail(stack))
      PROVE  /\ Len(stack') = Len(stack) + 1
             /\ stack'[1].node = Len(derived) + 1 /\ stack'[1].next = 0
             /\ stack'[2].node = Top.node /\ stack'[2].next = Top.next + 1
             /\ \A i \in 3..Len(stack') : stack'[i] = stack[i - 1]
  <2> DEFINE y == Frame(Len(derived) + 1, Top.depth + 1, charge)
  <2>1. /\ y \in Calls /\ y.node = Len(derived) + 1 /\ y.next = 0
    <3>1. Len(derived) + 1 \in Nat /\ Top.depth + 1 \in Nat
      BY <1>1, <1>2
    <3> QED BY <3>1, <1>4 DEF Frame, Calls
  <2> HIDE DEF y
  <2>2. stack' = <<y>> \o (<<x>> \o Tail(stack))
    BY <1>4 DEF y
  <2> QED BY <1>1, <1>2, <2>1, <2>2, Called
<1> QED BY <1>3, <1>4 DEF Take, x

LEMMA EdgesSurviveTake ==
    ASSUME WalkInv, outcome = "walking", EdgeInv, Take, content' = content
    PROVE  EdgeInv'
<1>0. PICK new \in Nat : new = Len(derived) + 1
  BY GraphGrows
<1>1. /\ Size' = Size \cup {new} /\ new \notin Size /\ new \in Nat /\ new # 0
      /\ \A n \in Size : derived'[n] = derived[n] /\ derived[n] \in DerivedObjects
      /\ derived'[new] = Found
  BY <1>0, GraphGrows DEF Size
<1>2. ASSUME NEW n \in Size PROVE TrueEdge(n)'
  <2>1. TrueEdge(n) /\ derived'[n] = derived[n] /\ derived[n].parent \in 0..(n - 1)
    BY <1>1, <1>2 DEF EdgeInv, TrueEdge
  <2>2. derived[n].parent # 0 =>
            derived[n].parent \in Size /\ derived'[derived[n].parent] = derived[derived[n].parent]
    BY <1>1, <2>1, GraphGrows DEF Size
  <2>3. ParentOf(derived[n])' = ParentOf(derived[n])
    BY <2>1, <2>2 DEF ParentOf
  <2>4. DepthOf(derived[n].parent)' = DepthOf(derived[n].parent)
    BY <2>1, <2>2 DEF DepthOf
  <2> QED BY <2>1, <2>3, <2>4 DEF TrueEdge
<1>3. TrueEdge(new)'
  <2>1. Top.node \in 0..(new - 1)
    BY <1>0, GraphGrows DEF Nodes
  <2>2. Top.node # 0 => Top.node \in Size /\ derived'[Top.node] = derived[Top.node]
    BY <1>1, GraphGrows DEF Nodes, Size
  <2>3. /\ Found.parent = Top.node /\ Found.index = Top.next
        /\ Found.object = Member.object /\ Found.depth = DepthOf(Top.node) + 1
    BY GraphGrows
  <2>4. ParentOf(derived[new])' = Parent
    BY <1>0, <1>1, <2>2, <2>3, GraphGrows DEF ParentOf
  <2>5. DepthOf(derived[new].parent)' = DepthOf(Top.node)
    BY <1>0, <1>1, <2>2, <2>3 DEF DepthOf
  <2>6. Top.next \in DOMAIN Parent.members
    BY WhileWalking DEF Take
  <2> QED BY <1>0, <1>1, <2>1, <2>3, <2>4, <2>5, <2>6 DEF TrueEdge, Member
<1>4. ASSUME NEW n \in Size PROVE derived[n].parent = Top.node => derived[n].index < Top.next
  BY GraphGrows DEF EdgeInv, EdgesBehind
<1>5. ASSUME NEW m \in Size', NEW n \in Size', SameEdge(m, n)' PROVE m = n
  <2>1. CASE m \in Size /\ n \in Size
    BY <1>1, <1>5, <2>1 DEF EdgeInv, SameEdge
  <2>2. CASE m \in Size /\ n = new
    BY <1>1, <1>4, <1>5, <2>2, GraphGrows DEF SameEdge
  <2>3. CASE m = new /\ n \in Size
    BY <1>1, <1>4, <1>5, <2>3, GraphGrows DEF SameEdge
  <2> QED BY <1>1, <2>1, <2>2, <2>3
<1>6. ASSUME NEW n \in Size' PROVE derived'[n].parent # new
  <2>1. CASE n = new
    BY <1>0, <1>1, <2>1, GraphGrows DEF Nodes
  <2>2. CASE n \in Size
    BY <1>0, <1>1, <2>2 DEF EdgeInv, TrueEdge, Size
  <2> QED BY <1>1, <2>1, <2>2
<1>7. \A n \in Size : derived[n].index \in Nat
  BY <1>1 DEF DerivedObjects
<1>8. EdgesBehind'
  <2> SUFFICES ASSUME NEW i \in 1..Len(stack'), NEW n \in Size',
                      derived'[n].parent = stack'[i].node
               PROVE  derived'[n].index < stack'[i].next
    BY DEF EdgesBehind
  <2>1. CASE stack'[i].node = new
    BY <1>6, <2>1
  <2>2. CASE stack'[i].node = Top.node /\ stack'[i].next = Top.next + 1
    <3>1. Top.next \in Nat
      BY GraphGrows
    <3>2. CASE n = new
      BY <1>1, <2>2, <3>1, <3>2, GraphGrows
    <3>3. CASE n \in Size
      <4>1. derived[n].index < Top.next /\ derived[n].index \in Nat
        BY <1>1, <1>4, <1>7, <2>2, <3>3
      <4> QED BY <1>1, <2>2, <3>1, <3>3, <4>1
    <3> QED BY <1>1, <3>2, <3>3
  <2>3. ASSUME NEW j \in 2..Len(stack), stack'[i] = stack[j]
        PROVE  derived'[n].index < stack'[i].next
    <3>1. CASE n = new
      BY <1>1, <2>3, <3>1, GraphGrows DEF EdgeInv, OneCallPerNode
    <3>2. CASE n \in Size
      BY <1>1, <2>3, <3>2 DEF EdgeInv, EdgesBehind
    <3> QED BY <1>1, <3>1, <3>2
  <2>4. Len(stack) \in Nat
    BY WalkIsStackInv DEF StackInv
  <2>5. CASE Len(stack') = Len(stack) /\ i \in 2..Len(stack') /\ stack'[i] = stack[i]
    BY <2>3, <2>5
  <2>6. CASE Len(stack') = Len(stack) + 1 /\ i \in 3..Len(stack') /\ stack'[i] = stack[i - 1]
    BY <2>3, <2>4, <2>6
  <2>7. i = 1 \/ i = 2 \/ i \in 3..Len(stack')
    OBVIOUS
  <2> QED BY <1>0, <2>1, <2>2, <2>5, <2>6, <2>7, CallsAfterTake
<1>9. OneCallPerNode'
  <2>1. \A i \in 1..Len(stack) : stack[i].node # new /\ stack[i].node \in Nodes
    BY <1>0, WalkIsStackInv DEF StackInv, Nodes
  <2>2. stack[1].node = Top.node /\ 1 \in 1..Len(stack) /\ Len(stack) \in Nat
    BY GraphGrows, WalkIsStackInv DEF StackInv
  <2>3. CASE /\ Len(stack') = Len(stack) /\ stack'[1].node = Top.node
             /\ \A i \in 2..Len(stack') : stack'[i] = stack[i]
    <3>1. \A i \in 1..Len(stack') : stack'[i].node = stack[i].node
      BY <2>2, <2>3
    <3>2. \A i, j \in 1..Len(stack) : stack[i].node = stack[j].node => i = j
      BY DEF EdgeInv, OneCallPerNode
    <3>3. \A i, j \in 1..Len(stack') : stack'[i].node = stack'[j].node => i = j
      BY ONLY <2>3, <3>1, <3>2
    <3> QED BY ONLY <3>3 DEF OneCallPerNode
  <2>4. CASE /\ Len(stack') = Len(stack) + 1
             /\ stack'[1].node = new /\ stack'[2].node = Top.node
             /\ \A i \in 3..Len(stack') : stack'[i] = stack[i - 1]
    <3>1. \A i \in 2..Len(stack') : stack'[i].node = stack[i - 1].node /\ i - 1 \in 1..Len(stack)
      BY <2>2, <2>4
    <3>2. ASSUME NEW i \in 2..Len(stack'), NEW j \in 2..Len(stack'),
                 stack'[i].node = stack'[j].node
          PROVE  i = j
      <4>1. \A p, q \in 1..Len(stack) : stack[p].node = stack[q].node => p = q
        BY DEF EdgeInv, OneCallPerNode
      <4>2. i - 1 = j - 1
        BY ONLY <3>1, <3>2, <4>1
      <4> QED BY <4>2
    <3>3. \A i \in 2..Len(stack') : stack'[i].node # new
      BY <2>1, <3>1
    <3>4. \A i \in 1..Len(stack') : i = 1 \/ i \in 2..Len(stack')
      OBVIOUS
    <3> QED BY <2>4, <3>2, <3>3, <3>4 DEF OneCallPerNode
  <2> QED BY <1>0, <2>3, <2>4, CallsAfterTake
<1>10. \A n \in Size' : TrueEdge(n)'
  BY <1>1, <1>2, <1>3
<1> QED BY <1>5, <1>8, <1>9, <1>10 DEF EdgeInv

\* What the other kinds of step leave of the calls.
LEMMA CallsRemain ==
    ASSUME StackInv, Advance \/ Leave \/ GiveUp \/ Stay
    PROVE  /\ derived' = derived
           /\ \/ /\ Len(stack') = Len(stack)
                 /\ \A i \in 1..Len(stack') :
                       stack'[i].node = stack[i].node /\ stack'[i].next >= stack[i].next
              \/ /\ Len(stack') = Len(stack) - 1
                 /\ \A i \in 1..Len(stack') : stack'[i] = stack[i + 1]
              \/ Len(stack') = 0
<1>1. CASE Advance
  <2> DEFINE x == [Top EXCEPT !.next = @ + 1]
  <2>1. /\ stack # <<>> /\ Top = stack[1] /\ x \in Calls /\ x.node = Top.node
        /\ x.next = Top.next + 1 /\ Top.next \in Nat
    BY <1>1, TopIsACall DEF StackInv, Advance
  <2> HIDE DEF x
  <2>2. /\ Len(stack') = Len(stack) /\ stack'[1] = x
        /\ \A i \in 2..Len(stack') : stack'[i] = stack[i]
    BY <1>1, <2>1, Advanced DEF StackInv, Advance, x
  <2>3. \A i \in 1..Len(stack) : stack[i].next \in Nat
    BY CallFields DEF StackInv
  <2>4. ASSUME NEW i \in 1..Len(stack')
        PROVE  stack'[i].node = stack[i].node /\ stack'[i].next >= stack[i].next
    BY <2>1, <2>2, <2>3
  <2> QED BY <1>1, <2>2, <2>4 DEF Advance
<1>2. CASE Leave
  BY <1>2, Returned DEF StackInv, Leave
<1>3. CASE GiveUp
  BY <1>3 DEF GiveUp
<1>4. CASE Stay
  <2>1. \A i \in 1..Len(stack) : stack[i].next \in Nat
    BY CallFields DEF StackInv
  <2> QED BY <1>4, <2>1 DEF Stay
<1> QED BY <1>1, <1>2, <1>3, <1>4

LEMMA EdgesSurviveRest ==
    ASSUME WalkInv, EdgeInv, Advance \/ Leave \/ GiveUp \/ Stay, content' = content
    PROVE  EdgeInv'
<1>1. derived' = derived
  BY CallsRemain, WalkIsStackInv
<1>2. \A n \in Size' : TrueEdge(n)'
  BY <1>1 DEF EdgeInv, Size, TrueEdge, ParentOf, DepthOf
<1>3. \A m, n \in Size' : SameEdge(m, n)' => m = n
  BY <1>1 DEF EdgeInv, Size, SameEdge
<1>4. StackInv /\ stack \in Seq(Calls) /\ Len(stack) \in Nat
  BY WalkIsStackInv DEF StackInv
<1>5. \A n \in Size : derived[n].index \in Nat
  <2> SUFFICES ASSUME NEW n \in Size PROVE derived[n].index \in Nat
    OBVIOUS
  <2>1. derived[n] \in DerivedObjects
    BY <1>4 DEF StackInv, Size
  <2> QED BY <2>1 DEF DerivedObjects
<1>6. CASE /\ Len(stack') = Len(stack)
           /\ \A i \in 1..Len(stack') :
                 stack'[i].node = stack[i].node /\ stack'[i].next >= stack[i].next
  <2>1. EdgesBehind'
    <3> SUFFICES ASSUME NEW i \in 1..Len(stack'), NEW n \in Size',
                        derived'[n].parent = stack'[i].node
                 PROVE  derived'[n].index < stack'[i].next
      BY DEF EdgesBehind
    <3>1. n \in Size /\ derived'[n] = derived[n] /\ i \in 1..Len(stack)
      BY <1>1, <1>6 DEF Size
    <3>2. derived[n].index < stack[i].next /\ derived[n].index \in Nat
      BY <1>5, <1>6, <3>1 DEF EdgeInv, EdgesBehind
    <3>3. stack[i].next \in Nat /\ stack'[i].next \in Nat
      <4>1. stack' \in Seq(Calls)
        BY <1>4, KindsNest DEF Kinds, StackInv
      <4> QED BY <1>4, <3>1, <4>1, CallFields
    <3> QED BY <1>6, <3>1, <3>2, <3>3
  <2>2. OneCallPerNode'
    BY <1>6 DEF EdgeInv, OneCallPerNode
  <2> QED BY <1>2, <1>3, <2>1, <2>2 DEF EdgeInv
<1>7. CASE /\ Len(stack') = Len(stack) - 1
           /\ \A i \in 1..Len(stack') : stack'[i] = stack[i + 1]
  <2>1. \A i \in 1..Len(stack') : i + 1 \in 1..Len(stack) /\ stack'[i] = stack[i + 1]
    BY <1>4, <1>7
  <2>2. EdgesBehind'
    BY <1>1, <2>1 DEF EdgeInv, EdgesBehind, Size
  <2>3. ASSUME NEW i \in 1..Len(stack'), NEW j \in 1..Len(stack'),
               stack'[i].node = stack'[j].node
        PROVE  i = j
    <3>1. i + 1 = j + 1
      BY <2>1, <2>3 DEF EdgeInv, OneCallPerNode
    <3> QED BY <3>1
  <2> QED BY <1>2, <1>3, <2>2, <2>3 DEF EdgeInv, OneCallPerNode
<1>8. CASE Len(stack') = 0
  BY <1>2, <1>3, <1>8 DEF EdgeInv, EdgesBehind, OneCallPerNode
<1> QED BY <1>4, <1>6, <1>7, <1>8, CallsRemain

LEMMA TakeMeansWalking == ASSUME WalkInv, Take PROVE outcome = "walking"
BY DEF WalkInv, TypeOK, Take

LEMMA EdgeInvNext == ASSUME WalkInv, EdgeInv, [Next]_vars PROVE EdgeInv'
BY ActionKinds, EdgesSurviveTake, EdgesSurviveRest, TakeMeansWalking DEF Kinds

LEMMA EdgeInvInit == ASSUME Init PROVE EdgeInv
<1>1. derived = <<>> /\ Len(derived) = 0 /\ Len(stack) = 1
  BY DEF Init
<1>2. Size = {}
  BY <1>1 DEF Size
<1> QED BY <1>1, <1>2 DEF EdgeInv, EdgesBehind, OneCallPerNode

\* The derived objects a client reads form the tree that was walked: each hangs below
\* the object that holds it, at its member, one level deeper, and no member twice.
THEOREM GraphIsTrue == Spec => []EdgesAreTrue
<1>1. Init => WalkInv /\ EdgeInv
  BY WalkInvInit, EdgeInvInit
<1>2. WalkInv /\ EdgeInv /\ [Next]_vars => WalkInv' /\ EdgeInv'
  BY WalkInvNext, EdgeInvNext
<1>3. WalkInv /\ EdgeInv => EdgesAreTrue
  BY EdgeInvIsTrue
<1> QED BY <1>1, <1>2, <1>3, PTL DEF Spec

(***************************************************************************)
(* The budgets.                                                            *)
(***************************************************************************)

InBudget(d) ==
    /\ d.depth <= MaxRecursionDepth
    /\ Bytes(d) <= MaxSingleChildBytes
    /\ ParentOf(d).bytes > 0 => Bytes(d) <= MaxExpansionRatio * ParentOf(d).bytes

BudgetInv ==
    /\ materialized <= MaxTotalChildren /\ Len(derived) <= MaxTotalChildren
    /\ extracted <= MaxTotalExtractedBytes
    /\ \A n \in Size : InBudget(derived[n])

LEMMA BudgetInvHolds == ASSUME WalkInv, BudgetInv PROVE BudgetsHold
<1>1. DOMAIN derived = Size
  BY DEF WalkInv, TypeOK, Size
<1> QED BY <1>1 DEF BudgetInv, InBudget, BudgetsHold

\* A member that meets no limit keeps the byte budgets.
LEMMA NoLimitMet ==
    ASSUME WalkInv, BudgetInv, InLoop, MaterializeLimits = {}
    PROVE  /\ extracted + Child.bytes <= MaxTotalExtractedBytes
           /\ Child.bytes <= MaxSingleChildBytes
           /\ Parent.bytes > 0 => Child.bytes <= MaxExpansionRatio * Parent.bytes
<1>1. Child.bytes \in Nat /\ extracted \in Nat /\ Parent.bytes \in Nat
  BY InTheLoop, WhileWalking DEF InLoop, WalkInv, TypeOK
<1>2. MaxExpansionRatio * Parent.bytes \in Nat
  BY <1>1, BudgetAssumption
<1>3. CASE Child.bytes = 0
  BY <1>1, <1>2, <1>3, BudgetAssumption DEF BudgetInv
<1>4. CASE Child.bytes > 0
  <2>1. ~(Child.bytes > MaxSingleChildBytes)
    BY <1>4 DEF MaterializeLimits
  <2>2. ~(extracted + Child.bytes > MaxTotalExtractedBytes)
    BY <1>4 DEF MaterializeLimits
  <2>3. ~(Parent.bytes > 0 /\ Child.bytes > MaxExpansionRatio * Parent.bytes)
    BY <1>4 DEF MaterializeLimits
  <2> QED BY <1>1, <1>2, <2>1, <2>2, <2>3, BudgetAssumption
<1> QED BY <1>1, <1>3, <1>4

LEMMA BudgetInvNext ==
    ASSUME WalkInv, EdgeInv, BudgetInv, [Next]_vars
    PROVE  BudgetInv'
<1>1. content' = content
  BY ActionKinds
<1>2. extracted' <= MaxTotalExtractedBytes
  <2>1. CASE extracted' = extracted
    BY <2>1 DEF BudgetInv
  <2>2. CASE InLoop /\ MaterializeLimits = {} /\ extracted' = extracted + Child.bytes
    BY <2>2, NoLimitMet
  <2> QED
    BY <2>1, <2>2
    DEF Next, vars, TurnAway, OpenLeaf, FailToOpen, OpenContainer, EndLoop, Break, Overlook,
        PassOver, Skip, Fail, TakeMember, Expire, Ended
<1>0. materialized' <= MaxTotalChildren
  <2>1. CASE materialized' = materialized
    BY <2>1 DEF BudgetInv
  <2>2. CASE CanStartChild /\ materialized' = materialized + 1
    BY <2>2, BudgetAssumption DEF CanStartChild, WalkInv, TypeOK
  <2> QED
    BY <2>1, <2>2
    DEF Next, vars, TurnAway, OpenLeaf, FailToOpen, OpenContainer, EndLoop, Break, Overlook,
        PassOver, Skip, Fail, TakeMember, Expire, Ended
<1>3. CASE derived' = derived
  BY <1>0, <1>1, <1>2, <1>3 DEF BudgetInv, InBudget, Size, Bytes, ParentOf
<1>4. CASE TakeMember
  <2>0. /\ InLoop /\ outcome = "walking" /\ CanStartChild /\ MaterializeLimits = {}
        /\ derived' = Append(derived, Found)
    BY <1>4 DEF TakeMember, InLoop, Found
  <2>1. Take
    <3>1. CASE Take
      BY <3>1
    <3>2. CASE derived' = derived
      <4>1. derived \in Seq(DerivedObjects) /\ derived' = Append(derived, Found)
        BY <2>0, WalkIsStackInv DEF StackInv
      <4>2. Len(derived') = Len(derived) + 1 /\ Len(derived) \in Nat
        BY <4>1
      <4> QED BY <3>2, <4>2
    <3> QED BY <3>1, <3>2, ActionKinds DEF Kinds, Advance, Leave, GiveUp, Stay
  <2>2. PICK new \in Nat : new = Len(derived) + 1
    BY WalkIsStackInv DEF StackInv
  <2>3. /\ Size' = Size \cup {new} /\ Len(derived') = new /\ derived'[new] = Found
        /\ \A n \in Size : derived'[n] = derived[n]
    BY <1>1, <2>0, <2>1, <2>2, GraphGrows DEF Size
  <2>4. new <= MaxTotalChildren
    <3>1. materialized = Len(derived)
      BY <2>0 DEF WalkInv, Counted
    <3>2. materialized < MaxTotalChildren /\ new = materialized + 1
      BY <2>0, <2>2, <3>1 DEF CanStartChild
    <3>3. materialized \in Nat
      BY DEF WalkInv, TypeOK
    <3> QED BY <3>2, <3>3, BudgetAssumption
  <2>5. ASSUME NEW n \in Size PROVE InBudget(derived[n])'
    <3>1. derived[n].parent \in 0..(n - 1) /\ derived'[n] = derived[n]
      BY <2>3, <2>5 DEF EdgeInv, TrueEdge
    <3>2. PICK d : d = derived[n] /\ d = derived'[n] /\ d.parent \in 0..(n - 1)
      BY ONLY <3>1
    <3>3. d.parent # 0 => d.parent \in Size
      <4>1. n \in 1..Len(derived) /\ Len(derived) \in Nat
        BY <2>5, WalkIsStackInv DEF Size, StackInv
      <4> QED BY ONLY <3>2, <4>1 DEF Size
    <3>4. d.parent # 0 => derived'[d.parent] = derived[d.parent]
      BY ONLY <2>3, <3>3
    <3>5. ParentOf(d)' = ParentOf(d) /\ Bytes(d)' = Bytes(d)
      BY ONLY <1>1, <3>4 DEF ParentOf, Bytes
    <3>6. InBudget(d)
      BY <3>2 DEF BudgetInv
    <3>7. InBudget(d)'
      BY ONLY <3>5, <3>6 DEF InBudget
    <3> QED BY <3>2, <3>7 DEF InBudget, ParentOf, Bytes
  <2>6. InBudget(derived[new])'
    <3>1. /\ Found.object = Member.object /\ Found.parent = Top.node
          /\ Found.depth = Top.depth + 1 /\ Top.node \in Nodes
          /\ Parent = content[IF Top.node = 0 THEN Root ELSE derived[Top.node].object]
      BY <1>1, <2>0, <2>1, GraphGrows
    <3>2. Top.node # 0 => derived'[Top.node] = derived[Top.node]
      BY <2>3, <3>1, WalkIsStackInv DEF Nodes, Size, StackInv
    <3>3. ParentOf(derived[new])' = Parent
      BY <1>1, <2>3, <3>1, <3>2 DEF ParentOf
    <3>4. Bytes(derived[new])' = Child.bytes
      BY <1>1, <2>3, <3>1 DEF Bytes, Child
    <3>5. Top.depth + 1 <= MaxRecursionDepth
      <4>1. Top.next > 0 /\ Top = stack[1] /\ 1 \in 1..Len(stack) /\ Top.depth \in Nat
        BY <2>0, WhileWalking, InTheLoop
      <4> QED BY <4>1, BudgetAssumption DEF WalkInv, Nested
    <3>6. derived'[new].depth <= MaxRecursionDepth
      BY <2>3, <3>1, <3>5
    <3> QED BY <2>0, <3>3, <3>4, <3>6, NoLimitMet DEF InBudget
  <2> QED BY <1>0, <1>2, <2>3, <2>4, <2>5, <2>6 DEF BudgetInv
<1> QED
  BY <1>3, <1>4
  DEF Next, vars, TurnAway, OpenLeaf, FailToOpen, OpenContainer, EndLoop, Break, Overlook,
      PassOver, Skip, Fail, Abort, Expire, Ended

LEMMA BudgetInvInit == ASSUME Init PROVE BudgetInv
<1>1. Len(derived) = 0 /\ materialized = 0 /\ extracted = 0
  BY DEF Init
<1>2. Size = {}
  BY <1>1 DEF Size
<1> QED BY <1>1, <1>2, BudgetAssumption DEF BudgetInv

\* The job keeps its budgets of children and bytes, and each child those of depth, size
\* and expansion, however the contents hold each other or themselves.
THEOREM BudgetsAlwaysHold == Spec => []BudgetsHold
<1>1. Init => WalkInv /\ EdgeInv /\ BudgetInv
  BY WalkInvInit, EdgeInvInit, BudgetInvInit
<1>2. WalkInv /\ EdgeInv /\ BudgetInv /\ [Next]_vars => WalkInv' /\ EdgeInv' /\ BudgetInv'
  BY WalkInvNext, EdgeInvNext, BudgetInvNext
<1>3. WalkInv /\ EdgeInv /\ BudgetInv => BudgetsHold
  BY BudgetInvHolds
<1> QED BY <1>1, <1>2, <1>3, PTL DEF Spec

(***************************************************************************)
(* Completeness.  As long as no limit, error or exception has left a mark, *)
(* every object is wholly taken, or it is being processed and is taken up  *)
(* to its next member.                                                     *)
(***************************************************************************)

Object(node) == content[ObjectOf(node)]
Places(node) == DOMAIN Object(node).members
Taken(node, k) == \E n \in Size : derived[n].parent = node /\ derived[n].index = k
Settled(node, k) ==
    Object(node).members[k].trait \in {"ignored", "unlisted"} \/ Taken(node, k)
Whole(node) == (\A k \in Places(node) : Settled(node, k)) \/ LeftUnopened(node)

TakenUpTo(node, next) == \A k \in Places(node) : k < next => Settled(node, k)
Uncut(node) ==
    Object(node).form \in {"document", "package", "archive"}
        => Cardinality(Listed(Object(node))) <= MaxChildrenPerObject

Spotless == outcome # "raised" /\ completeness = "COMPLETE" /\ events = {}
OnStack(node) == \E i \in 1..Len(stack) : stack[i].node = node

AllWhole == \A node \in Nodes : Whole(node) \/ OnStack(node)
CallsInOrder ==
    \A i \in 1..Len(stack) :
        /\ TakenUpTo(stack[i].node, stack[i].next)
        /\ stack[i].next > 0 => Uncut(stack[i].node)

WholeInv ==
    /\ Spotless => AllWhole /\ CallsInOrder
    /\ outcome = "done" /\ completeness = "COMPLETE" => events = {}

LEMMA WholeInvIsEnough == ASSUME WalkInv, WholeInv PROVE CompleteMeansWhole
<1> SUFFICES ASSUME outcome = "done", completeness = "COMPLETE", NEW node \in Nodes
             PROVE  Whole(node)
  <2>1. DOMAIN derived = Size
    BY DEF WalkInv, TypeOK, Size
  <2> QED
    BY <2>1 DEF CompleteMeansWhole, Whole, Settled, Taken, Places, Object
<1>1. Spotless
  BY DEF WholeInv, Spotless
<1>2. stack = <<>>
  BY DEF WalkInv, TypeOK
<1>3. ~OnStack(node)
  BY <1>2 DEF OnStack
<1> QED BY <1>1, <1>3 DEF WholeInv, AllWhole

\* The listing of an object has finitely many members.
LEMMA PlacesAreFew ==
    ASSUME NEW o, o.members \in Seq(Members)
    PROVE  IsFiniteSet(Listed(o)) /\ Cardinality(Listed(o)) \in Nat
<1>1. DOMAIN o.members = 1..Len(o.members) /\ Len(o.members) \in Nat
  OBVIOUS
<1>2. IsFiniteSet(1..Len(o.members))
  BY <1>1, FS_Interval
<1>3. Listed(o) \subseteq 1..Len(o.members)
  BY <1>1 DEF Listed
<1>4. IsFiniteSet(Listed(o))
  BY <1>2, <1>3, FS_Subset
<1> QED BY <1>4, FS_CardinalityType

\* If the loop of an object that has no more members than it may has met that many,
\* no member of the listing is left.
LEMMA NoneBehind ==
    ASSUME NEW o, o.members \in Seq(Members), NEW next \in Nat, NEW limit \in Nat,
           Cardinality(Listed(o)) <= limit,
           ~(Cardinality({i \in Listed(o) : i < next}) < limit),
           NEW k, ~(k < next)
    PROVE  k \notin Listed(o)
<1> DEFINE met == {i \in Listed(o) : i < next}
<1>1. IsFiniteSet(Listed(o)) /\ Cardinality(Listed(o)) \in Nat
  BY PlacesAreFew
<1>2. /\ met \subseteq Listed(o) /\ IsFiniteSet(met)
      /\ Cardinality(met) <= Cardinality(Listed(o))
      /\ Cardinality(met) = Cardinality(Listed(o)) => met = Listed(o)
  BY <1>1, FS_Subset
<1>3. Cardinality(met) \in Nat
  BY <1>2, FS_CardinalityType
<1>4. ~(Cardinality(met) < limit)
  OBVIOUS
<1> HIDE DEF met
<1>5. Cardinality(met) = Cardinality(Listed(o))
  BY <1>1, <1>2, <1>3, <1>4
<1>6. met = Listed(o)
  BY <1>2, <1>5
<1> QED BY <1>6 DEF met

\* A mark is never wiped off.
LEMMA MarksStay ==
    ASSUME WalkInv, [Next]_vars, Spotless'
    PROVE  Spotless
<1>1. CASE outcome = "walking"
  <2>1. events' = {} => events = {}
    BY DEF Next, vars, TurnAway, OpenLeaf, FailToOpen, OpenContainer, EndLoop, Break, Overlook,
           PassOver, Skip, Fail, Abort, TakeMember, Expire, Ended, Return
  <2>2. completeness' = "COMPLETE" => completeness = "COMPLETE"
    BY DEF Next, vars, TurnAway, OpenLeaf, FailToOpen, OpenContainer, EndLoop, Break, Overlook,
           PassOver, Skip, Fail, Abort, TakeMember, Expire, Ended, Return, Verdict, ParseVerdict
  <2> QED BY <1>1, <2>1, <2>2 DEF Spotless
<1>2. CASE outcome # "walking"
  <2>1. UNCHANGED vars
    BY <1>2 DEF Next, TurnAway, OpenLeaf, FailToOpen, OpenContainer, EndLoop, Break, Overlook,
           PassOver, Fail, TakeMember, Expire, Ended, Opening, InLoop
  <2> QED BY <2>1 DEF vars, Spotless
<1> QED BY <1>1, <1>2

LEMMA LimitsAreTold ==
    ASSUME WalkInv, WholeInv, [Next]_vars
    PROVE  outcome' = "done" /\ completeness' = "COMPLETE" => events' = {}
<1>1. CASE outcome = "walking"
  BY <1>1
  DEF Next, vars, TurnAway, OpenLeaf, FailToOpen, OpenContainer, EndLoop, Break, Overlook,
      PassOver, Skip, Fail, Abort, TakeMember, Expire, Ended, Return, Verdict
<1>2. CASE outcome # "walking"
  <2>1. UNCHANGED vars
    BY <1>2 DEF Next, TurnAway, OpenLeaf, FailToOpen, OpenContainer, EndLoop, Break, Overlook,
           PassOver, Fail, TakeMember, Expire, Ended, Opening, InLoop
  <2> QED BY <2>1 DEF vars, WholeInv
<1> QED BY <1>1, <1>2

\* As long as the graph does not change, what is settled stays settled.
LEMMA SameGraph ==
    ASSUME derived' = derived, content' = content, NEW node
    PROVE  /\ Whole(node)' = Whole(node) /\ Uncut(node)' = Uncut(node)
           /\ Object(node)' = Object(node) /\ Places(node)' = Places(node)
           /\ Nodes' = Nodes /\ DepthOf(node)' = DepthOf(node)
           /\ \A k : Settled(node, k)' = Settled(node, k)
           /\ \A next : TakenUpTo(node, next)' = TakenUpTo(node, next)
BY DEF Whole, Uncut, Object, Places, Settled, Taken, LeftUnopened, TakenUpTo, Nodes, DepthOf,
       Size, ObjectOf

\* A call returns: its object must be whole.
LEMMA WholeAfterLeave ==
    ASSUME WalkInv, AllWhole, CallsInOrder, Leave, content' = content, Whole(Top.node)
    PROVE  AllWhole' /\ CallsInOrder'
<1>1. /\ stack \in Seq(Calls) /\ Len(stack) \in Nat /\ Len(stack') = Len(stack) - 1
      /\ \A i \in 1..Len(stack') : stack'[i] = stack[i + 1]
  BY WalkIsStackInv, Returned DEF Leave, StackInv
<1>2. Top = stack[1] /\ derived' = derived
  BY <1>1 DEF Top, Leave
<1>3. ASSUME NEW node \in Nodes' PROVE (Whole(node) \/ OnStack(node))'
  <2>1. CASE Whole(node)
    BY <1>2, <2>1, SameGraph
  <2>2. CASE ~Whole(node)
    <3>1. node \in Nodes /\ node # Top.node
      BY <1>2, <2>2, SameGraph
    <3>2. PICK i \in 1..Len(stack) : stack[i].node = node
      BY <2>2, <3>1 DEF AllWhole, OnStack
    <3>3. i # 1 /\ i - 1 \in 1..Len(stack') /\ stack'[i - 1] = stack[i]
      BY <1>1, <1>2, <3>1, <3>2
    <3> QED BY <3>2, <3>3 DEF OnStack
  <2> QED BY <2>1, <2>2
<1>4. CallsInOrder'
  <2> SUFFICES ASSUME NEW i \in 1..Len(stack')
               PROVE  /\ TakenUpTo(stack[i].node, stack[i].next)'
                      /\ (stack[i].next > 0 => Uncut(stack[i].node))'
    BY DEF CallsInOrder
  <2>1. PICK j \in 1..Len(stack) : stack'[i] = stack[j]
    BY <1>1
  <2>2. PICK node, next : node = stack[j].node /\ next = stack[j].next
    OBVIOUS
  <2>3. TakenUpTo(node, next) /\ (next > 0 => Uncut(node))
    BY <2>2 DEF CallsInOrder
  <2>4. TakenUpTo(node, next)' /\ (next > 0 => Uncut(node))'
    BY <1>2, <2>3, SameGraph
  <2>5. stack'[i].node = node /\ stack'[i].next = next
    BY ONLY <2>1, <2>2
  <2> QED BY ONLY <2>4, <2>5 DEF TakenUpTo, Uncut, Settled, Places, Taken, Object, ObjectOf, Size
<1> QED BY <1>3, <1>4 DEF AllWhole

\* A call moves on to its next member: the one behind must be settled.
LEMMA WholeAfterAdvance ==
    ASSUME WalkInv, AllWhole, CallsInOrder, Advance, content' = content,
           Top.next > 0 => Settled(Top.node, Top.next),
           Uncut(Top.node)
    PROVE  AllWhole' /\ CallsInOrder'
<1> DEFINE x == [Top EXCEPT !.next = @ + 1]
<1>1. /\ stack \in Seq(Calls) /\ stack # <<>> /\ Top = stack[1] /\ 1 \in 1..Len(stack)
      /\ x \in Calls /\ x.node = Top.node /\ x.next = Top.next + 1 /\ Top.next \in Nat
  BY WalkIsStackInv, TopIsACall DEF StackInv, Advance
<1> HIDE DEF x
<1>2. /\ Len(stack') = Len(stack) /\ stack'[1] = x
      /\ \A i \in 2..Len(stack') : stack'[i] = stack[i]
  BY <1>1, Advanced DEF Advance, x
<1>3. \A i \in 1..Len(stack') : stack'[i].node = stack[i].node
  BY <1>1, <1>2
<1>4. derived' = derived
  BY DEF Advance
<1>5. ASSUME NEW node \in Nodes' PROVE (Whole(node) \/ OnStack(node))'
  <2>1. node \in Nodes /\ (Whole(node)' = Whole(node))
    BY <1>4, SameGraph
  <2>2. OnStack(node) => OnStack(node)'
    BY <1>2, <1>3 DEF OnStack
  <2> QED BY <2>1, <2>2 DEF AllWhole
<1>6. CallsInOrder'
  <2> SUFFICES ASSUME NEW i \in 1..Len(stack')
               PROVE  /\ TakenUpTo(stack[i].node, stack[i].next)'
                      /\ (stack[i].next > 0 => Uncut(stack[i].node))'
    BY DEF CallsInOrder
  <2>1. PICK node, next : node = stack'[i].node /\ next = stack'[i].next
    OBVIOUS
  <2>2. CASE i = 1
    <3>1. node = Top.node /\ next = Top.next + 1
      BY <1>1, <1>2, <2>1, <2>2
    <3>2. TakenUpTo(node, Top.next)
      BY <1>1, <3>1 DEF CallsInOrder
    <3>3. ASSUME NEW k \in Places(node), k < next PROVE Settled(node, k)
      <4>1. k \in Nat /\ k # 0
        <5>1. node \in Nodes
          BY <1>1, <3>1, WalkIsStackInv DEF StackInv
        <5>2. Object(node).members \in Seq(Members)
          BY <3>1, WhileWalking, TakeMeansWalking, <1>1 DEF Object, Parent, WalkInv, TypeOK
        <5> QED BY <5>2 DEF Places
      <4>2. k < Top.next \/ k = Top.next
        BY <1>1, <3>1, <3>3, <4>1
      <4>3. CASE k < Top.next
        BY <3>2, <3>3, <4>3 DEF TakenUpTo
      <4>4. CASE k = Top.next
        BY <1>1, <3>1, <4>1, <4>4
      <4> QED BY <4>2, <4>3, <4>4
    <3>4. TakenUpTo(node, next) /\ Uncut(node)
      BY <3>1, <3>3 DEF TakenUpTo
    <3>5. TakenUpTo(node, next)' /\ Uncut(node)'
      BY <1>4, <3>4, SameGraph
    <3> QED BY <2>1, <3>5 DEF TakenUpTo, Uncut, Settled, Places, Taken, Object, ObjectOf
  <2>3. CASE i # 1
    <3>1. i \in 1..Len(stack) /\ stack'[i] = stack[i]
      BY <1>1, <1>2, <2>3
    <3>2. TakenUpTo(node, next) /\ (next > 0 => Uncut(node))
      BY <2>1, <3>1 DEF CallsInOrder
    <3>3. TakenUpTo(node, next)' /\ (next > 0 => Uncut(node))'
      BY <1>4, <3>2, SameGraph
    <3> QED BY <2>1, <3>3 DEF TakenUpTo, Uncut, Settled, Places, Taken, Object, ObjectOf
  <2> QED BY <2>2, <2>3
<1> QED BY <1>5, <1>6 DEF AllWhole

LEMMA WholeAfterTake ==
    ASSUME WalkInv, AllWhole, CallsInOrder, TakeMember, Take, content' = content,
           events' = {}
    PROVE  AllWhole' /\ CallsInOrder'
<1>0. /\ outcome = "walking" /\ InLoop /\ Top.next > 0
      /\ WellFormed(Child) /\ Child \in ContentType
  BY TakeMeansWalking, InTheLoop DEF TakeMember
<1>1. PICK new \in Nat : new = Len(derived) + 1
  BY GraphGrows, TakeMeansWalking
<1>2. /\ Nodes' = Nodes \cup {new} /\ new \notin Nodes /\ new # 0
      /\ Size' = Size \cup {new} /\ derived'[new] = Found
      /\ \A n \in Size : derived'[n] = derived[n] /\ n # 0
      /\ \A n \in Nodes : n = 0 \/ n \in Size
      /\ Top.node \in Nodes
  BY <1>0, <1>1, GraphGrows DEF Nodes, Size
<1>3. ASSUME NEW node \in Nodes
      PROVE  /\ Object(node)' = Object(node) /\ DepthOf(node)' = DepthOf(node)
             /\ \A k : Taken(node, k) => Taken(node, k)'
  BY <1>2 DEF Object, ObjectOf, DepthOf, Taken
<1>4. ASSUME NEW node \in Nodes
      PROVE  /\ Places(node)' = Places(node) /\ Uncut(node)' = Uncut(node)
             /\ \A k : Settled(node, k) => Settled(node, k)'
             /\ Whole(node) => Whole(node)'
             /\ \A next : TakenUpTo(node, next) => TakenUpTo(node, next)'
  <2>1. /\ Object(node)' = Object(node) /\ DepthOf(node)' = DepthOf(node)
        /\ \A k : Taken(node, k) => Taken(node, k)'
    BY <1>3
  <2>2. Places(node)' = Places(node) /\ Uncut(node)' = Uncut(node)
    BY <2>1 DEF Places, Uncut, Listed
  <2>3. \A k : Settled(node, k) => Settled(node, k)'
    BY <2>1 DEF Settled
  <2>4. LeftUnopened(node) => LeftUnopened(node)'
    BY <2>1 DEF LeftUnopened, Object
  <2> QED BY <2>2, <2>3, <2>4 DEF Whole, TakenUpTo
<1>5. PICK at, nx : at = Top.node /\ nx = Top.next
  OBVIOUS
<1>6. Settled(at, nx)'
  <2>1. new \in Size' /\ derived'[new].parent = at /\ derived'[new].index = nx
    BY <1>0, <1>2, <1>5, GraphGrows
  <2> QED BY <2>1 DEF Settled, Taken
<1>7. /\ Object(new)' = Child /\ DepthOf(new)' = Top.depth + 1
  <2>1. Found.object = Member.object /\ Found.depth = Top.depth + 1
    BY <1>0, GraphGrows
  <2> QED BY <1>2, <2>1 DEF Object, ObjectOf, DepthOf, Child
<1>8. Child.members \in Seq(Members) /\ Child.form \in Forms
  BY <1>0 DEF ContentType
<1>9. ASSUME TooDeep(Top.depth + 1) PROVE Whole(new)'
  <2>1. Child.form \notin Recognised
    BY <1>9 DEF TakeMember, DepthEvents, TooDeep
  <2>2. CASE Child.form = "plain"
    <3>1. Child.members = <<>>
      BY <1>0, <2>2 DEF WellFormed
    <3>2. Places(new)' = {}
      BY <1>7, <3>1 DEF Places
    <3> QED BY <3>2 DEF Whole
  <2>3. CASE Child.form = "document"
    BY <1>7, <1>9, <2>3 DEF TooDeep, Whole, LeftUnopened, Object
  <2> QED BY <1>8, <2>1, <2>2, <2>3 DEF Recognised, Forms
<1>10. ASSUME ~TooDeep(Top.depth + 1) PROVE OnStack(new)'
  <2>1. /\ stack \in Seq(Calls) /\ stack # <<>> /\ Top.depth \in Nat /\ Charge \in Nat
    BY <1>0, WhileWalking, WalkIsStackInv, InTheLoop DEF StackInv, Charge
  <2>2. [Top EXCEPT !.next = @ + 1] \in Calls
    BY <2>1, TopIsACall
  <2>3. PICK y : y = Frame(Len(derived) + 1, Top.depth + 1, Charge)
    OBVIOUS
  <2>4. y \in Calls /\ y.node = new
    <3>1. Top.depth + 1 \in Nat
      BY <2>1
    <3> QED BY <1>1, <2>1, <2>3, <3>1 DEF Frame, Calls
  <2>5. stack' = <<y>> \o (<<[Top EXCEPT !.next = @ + 1]>> \o Tail(stack))
    BY <1>10, <2>3 DEF TakeMember
  <2>6. stack'[1] = y /\ Len(stack') = Len(stack) + 1 /\ Len(stack) \in Nat
    BY <2>1, <2>2, <2>4, <2>5, Called
  <2>7. 1 \in 1..Len(stack')
    BY <2>6
  <2> QED BY <2>4, <2>6, <2>7 DEF OnStack
<1>11. ASSUME NEW i \in 1..Len(stack)
       PROVE  \E j \in 1..Len(stack') : stack'[j].node = stack[i].node
  <2>1. Len(stack) \in Nat /\ Top = stack[1]
    BY <1>0, WhileWalking, WalkIsStackInv DEF StackInv
  <2>2. CASE /\ Len(stack') = Len(stack) /\ stack'[1].node = Top.node
             /\ \A j \in 2..Len(stack') : stack'[j] = stack[j]
    <3>1. i \in 1..Len(stack') /\ stack'[i].node = stack[i].node
      BY <2>1, <2>2
    <3> QED BY <3>1
  <2>3. CASE /\ Len(stack') = Len(stack) + 1 /\ stack'[2].node = Top.node
             /\ \A j \in 3..Len(stack') : stack'[j] = stack[j - 1]
    <3>1. i + 1 \in 1..Len(stack') /\ stack'[i + 1].node = stack[i].node
      BY <2>1, <2>3
    <3> QED BY <3>1
  <2> QED BY <1>0, <2>2, <2>3, CallsAfterTake
<1>12. ASSUME NEW node \in Nodes' PROVE (Whole(node) \/ OnStack(node))'
  <2>1. CASE node = new
    BY <1>9, <1>10, <2>1
  <2>2. CASE node \in Nodes
    <3>1. OnStack(node) => OnStack(node)'
      BY <1>11 DEF OnStack
    <3> QED BY <1>4, <2>2, <3>1 DEF AllWhole
  <2> QED BY <1>2, <2>1, <2>2
<1>13. ASSUME NEW j \in 1..Len(stack)
       PROVE  /\ TakenUpTo(stack[j].node, stack[j].next)
              /\ stack[j].next > 0 => Uncut(stack[j].node)
              /\ stack[j].node \in Nodes
  BY WalkIsStackInv DEF CallsInOrder, StackInv
<1>14. ASSUME NEW i \in 1..Len(stack'), NEW node, NEW next,
              node = stack'[i].node, next = stack'[i].next
       PROVE  TakenUpTo(node, next)' /\ (next > 0 => Uncut(node))'
  <2>1. ASSUME NEW j \in 1..Len(stack), stack'[i] = stack[j]
        PROVE  TakenUpTo(node, next)' /\ (next > 0 => Uncut(node))'
    <3>1. TakenUpTo(node, next) /\ (next > 0 => Uncut(node)) /\ node \in Nodes
      BY <1>13, <1>14, <2>1
    <3> QED BY <1>4, <3>1
  <2>2. CASE node = at /\ next = nx + 1
    <3>1. TakenUpTo(at, nx) /\ Uncut(at) /\ at \in Nodes /\ nx \in Nat
      BY <1>0, <1>5, <1>13, GraphGrows
    <3>2. TakenUpTo(at, nx)' /\ Uncut(at)'
      BY <1>4, <3>1
    <3>3. ASSUME NEW k \in Places(at)', k < nx + 1 PROVE Settled(at, k)'
      <4>1. k \in Nat
        <5>1. Object(at).members \in Seq(Members)
          BY <1>0, <1>5, WhileWalking DEF Object, Parent
        <5>2. Places(at)' = Places(at)
          BY <1>4, <3>1
        <5> QED BY <3>3, <5>1, <5>2 DEF Places
      <4>2. k < nx \/ k = nx
        BY <3>1, <3>3, <4>1
      <4>3. CASE k < nx
        BY <3>2, <3>3, <4>3 DEF TakenUpTo
      <4> QED BY <1>6, <4>2, <4>3
    <3> QED BY <2>2, <3>2, <3>3 DEF TakenUpTo
  <2>3. CASE node = new /\ next = 0
    <3>1. Places(new)' = DOMAIN Child.members
      BY <1>7 DEF Places
    <3>2. \A k \in Places(new)' : ~(k < 0)
      BY <1>8, <3>1
    <3> QED BY <2>3, <3>2 DEF TakenUpTo
  <2>4. Len(stack) \in Nat /\ (i = 1 \/ i = 2 \/ i \in 3..Len(stack'))
    BY WalkIsStackInv DEF StackInv
  <2>5. CASE /\ Len(stack') = Len(stack)
             /\ stack'[1].node = Top.node /\ stack'[1].next = Top.next + 1
             /\ \A j \in 2..Len(stack') : stack'[j] = stack[j]
    <3>1. CASE i = 1
      BY <1>5, <1>14, <2>2, <2>5, <3>1
    <3>2. CASE i # 1
      <4>1. i \in 1..Len(stack) /\ stack'[i] = stack[i]
        BY <2>4, <2>5, <3>2
      <4> QED BY <2>1, <4>1
    <3> QED BY <3>1, <3>2
  <2>6. CASE /\ Len(stack') = Len(stack) + 1
             /\ stack'[1].node = Len(derived) + 1 /\ stack'[1].next = 0
             /\ stack'[2].node = Top.node /\ stack'[2].next = Top.next + 1
             /\ \A j \in 3..Len(stack') : stack'[j] = stack[j - 1]
    <3>1. CASE i = 1
      BY <1>1, <1>14, <2>3, <2>6, <3>1
    <3>2. CASE i = 2
      BY <1>5, <1>14, <2>2, <2>6, <3>2
    <3>3. CASE i \in 3..Len(stack')
      <4>1. i - 1 \in 1..Len(stack) /\ stack'[i] = stack[i - 1]
        BY <2>4, <2>6, <3>3
      <4> QED BY <2>1, <4>1
    <3> QED BY <2>4, <3>1, <3>2, <3>3
  <2> QED BY <1>0, <2>5, <2>6, CallsAfterTake
<1>15. CallsInOrder'
  <2> SUFFICES ASSUME NEW i \in 1..Len(stack')
               PROVE  /\ TakenUpTo(stack[i].node, stack[i].next)'
                      /\ (stack[i].next > 0 => Uncut(stack[i].node))'
    BY DEF CallsInOrder
  <2>1. PICK node, next : node = stack'[i].node /\ next = stack'[i].next
    OBVIOUS
  <2>2. TakenUpTo(node, next)' /\ (next > 0 => Uncut(node))'
    BY <1>14, <2>1
  <2> QED BY <2>1, <2>2 DEF TakenUpTo, Uncut, Settled, Places, Taken, Object, ObjectOf
<1> QED BY <1>12, <1>15 DEF AllWhole

LEMMA WholeInvNext == ASSUME WalkInv, EdgeInv, WholeInv, [Next]_vars PROVE WholeInv'
<1> SUFFICES ASSUME Spotless' PROVE AllWhole' /\ CallsInOrder'
  BY LimitsAreTold DEF WholeInv
<1>1. /\ Spotless /\ AllWhole /\ CallsInOrder /\ content' = content
      /\ events' = {} /\ completeness' = "COMPLETE" /\ outcome' # "raised"
  BY MarksStay, ActionKinds DEF WholeInv, Spotless
<1>2. CASE TurnAway
  <2>1. Leave /\ outcome = "walking"
    BY <1>2, WhileWalking DEF TurnAway, Opening, Return, Leave
  <2>2. ~late /\ Top.depth >= MaxRecursionDepth
    BY <1>1, <1>2 DEF TurnAway, Return
  <2>3. Top.node = 0 /\ DepthOf(Top.node) >= MaxRecursionDepth
    <3>1. /\ Top = stack[1] /\ 1 \in 1..Len(stack) /\ Top.depth \in Nat /\ Top.node \in Nodes
          /\ Top.depth = Len(stack) - 1 /\ Top.depth = DepthOf(Top.node)
      BY <2>1, WhileWalking DEF WalkInv, Nested
    <3>2. Top.depth = 0
      <4>1. Len(stack) <= IF MaxRecursionDepth = 0 THEN 1 ELSE MaxRecursionDepth
        BY WalkIsStackInv DEF StackInv
      <4>2. Len(stack) \in Nat /\ MaxRecursionDepth \in Nat
        BY WalkIsStackInv, BudgetAssumption DEF StackInv
      <4>3. Len(stack) - 1 >= MaxRecursionDepth
        BY <2>2, <3>1
      <4>4. MaxRecursionDepth = 0
        BY <4>1, <4>2, <4>3
      <4>5. Len(stack) <= 1
        BY <4>1, <4>4
      <4>6. PICK d \in Nat : d = Top.depth /\ d = Len(stack) - 1
        BY <3>1
      <4>7. d = 0
        BY <4>2, <4>5, <4>6
      <4> QED BY <4>6, <4>7
    <3>3. CASE Top.node # 0
      <4>1. Top.node \in Size /\ derived[Top.node].depth = 0
        BY <3>1, <3>2, <3>3 DEF Nodes, Size, DepthOf
      <4>2. PICK p : /\ p = derived[Top.node].parent /\ p \in 0..(Top.node - 1)
                     /\ 0 = DepthOf(p) + 1
        BY <4>1 DEF EdgeInv, TrueEdge
      <4>3. DepthOf(p) \in Nat
        <5>1. CASE p = 0
          BY <5>1 DEF DepthOf
        <5>2. CASE p # 0
          <6>1. derived \in Seq(DerivedObjects) /\ p \in 1..Len(derived)
            BY <4>1, <4>2, <5>2, WalkIsStackInv DEF StackInv, Size
          <6>2. derived[p] \in DerivedObjects
            BY <6>1
          <6> QED BY <5>2, <6>2 DEF DepthOf, DerivedObjects
        <5> QED BY <5>1, <5>2
      <4> QED BY <4>2, <4>3
    <3> QED BY <2>2, <3>1, <3>3
  <2>4. Whole(Top.node)
    BY <2>3 DEF Whole, LeftUnopened
  <2> QED BY <1>1, <2>1, <2>4, WholeAfterLeave
<1>3. CASE OpenLeaf
  <2>1. Leave /\ outcome = "walking"
    BY <1>3, WhileWalking DEF OpenLeaf, Opening, Return, Leave
  <2>2. Parent.form = "plain"
    BY <1>1, <1>3 DEF OpenLeaf, Return
  <2>3. Object(Top.node).members = <<>>
    BY <2>1, <2>2, WhileWalking DEF WellFormed, Object, Parent
  <2>4. Whole(Top.node)
    BY <2>3 DEF Whole, Places
  <2> QED BY <1>1, <2>1, <2>4, WholeAfterLeave
<1>4. CASE FailToOpen
  BY <1>1, <1>4 DEF FailToOpen, Abort
<1>5. CASE OpenContainer
  <2>1. Advance /\ Top.next = 0 /\ outcome = "walking"
    <3>1. Top.next = 0 /\ Top.depth < MaxRecursionDepth /\ stack # <<>> /\ 0 + 1 = 1
      BY <1>5, WhileWalking DEF OpenContainer, Opening
    <3>2. stack' = <<[Top EXCEPT !.next = 1]>> \o Tail(stack) /\ derived' = derived
      BY <1>5 DEF OpenContainer
    <3>3. [Top EXCEPT !.next = 1] = [Top EXCEPT !.next = @ + 1]
      BY <3>1
    <3> QED BY <1>5, <3>1, <3>2, <3>3 DEF OpenContainer, Opening, Advance
  <2>2. ~TooMany
    BY <1>1, <1>5 DEF OpenContainer
  <2>3. Cardinality(Listed(Parent)) \in Nat
    BY <2>1, WhileWalking, PlacesAreFew
  <2>4. Uncut(Top.node)
    BY <2>1, <2>2, <2>3, BudgetAssumption DEF TooMany, Uncut, Capped, Object, Parent
  <2> QED BY <1>1, <2>1, <2>4, WholeAfterAdvance
<1>6. CASE EndLoop
  <2>1. Leave /\ outcome = "walking" /\ Top.next > 0 /\ ~InLoop
    BY <1>6, WhileWalking DEF EndLoop, Return, Leave
  <2>2. /\ Top = stack[1] /\ 1 \in 1..Len(stack) /\ Top.next \in Nat
        /\ Parent.members \in Seq(Members) /\ Object(Top.node) = Parent
    BY <2>1, WhileWalking DEF Object, Parent
  <2>3. TakenUpTo(Top.node, Top.next) /\ (Top.next > 0 => Uncut(Top.node))
    BY <1>1, <2>2 DEF CallsInOrder
  <2>4. ASSUME NEW k \in Places(Top.node), ~(k < Top.next) PROVE k \notin Listed(Parent)
    <3>1. k \in Nat /\ DOMAIN Parent.members = 1..Len(Parent.members) /\ k \in 1..Len(Parent.members)
      BY <2>2, <2>4 DEF Places
    <3>2. Top.next \in DOMAIN Parent.members
      BY <2>1, <2>2, <2>4, <3>1
    <3>3. ~InReach
      BY <2>1, <3>2 DEF InLoop
    <3>4. Cardinality(Listed(Parent)) <= MaxChildrenPerObject
      BY <2>1, <2>2, <2>3, <3>3 DEF InReach, Capped, Uncut
    <3>5. ~(Cardinality({i \in Listed(Parent) : i < Top.next}) < MaxChildrenPerObject)
      BY <3>3 DEF InReach
    <3> QED BY <2>2, <2>4, <3>4, <3>5, BudgetAssumption, NoneBehind
  <2>5. ASSUME NEW k \in Places(Top.node) PROVE Settled(Top.node, k)
    <3>1. CASE k < Top.next
      BY <2>3, <2>5, <3>1 DEF TakenUpTo
    <3>2. CASE ~(k < Top.next)
      BY <2>2, <2>4, <2>5, <3>2 DEF Settled, Listed, Places
    <3> QED BY <3>1, <3>2
  <2>7. Whole(Top.node)
    BY <2>5 DEF Whole
  <2> QED BY <1>1, <2>1, <2>7, WholeAfterLeave
<1>7. CASE Break
  BY <1>1, <1>7 DEF Break, Return
<1>8. CASE PassOver
  <2>1. Advance /\ Top.next > 0 /\ outcome = "walking"
    <3>1. stack # <<>> /\ Top.next # 0 /\ Top.next > 0 /\ outcome = "walking"
      BY <1>8, WhileWalking, InTheLoop DEF PassOver, InLoop
    <3> QED BY <1>8, <3>1 DEF PassOver, Skip, Advance
  <2>2. Member.trait = "ignored"
    BY <1>1, <1>8 DEF PassOver, Skip
  <2>3. Settled(Top.node, Top.next)
    BY <2>2 DEF Settled, Member, Object, Parent
  <2>4. Uncut(Top.node)
    BY <1>1, <2>1, WhileWalking DEF CallsInOrder
  <2> QED BY <1>1, <2>1, <2>3, <2>4, WholeAfterAdvance
<1>9. CASE Fail
  BY <1>1, <1>9 DEF Fail, Abort
<1>10. CASE TakeMember
  <2>1. Take
    <3>1. CASE derived' = derived
      <4>1. derived \in Seq(DerivedObjects) /\ derived' = Append(derived, Found)
        BY <1>10, WalkIsStackInv DEF StackInv, TakeMember, Found
      <4>2. Len(derived') = Len(derived) + 1 /\ Len(derived) \in Nat
        BY <4>1
      <4> QED BY <3>1, <4>2
    <3> QED BY <3>1, ActionKinds DEF Kinds, Advance, Leave, GiveUp, Stay
  <2> QED BY <1>1, <1>10, <2>1, WholeAfterTake
<1>11. CASE Expire \/ UNCHANGED vars
  <2>1. stack' = stack /\ derived' = derived
    BY <1>11 DEF Expire, vars
  <2>2. ASSUME NEW node PROVE OnStack(node)' = OnStack(node)
    BY <2>1 DEF OnStack
  <2>3. AllWhole'
    <3> SUFFICES ASSUME NEW node \in Nodes' PROVE (Whole(node) \/ OnStack(node))'
      BY DEF AllWhole
    <3>1. node \in Nodes /\ Whole(node)' = Whole(node)
      BY <1>1, <2>1, SameGraph
    <3> QED BY <1>1, <2>2, <3>1 DEF AllWhole
  <2>4. CallsInOrder'
    <3> SUFFICES ASSUME NEW i \in 1..Len(stack')
                 PROVE  /\ TakenUpTo(stack[i].node, stack[i].next)'
                        /\ (stack[i].next > 0 => Uncut(stack[i].node))'
      BY DEF CallsInOrder
    <3>1. PICK node, next : node = stack[i].node /\ next = stack[i].next
      OBVIOUS
    <3>2. TakenUpTo(node, next) /\ (next > 0 => Uncut(node))
      BY <1>1, <2>1, <3>1 DEF CallsInOrder
    <3>3. TakenUpTo(node, next)' /\ (next > 0 => Uncut(node))'
      BY <1>1, <2>1, <3>2, SameGraph
    <3>4. stack'[i].node = node /\ stack'[i].next = next
      BY <2>1, <3>1
    <3> QED BY <3>3, <3>4 DEF TakenUpTo, Uncut, Settled, Places, Taken, Object, ObjectOf
  <2> QED BY <2>3, <2>4
<1>12. CASE Overlook
  <2>1. Advance /\ Top.next > 0 /\ outcome = "walking"
    <3>1. stack # <<>> /\ Top.next # 0 /\ Top.next > 0 /\ outcome = "walking"
      BY <1>12, WhileWalking, InTheLoop DEF Overlook, InLoop
    <3> QED BY <1>12, <3>1 DEF Overlook, Skip, Advance
  <2>2. Settled(Top.node, Top.next)
    BY <1>12 DEF Overlook, Settled, Member, Object, Parent
  <2>3. Uncut(Top.node)
    BY <1>1, <2>1, WhileWalking DEF CallsInOrder
  <2> QED BY <1>1, <2>1, <2>2, <2>3, WholeAfterAdvance
<1> QED
  BY <1>2, <1>3, <1>4, <1>5, <1>6, <1>7, <1>8, <1>9, <1>10, <1>11, <1>12 DEF Next, Ended

LEMMA WholeInvInit == ASSUME Init PROVE WholeInv
<1>1. /\ Frame(0, 0, 0).node = 0 /\ Frame(0, 0, 0).next = 0
      /\ stack = <<Frame(0, 0, 0)>> /\ derived = <<>>
  BY DEF Init, Frame
<1>2. Nodes = {0} /\ Len(stack) = 1 /\ stack[1].node = 0 /\ stack[1].next = 0
  BY <1>1 DEF Nodes
<1>3. AllWhole
  BY <1>2 DEF AllWhole, OnStack
<1>4. content[Root].members \in Seq(Members)
  BY ContentsAssumption, RootAssumption DEF Init, ContentType
<1>5. TakenUpTo(0, 0)
  BY <1>4 DEF TakenUpTo, Places, Object, ObjectOf
<1>6. CallsInOrder
  BY <1>2, <1>5 DEF CallsInOrder
<1> QED BY <1>3, <1>6 DEF WholeInv, Init

\* A job that ends COMPLETE has taken every member that is listed of every object it holds,
\* directories aside, unless the object is one of the two kinds that LeftUnopened names.
THEOREM CompleteIsWhole == Spec => []CompleteMeansWhole
<1>1. Init => WalkInv /\ EdgeInv /\ WholeInv
  BY WalkInvInit, EdgeInvInit, WholeInvInit
<1>2. WalkInv /\ EdgeInv /\ WholeInv /\ [Next]_vars => WalkInv' /\ EdgeInv' /\ WholeInv'
  BY WalkInvNext, EdgeInvNext, WholeInvNext
<1>3. WalkInv /\ EdgeInv /\ WholeInv => CompleteMeansWhole
  BY WholeInvIsEnough
<1> QED BY <1>1, <1>2, <1>3, PTL DEF Spec

(***************************************************************************)
(* The files.                                                              *)
(***************************************************************************)

LEMMA FilesMatchNext ==
    ASSUME WalkInv, ChildFilesMatch, [Next]_vars
    PROVE  ChildFilesMatch'
<1>1. CASE derived' = derived /\ outcome' = outcome /\ files' = files
  BY <1>1 DEF ChildFilesMatch
<1>2. CASE outcome' # "walking" /\ files' = {}
  BY <1>2 DEF ChildFilesMatch
<1>3. CASE TakeMember
  <2>1. /\ derived \in Seq(DerivedObjects) /\ derived' = Append(derived, Found)
        /\ files' = files \cup {Len(derived)}
        /\ outcome = "walking" /\ outcome' = "walking"
    BY <1>3, WalkIsStackInv DEF StackInv, TakeMember, InLoop, Found, WalkInv, Counted
  <2>2. /\ DOMAIN derived = 1..Len(derived) /\ Len(derived) \in Nat
        /\ DOMAIN derived' = 1..(Len(derived) + 1)
    BY <2>1
  <2>3. files = {n - 1 : n \in 1..Len(derived)}
    BY <2>1, <2>2 DEF ChildFilesMatch
  <2>4. files' = {n - 1 : n \in 1..(Len(derived) + 1)}
    BY <2>1, <2>2, <2>3
  <2> QED BY <2>1, <2>2, <2>4 DEF ChildFilesMatch
<1> QED
  BY <1>1, <1>2, <1>3
  DEF Next, vars, TurnAway, OpenLeaf, FailToOpen, OpenContainer, EndLoop, Break, Overlook,
      PassOver, Skip, LeftByMaterialize, Fail, Abort, Expire, Ended, Return, Opening, InLoop

\* While the walk lasts there is one child file per derived object, under its number, so
\* the exclusive open of the next child finds its name free; after it there is none.
THEOREM ChildFilesAlwaysMatch == Spec => []ChildFilesMatch
<1>1. Init => WalkInv /\ ChildFilesMatch
  <2> SUFFICES ASSUME Init PROVE ChildFilesMatch
    BY WalkInvInit
  <2>1. derived = <<>> /\ files = {} /\ DOMAIN derived = {}
    BY DEF Init
  <2> QED BY <2>1 DEF ChildFilesMatch
<1>2. WalkInv /\ ChildFilesMatch /\ [Next]_vars => WalkInv' /\ ChildFilesMatch'
  BY WalkInvNext, FilesMatchNext
<1> QED BY <1>1, <1>2, PTL DEF Spec


(***************************************************************************)
(* The partial sums of a sequence, and that Total is the last of them.     *)
(***************************************************************************)

Sums(numbers, n, sums) ==
    /\ sums[0] = 0
    /\ \A k \in 1 .. n : sums[k] = sums[k - 1] + numbers[k]

LEMMA TotalIs ==
  ASSUME NEW n \in Nat, NEW numbers \in [1 .. n -> Nat]
  PROVE  \E sums : Sums(numbers, n, sums) /\ Total(numbers) = sums[n]
  <1> DEFINE step == [pair \in Nat \X (1 .. n) |-> pair[1] + numbers[pair[2]]]
             fold == CHOOSE f : f = [s \in SUBSET (1 .. n) |->
                        IF s = {} THEN 0 ELSE f[s \ {Highest(s)}] + numbers[Highest(s)]]
  <1>1. Total(numbers) = fold[1 .. n]
    BY DEF Total, FoldLeft, MapThenFoldSet, Max, Highest
  <1>2. step \in [Nat \X (1 .. n) -> Nat]
    OBVIOUS
  <1>3. PICK some : Folds(Nat, 0, step, n, some)
    BY <1>2, FoldExists
  <1>4. some = [s \in SUBSET (1 .. n) |->
                  IF s = {} THEN 0 ELSE some[s \ {Highest(s)}] + numbers[Highest(s)]]
    <2>1. ASSUME NEW s \in SUBSET (1 .. n), s # {}
          PROVE  some[s] = some[s \ {Highest(s)}] + numbers[Highest(s)]
      <3>1. Highest(s) \in s
        BY <2>1, HighestIsOne
      <3>2. some[s] = step[some[s \ {Highest(s)}], Highest(s)]
        BY <1>3, <2>1 DEF Folds, FoldAt
      <3>3. some[s \ {Highest(s)}] \in Nat /\ Highest(s) \in 1 .. n
        BY <1>3, <3>1 DEF Folds
      <3> QED
        BY <3>2, <3>3
    <2>2. some[{}] = 0
      BY <1>3 DEF Folds, FoldAt
    <2> QED
      BY <1>3, <2>1, <2>2 DEF Folds
  <1>5. fold = [s \in SUBSET (1 .. n) |->
                  IF s = {} THEN 0 ELSE fold[s \ {Highest(s)}] + numbers[Highest(s)]]
    BY <1>4
  <1> HIDE DEF fold
  <1> DEFINE sums == [k \in 0 .. n |-> fold[1 .. k]]
  <1>6. sums[0] = 0
    <2>1. 1 .. 0 = {} /\ {} \in SUBSET (1 .. n)
      OBVIOUS
    <2> QED
      BY <1>5, <2>1
  <1>7. ASSUME NEW k \in 1 .. n PROVE sums[k] = sums[k - 1] + numbers[k]
    <2>1. /\ 1 .. k \in SUBSET (1 .. n) /\ 1 .. k # {} /\ Highest(1 .. k) = k
          /\ (1 .. k) \ {k} = 1 .. (k - 1)
      BY UpTo
    <2>2. fold[1 .. k] = fold[1 .. (k - 1)] + numbers[k]
      BY <1>5, <2>1
    <2> QED
      BY <2>2
  <1>8. sums[n] = fold[1 .. n]
    OBVIOUS
  <1> HIDE DEF sums
  <1>9. Sums(numbers, n, sums)
    BY <1>6, <1>7 DEF Sums
  <1> QED
    BY <1>1, <1>8, <1>9

(***************************************************************************)
(* What Total is of the sequences the steps of the walk make.              *)
(***************************************************************************)

LEMMA TotalOfNone ==
  ASSUME NEW numbers \in [{} -> Nat]
  PROVE  Total(numbers) = 0
  <1>1. 0 \in Nat /\ 1 .. 0 = {} /\ numbers \in [1 .. 0 -> Nat]
    OBVIOUS
  <1>2. PICK sums : Sums(numbers, 0, sums) /\ Total(numbers) = sums[0]
    BY <1>1, TotalIs
  <1> QED
    BY <1>2 DEF Sums

LEMMA TotalIsNat ==
  ASSUME NEW n \in Nat, NEW numbers \in [1 .. n -> Nat]
  PROVE  Total(numbers) \in Nat
  <1>1. PICK sums : Sums(numbers, n, sums) /\ Total(numbers) = sums[n]
    BY TotalIs
  <1> DEFINE S == {k \in Nat : sums[k] \in Nat}
  <1>2. 0 \in S
    BY <1>1 DEF Sums
  <1>3. ASSUME NEW k \in 1 .. n, k - 1 \in S PROVE k \in S
    BY <1>1, <1>3 DEF Sums
  <1> HIDE DEF S
  <1>4. S \in SUBSET Nat
    BY DEF S
  <1>5. n \in S
    BY <1>2, <1>3, <1>4, InductionUpTo
  <1> QED
    BY <1>1, <1>5 DEF S

LEMMA TotalOfZeros ==
  ASSUME NEW n \in Nat, NEW numbers \in [1 .. n -> Nat], \A k \in 1 .. n : numbers[k] = 0
  PROVE  Total(numbers) = 0
  <1>1. PICK sums : Sums(numbers, n, sums) /\ Total(numbers) = sums[n]
    BY TotalIs
  <1> DEFINE S == {k \in Nat : sums[k] = 0}
  <1>2. 0 \in S
    BY <1>1 DEF Sums
  <1>3. ASSUME NEW k \in 1 .. n, k - 1 \in S PROVE k \in S
    BY <1>1, <1>3 DEF Sums
  <1> HIDE DEF S
  <1>4. S \in SUBSET Nat
    BY DEF S
  <1>5. n \in S
    BY <1>2, <1>3, <1>4, InductionUpTo
  <1> QED
    BY <1>1, <1>5 DEF S

\* One more at the end.
LEMMA TotalOfAppended ==
  ASSUME NEW n \in Nat, NEW short \in [1 .. n -> Nat], NEW long \in [1 .. n + 1 -> Nat],
         \A k \in 1 .. n : long[k] = short[k]
  PROVE  Total(long) = Total(short) + long[n + 1]
  <1>1. PICK sums : Sums(short, n, sums) /\ Total(short) = sums[n]
    BY TotalIs
  <1>2. PICK more : Sums(long, n + 1, more) /\ Total(long) = more[n + 1]
    BY TotalIs
  <1> DEFINE S == {k \in Nat : more[k] = sums[k]}
  <1>3. 0 \in S
    BY <1>1, <1>2 DEF Sums
  <1>4. ASSUME NEW k \in 1 .. n, k - 1 \in S PROVE k \in S
    <2>1. sums[k] = sums[k - 1] + short[k] /\ more[k] = more[k - 1] + long[k]
      BY <1>1, <1>2 DEF Sums
    <2> QED
      BY <1>4, <2>1
  <1> HIDE DEF S
  <1>5. S \in SUBSET Nat
    BY DEF S
  <1>6. n \in S
    BY <1>3, <1>4, <1>5, InductionUpTo
  <1>7. more[n + 1] = more[n] + long[n + 1]
    <2>1. n + 1 \in 1 .. n + 1 /\ (n + 1) - 1 = n
      OBVIOUS
    <2> QED
      BY <1>2, <2>1 DEF Sums
  <1> QED
    BY <1>1, <1>2, <1>6, <1>7 DEF S

\* One more at the front.
LEMMA TotalOfPushed ==
  ASSUME NEW n \in Nat, NEW short \in [1 .. n -> Nat], NEW long \in [1 .. n + 1 -> Nat],
         \A k \in 1 .. n : long[k + 1] = short[k]
  PROVE  Total(long) = long[1] + Total(short)
  <1>1. PICK sums : Sums(short, n, sums) /\ Total(short) = sums[n]
    BY TotalIs
  <1>2. PICK more : Sums(long, n + 1, more) /\ Total(long) = more[n + 1]
    BY TotalIs
  <1> DEFINE S == {k \in Nat : sums[k] \in Nat /\ more[k + 1] = long[1] + sums[k]}
  <1>3. 0 \in S
    <2>1. 1 \in 1 .. n + 1 /\ 1 - 1 = 0 /\ 0 + 1 = 1 /\ long[1] \in Nat
      OBVIOUS
    <2>2. more[1] = more[0] + long[1] /\ more[0] = 0 /\ sums[0] = 0
      BY <1>1, <1>2, <2>1 DEF Sums
    <2> QED
      BY <2>1, <2>2
  <1>4. ASSUME NEW k \in 1 .. n, k - 1 \in S PROVE k \in S
    <2>1. /\ k + 1 \in 1 .. n + 1 /\ (k + 1) - 1 = k /\ (k - 1) + 1 = k
          /\ long[1] \in Nat /\ short[k] \in Nat /\ long[k + 1] = short[k]
      OBVIOUS
    <2>2. sums[k] = sums[k - 1] + short[k] /\ more[k + 1] = more[k] + long[k + 1]
      BY <1>1, <1>2, <2>1 DEF Sums
    <2>3. sums[k - 1] \in Nat /\ more[k] = long[1] + sums[k - 1]
      BY <1>4, <2>1
    <2>4. sums[k] \in Nat /\ more[k + 1] = long[1] + sums[k]
      <3>1. PICK a \in Nat, b \in Nat, c \in Nat :
                a = long[1] /\ b = sums[k - 1] /\ c = short[k]
        BY <2>1, <2>3
      <3>2. sums[k] = b + c /\ more[k + 1] = (a + b) + c
        BY ONLY <2>1, <2>2, <2>3, <3>1
      <3>3. b + c \in Nat /\ (a + b) + c = a + (b + c)
        BY ONLY a \in Nat, b \in Nat, c \in Nat
      <3> QED
        BY ONLY <3>1, <3>2, <3>3
    <2>5. k \in Nat
      OBVIOUS
    <2> QED
      BY ONLY <2>4, <2>5
  <1> HIDE DEF S
  <1>5. S \in SUBSET Nat
    BY DEF S
  <1>6. n \in S
    BY <1>3, <1>4, <1>5, InductionUpTo
  <1> QED
    BY <1>1, <1>2, <1>6 DEF S

(***************************************************************************)
(* What the steps of the walk do to the three sequences.                   *)
(***************************************************************************)

LEMMA SequencesFit ==
  ASSUME WalkInv, EdgeInv
  PROVE  /\ Len(stack) \in Nat /\ Charges \in [1 .. Len(stack) -> Nat]
         /\ Len(derived) \in Nat /\ DOMAIN derived = Size /\ Size = 1 .. Len(derived)
         /\ ChildBytes \in [Size -> Nat] /\ PartitionBytes \in [Size -> Nat]
  <1>1. stack \in Seq(Calls) /\ derived \in Seq(DerivedObjects)
    BY WalkIsStackInv DEF StackInv
  <1>2. Len(stack) \in Nat /\ DOMAIN stack = 1 .. Len(stack)
    BY <1>1
  <1>3. Len(derived) \in Nat /\ DOMAIN derived = Size /\ Size = 1 .. Len(derived)
    BY <1>1 DEF Size
  <1>4. ASSUME NEW i \in 1 .. Len(stack) PROVE stack[i].charge \in Nat
    <2>1. stack[i] \in Calls
      BY <1>1
    <2> QED
      BY <2>1 DEF Calls
  <1>5. ASSUME NEW n \in Size PROVE Bytes(derived[n]) \in Nat
    <2>1. derived[n] \in DerivedObjects
      BY <1>1, <1>3
    <2>2. derived[n].object \in Objects
      BY <2>1 DEF DerivedObjects
    <2>3. content[derived[n].object] \in ContentType
      BY <2>2 DEF WalkInv, TypeOK
    <2> QED
      BY <2>3 DEF Bytes, ContentType
  <1>6. Charges \in [1 .. Len(stack) -> Nat]
    BY <1>2, <1>4 DEF Charges
  <1>7. ChildBytes \in [Size -> Nat] /\ PartitionBytes \in [Size -> Nat]
    BY <1>3, <1>5 DEF ChildBytes, PartitionBytes
  <1> QED
    BY <1>2, <1>3, <1>6, <1>7

LEMMA SameChildren ==
  ASSUME derived' = derived, content' = content
  PROVE  ChildBytes' = ChildBytes /\ PartitionBytes' = PartitionBytes
  BY DEF ChildBytes, PartitionBytes, Bytes, ParentOf

\* A call that moves on keeps its charge.
LEMMA SameCharges ==
  ASSUME StackInv, stack # <<>>, stack' = <<[Top EXCEPT !.next = @ + 1]>> \o Tail(stack)
  PROVE  Charges' = Charges
  <1> DEFINE x == [Top EXCEPT !.next = @ + 1]
  <1>1. stack \in Seq(Calls) /\ Top \in Calls /\ Top = stack[1] /\ x \in Calls
    BY TopIsACall DEF StackInv
  <1>2. x.charge = Top.charge
    BY <1>1, NextMember
  <1> HIDE DEF x
  <1>3. /\ stack' \in Seq(Calls) /\ Len(stack') = Len(stack) /\ stack'[1] = x
        /\ \A i \in 2 .. Len(stack') : stack'[i] = stack[i]
    BY <1>1, Advanced DEF x
  <1>4. DOMAIN stack = 1 .. Len(stack) /\ DOMAIN stack' = 1 .. Len(stack) /\ Len(stack) \in Nat
    BY <1>1, <1>3
  <1>5. \A i \in 1 .. Len(stack) : stack'[i].charge = stack[i].charge
    <2> TAKE i \in 1 .. Len(stack)
    <2>1. CASE i = 1
      BY <1>1, <1>2, <1>3, <2>1
    <2>2. CASE i # 1
      BY <1>3, <1>4, <2>2
    <2> QED
      BY <2>1, <2>2
  <1> QED
    BY <1>4, <1>5 DEF Charges

\* A call that returns takes its charge along.
LEMMA ReturnedCharge ==
  ASSUME WalkInv, WalkInv', EdgeInv, EdgeInv', outcome = "walking", stack' = Tail(stack)
  PROVE  Total(Charges) = Top.charge + Total(Charges')
  <1>1. /\ stack \in Seq(Calls) /\ stack # <<>> /\ Top = stack[1]
        /\ Len(stack') = Len(stack) - 1 /\ Len(stack) \in Nat /\ Len(stack') \in Nat
        /\ \A i \in 1 .. Len(stack') : stack'[i] = stack[i + 1]
    <2>1. stack \in Seq(Calls) /\ stack # <<>> /\ Top = stack[1]
      BY WhileWalking, WalkIsStackInv DEF StackInv
    <2>2. /\ stack' \in Seq(Calls) /\ Len(stack') = Len(stack) - 1
          /\ \A i \in 1 .. Len(stack') : stack'[i] = stack[i + 1]
      BY <2>1, Returned
    <2>3. Len(stack) \in Nat /\ Len(stack') \in Nat
      BY <2>1, <2>2
    <2> QED
      BY <2>1, <2>2, <2>3
  <1>2. PICK n \in Nat : n = Len(stack') /\ n + 1 = Len(stack)
    <2>1. Len(stack') \in Nat /\ Len(stack') + 1 = Len(stack)
      BY <1>1
    <2> QED
      BY ONLY <2>1
  <1>3. PICK short, long : short = Charges' /\ long = Charges
    OBVIOUS
  <1>4. long \in [1 .. n + 1 -> Nat]
    BY <1>2, <1>3, SequencesFit
  <1>5. short \in [1 .. n -> Nat]
    <2>1. (Charges \in [1 .. Len(stack) -> Nat])'
      BY SequencesFit, PTL
    <2> QED
      BY <1>2, <1>3, <2>1
  <1>6. ASSUME NEW k \in 1 .. n PROVE long[k + 1] = short[k]
    <2>1. /\ DOMAIN long = DOMAIN stack /\ DOMAIN short = DOMAIN stack'
          /\ k + 1 \in DOMAIN long /\ k \in DOMAIN short
      BY <1>3, <1>4, <1>5 DEF Charges
    <2>2. long[k + 1] = stack[k + 1].charge /\ short[k] = stack'[k].charge
      BY <1>3, <2>1 DEF Charges
    <2> QED
      BY <1>1, <1>2, <2>2
  <1>7. long[1] = Top.charge
    <2>1. 1 \in 1 .. n + 1 /\ DOMAIN long = DOMAIN stack
      BY <1>3 DEF Charges
    <2> QED
      BY <1>1, <1>3, <1>4, <2>1 DEF Charges
  <1>8. Total(long) = long[1] + Total(short)
    BY <1>4, <1>5, <1>6, TotalOfPushed
  <1> QED
    BY <1>3, <1>7, <1>8

\* A member taken is one more child, a partition if its object is a disk.
LEMMA TakenChild ==
  ASSUME WalkInv, WalkInv', EdgeInv, EdgeInv', outcome = "walking", Take, content' = content
  PROVE  /\ Total(ChildBytes') = Total(ChildBytes) + Child.bytes
         /\ Total(PartitionBytes') = Total(PartitionBytes) + Charge
  <1>1. PICK n \in Nat : n = Len(derived)
    BY GraphGrows
  <1>2. /\ DOMAIN derived = 1 .. n /\ Size = 1 .. n /\ DOMAIN derived' = 1 .. n + 1
        /\ \A k \in 1 .. n : derived'[k] = derived[k]
        /\ derived'[n + 1] = Found
    <2>1. derived' \in Seq(DerivedObjects)
      BY TakeNests, WalkIsStackInv DEF StackInv
    <2> QED
      BY <1>1, <2>1, GraphGrows DEF Size
  <1>3. ASSUME NEW k \in 1 .. n, NEW d, d = derived[k]
        PROVE  derived'[k] = d /\ Bytes(d)' = Bytes(d) /\ ParentOf(d)' = ParentOf(d)
    <2>1. d.parent \in 0 .. (k - 1) /\ derived'[k] = d
      BY <1>2, <1>3 DEF EdgeInv, TrueEdge
    <2>2. d.parent # 0 => d.parent \in 1 .. n /\ derived'[d.parent] = derived[d.parent]
      BY <1>2, <2>1
    <2> QED
      BY <2>1, <2>2 DEF Bytes, ParentOf
  <1>4. ASSUME NEW d, d = derived'[n + 1]
        PROVE  Bytes(d)' = Child.bytes /\ ParentOf(d)' = Parent
    <2>1. Top.node # 0 => Top.node \in 1 .. n /\ derived'[Top.node] = derived[Top.node]
      BY <1>1, <1>2, GraphGrows DEF Nodes
    <2>2. d.object = Member.object /\ d.parent = Top.node
      BY <1>2, <1>4, GraphGrows
    <2>3. Bytes(d)' = Child.bytes
      BY <2>2 DEF Bytes, Child
    <2>4. ParentOf(d)' = Parent
      BY <2>1, <2>2, GraphGrows DEF ParentOf
    <2> QED
      BY <2>3, <2>4
  <1>5. /\ ChildBytes' \in [1 .. n + 1 -> Nat]
        /\ PartitionBytes' \in [1 .. n + 1 -> Nat]
    <2>1. (/\ DOMAIN derived = Size
           /\ ChildBytes \in [Size -> Nat] /\ PartitionBytes \in [Size -> Nat])'
      BY SequencesFit, PTL
    <2> QED
      BY <1>2, <2>1
  <1>6. PICK short, long : short = ChildBytes /\ long = ChildBytes'
    OBVIOUS
  <1>7. Total(long) = Total(short) + Child.bytes
    <2>1. short \in [1 .. n -> Nat] /\ long \in [1 .. n + 1 -> Nat]
      BY <1>2, <1>6, <1>5, SequencesFit
    <2>2. \A k \in 1 .. n : long[k] = short[k]
      <3> TAKE k \in 1 .. n
      <3>1. PICK d : d = derived[k]
        OBVIOUS
      <3>2. derived'[k] = d /\ Bytes(d)' = Bytes(d)
        BY <1>3, <3>1
      <3>3. short[k] = Bytes(d)
        BY <1>2, <1>6, <3>1 DEF ChildBytes
      <3>4. long[k] = Bytes(d)'
        <4>1. k \in 1 .. n + 1
          OBVIOUS
        <4> QED
          BY <1>2, <1>6, <3>2, <4>1 DEF ChildBytes, Bytes
      <3> QED
        BY <3>2, <3>3, <3>4
    <2>3. long[n + 1] = Child.bytes
      <3>1. n + 1 \in 1 .. n + 1
        OBVIOUS
      <3>2. PICK d : d = derived'[n + 1]
        OBVIOUS
      <3>3. long[n + 1] = Bytes(d)'
        BY <1>2, <1>6, <3>1, <3>2 DEF ChildBytes, Bytes
      <3> QED
        BY <1>4, <3>2, <3>3
    <2> QED
      BY <2>1, <2>2, <2>3, TotalOfAppended
  <1>8. PICK few, many : few = PartitionBytes /\ many = PartitionBytes'
    OBVIOUS
  <1>9. Total(many) = Total(few) + Charge
    <2>1. few \in [1 .. n -> Nat] /\ many \in [1 .. n + 1 -> Nat]
      BY <1>2, <1>8, <1>5, SequencesFit
    <2>2. \A k \in 1 .. n : many[k] = few[k]
      <3> TAKE k \in 1 .. n
      <3>1. PICK d : d = derived[k]
        OBVIOUS
      <3>2. derived'[k] = d /\ Bytes(d)' = Bytes(d) /\ ParentOf(d)' = ParentOf(d)
        BY <1>3, <3>1
      <3>3. few[k] = IF ParentOf(d).form = "disk" THEN Bytes(d) ELSE 0
        BY <1>2, <1>8, <3>1 DEF PartitionBytes
      <3>4. many[k] = IF ParentOf(d)'.form = "disk" THEN Bytes(d)' ELSE 0
        <4>1. k \in 1 .. n + 1
          OBVIOUS
        <4> QED
          BY <1>2, <1>8, <3>2, <4>1 DEF PartitionBytes, Bytes, ParentOf
      <3> QED
        BY <3>2, <3>3, <3>4
    <2>3. many[n + 1] = Charge
      <3>1. n + 1 \in 1 .. n + 1
        OBVIOUS
      <3>2. PICK d : d = derived'[n + 1]
        OBVIOUS
      <3>3. many[n + 1] = IF ParentOf(d)'.form = "disk" THEN Bytes(d)' ELSE 0
        BY <1>2, <1>8, <3>1, <3>2 DEF PartitionBytes, Bytes, ParentOf
      <3> QED
        BY <1>4, <3>2, <3>3 DEF Charge
    <2> QED
      BY <2>1, <2>2, <2>3, TotalOfAppended
  <1> QED
    BY <1>6, <1>7, <1>8, <1>9

(***************************************************************************)
(* The counters.                                                           *)
(***************************************************************************)

\* What a step leaves of the sums if it takes no member and charges nothing.
LEMMA SumsStay ==
  ASSUME WalkInv, UsageIsTrue, derived' = derived, content' = content,
         materialized' = materialized, extracted' = extracted,
         outcome = "walking" \/ (outcome' = outcome /\ completeness' = completeness),
         outcome' = "walking" =>
            outcome = "walking" /\ partitioned' = partitioned /\ Charges' = Charges,
         discovered' = discovered \/ discovered' = discovered + 1
  PROVE  UsageIsTrue'
  <1>1. ChildBytes' = ChildBytes /\ PartitionBytes' = PartitionBytes
    BY SameChildren
  <1>2. discovered \in Nat /\ materialized \in Nat /\ discovered >= materialized
    BY DEF UsageIsTrue, WalkInv, TypeOK
  <1>3. discovered' >= materialized'
    BY <1>2
  <1> QED
    BY <1>1, <1>3 DEF UsageIsTrue

\* While the walk lasts, no child is counted that is not recorded.
LEMMA NoneLostYet ==
  ASSUME WalkInv, UsageIsTrue, outcome = "walking"
  PROVE  /\ materialized = Len(derived) /\ extracted = Total(ChildBytes)
         /\ materialized \in Nat /\ extracted \in Nat /\ discovered \in Nat
         /\ discovered >= materialized
  BY DEF UsageIsTrue, WalkInv, TypeOK, Counted

\* A child that is counted when an exception ends the walk before it is recorded.
LEMMA SumsAfterLoss ==
  ASSUME WalkInv, UsageIsTrue, InLoop, NEW caught \in BOOLEAN, Abort(caught),
         discovered' = discovered + 1, materialized' = materialized + 1,
         extracted' = extracted + Child.bytes
  PROVE  UsageIsTrue'
  <1>1. derived' = derived /\ content' = content /\ outcome = "walking"
    BY DEF Abort, InLoop
  <1>2. ChildBytes' = ChildBytes
    BY <1>1, SameChildren
  <1>3. Child.bytes \in Nat
    BY InTheLoop
  <1>4. /\ materialized' = Len(derived') + 1 /\ extracted' >= Total(ChildBytes')
        /\ discovered' >= materialized'
    BY <1>1, <1>2, <1>3, NoneLostYet
  <1>5. outcome' = "raised" \/ (outcome' = "done" /\ completeness' = "PARTIAL_ERROR")
    BY DEF Abort
  <1> QED
    BY <1>4, <1>5 DEF UsageIsTrue

LEMMA SumsAfterReturn ==
  ASSUME WalkInv, WalkInv', EdgeInv, EdgeInv', UsageIsTrue, outcome = "walking",
         NEW c, NEW e, Return(c, e), derived' = derived, content' = content,
         materialized' = materialized, extracted' = extracted,
         discovered' = discovered \/ discovered' = discovered + 1
  PROVE  UsageIsTrue'
  <1>1. ChildBytes' = ChildBytes /\ PartitionBytes' = PartitionBytes
    BY SameChildren
  <1>2. stack' = Tail(stack) /\ partitioned' = partitioned + Top.charge
    BY DEF Return
  <1>3. Total(Charges) = Top.charge + Total(Charges')
    BY <1>2, ReturnedCharge
  <1>4. partitioned \in Nat /\ Top.charge \in Nat /\ Total(Charges') \in Nat
    <2>1. partitioned \in Nat /\ Top.charge \in Nat
      BY WhileWalking DEF WalkInv, TypeOK
    <2>2. (Len(stack) \in Nat /\ Charges \in [1 .. Len(stack) -> Nat])'
      BY SequencesFit, PTL
    <2>3. PICK n, charges : n = Len(stack') /\ charges = Charges'
      OBVIOUS
    <2>4. n \in Nat /\ charges \in [1 .. n -> Nat]
      BY <2>2, <2>3
    <2>5. Total(charges) \in Nat
      BY <2>4, TotalIsNat
    <2> QED
      BY <2>1, <2>3, <2>5
  <1>5. partitioned' + Total(Charges') = Total(PartitionBytes')
    <2>1. partitioned + Total(Charges) = Total(PartitionBytes)
      BY DEF UsageIsTrue
    <2>2. partitioned' + Total(Charges') = partitioned + Total(Charges)
      BY <1>2, <1>3, <1>4
    <2> QED
      BY <1>1, <2>1, <2>2
  <1>6. discovered' >= materialized'
    BY NoneLostYet
  <1>7. materialized' = Len(derived') /\ extracted' = Total(ChildBytes')
    BY <1>1, NoneLostYet
  <1> QED
    BY <1>5, <1>6, <1>7 DEF UsageIsTrue

LEMMA SumsAfterTake ==
  ASSUME WalkInv, WalkInv', EdgeInv, EdgeInv', UsageIsTrue, TakeMember, Take
  PROVE  UsageIsTrue'
  <1>1. /\ outcome = "walking" /\ outcome' = "walking" /\ content' = content
        /\ extracted' = extracted + Child.bytes /\ discovered' = discovered + 1
        /\ materialized' = materialized + 1
    BY DEF TakeMember, InLoop
  <1>2. /\ Total(ChildBytes') = Total(ChildBytes) + Child.bytes
        /\ Total(PartitionBytes') = Total(PartitionBytes) + Charge
    BY <1>1, TakenChild
  <1>3. /\ extracted = Total(ChildBytes) /\ partitioned + Total(Charges) = Total(PartitionBytes)
        /\ discovered \in Nat /\ Len(derived) \in Nat /\ discovered >= materialized
        /\ materialized = Len(derived)
        /\ partitioned \in Nat /\ Len(derived') = Len(derived) + 1
    BY <1>1, GraphGrows, NoneLostYet DEF UsageIsTrue, WalkInv, TypeOK
  <1>4. Charge \in Nat
    BY InTheLoop DEF TakeMember, Charge
  <1>5. Total(Charges) \in Nat
    BY SequencesFit, TotalIsNat
  <1> DEFINE x == [Top EXCEPT !.next = @ + 1]
             rest == <<x>> \o Tail(stack)
  <1>6. stack \in Seq(Calls) /\ stack # <<>> /\ x \in Calls /\ rest \in Seq(Calls) /\ Len(rest) = Len(stack)
    <2>1. stack \in Seq(Calls) /\ stack # <<>>
      BY <1>1, WhileWalking, WalkIsStackInv DEF StackInv
    <2>2. x \in Calls
      BY <2>1, TopIsACall
    <2> HIDE DEF x
    <2>3. rest \in Seq(Calls) /\ Len(rest) = Len(stack)
      BY <2>1, <2>2, Advanced
    <2> QED
      BY <2>1, <2>2, <2>3
  <1>7. partitioned' + Total(Charges') = Total(PartitionBytes')
    <2>1. CASE TooDeep(Top.depth + 1)
      <3>1. stack' = rest /\ partitioned' = partitioned + Charge
        BY <2>1 DEF TakeMember
      <3>2. Charges' = Charges
        BY <1>6, <3>1, SameCharges, WalkIsStackInv
      <3>3. partitioned' + Total(Charges) = Total(PartitionBytes')
        BY <1>2, <1>3, <1>4, <1>5, <3>1
      <3> QED
        BY <3>2, <3>3
    <2>2. CASE ~TooDeep(Top.depth + 1)
      <3> DEFINE y == Frame(Len(derived) + 1, Top.depth + 1, Charge)
      <3>1. stack' = <<y>> \o rest /\ partitioned' = partitioned
        BY <2>2 DEF TakeMember
      <3>2. y \in Calls /\ y.charge = Charge
        <4>1. Top.depth + 1 \in Nat /\ Len(derived) + 1 \in Nat
          BY <1>1, <1>3, WhileWalking
        <4> QED
          BY <1>4, <4>1 DEF Frame, Calls
      <3> HIDE DEF y, x
      <3>3. /\ stack' \in Seq(Calls) /\ Len(stack') = Len(stack) + 1
            /\ stack'[1] = y /\ stack'[2] = x
            /\ \A i \in 3 .. Len(stack') : stack'[i] = stack[i - 1]
        BY <1>6, <3>1, <3>2, Called
      <3>4. x.charge = Top.charge /\ Top = stack[1]
        BY <1>6, TopIsACall, NextMember DEF x
      <3>5. PICK n \in Nat : n = Len(stack)
        <4>1. Len(stack) \in Nat
          BY <1>6
        <4> QED
          BY ONLY <4>1
      <3>6. PICK short, long : short = Charges /\ long = Charges'
        OBVIOUS
      <3>7. short \in [1 .. n -> Nat] /\ long \in [1 .. n + 1 -> Nat]
        <4>1. (Charges \in [1 .. Len(stack) -> Nat])'
          BY SequencesFit, PTL
        <4> QED
          BY <3>3, <3>5, <3>6, <4>1, SequencesFit
      <3>8. DOMAIN stack = 1 .. n /\ DOMAIN stack' = 1 .. n + 1
        BY <1>6, <3>3, <3>5
      <3>9. ASSUME NEW k \in 1 .. n PROVE long[k + 1] = short[k]
        <4>1. k + 1 \in 1 .. n + 1
          OBVIOUS
        <4>2. long[k + 1] = stack'[k + 1].charge /\ short[k] = stack[k].charge
          BY <3>6, <3>8, <4>1 DEF Charges
        <4>3. stack'[k + 1].charge = stack[k].charge
          <5>1. CASE k = 1
            BY <3>3, <3>4, <5>1
          <5>2. CASE k # 1
            <6>1. k + 1 \in 3 .. Len(stack') /\ (k + 1) - 1 = k
              BY <3>3, <3>5, <5>2
            <6> QED
              BY <3>3, <6>1
          <5> QED
            BY <5>1, <5>2
        <4> QED
          BY <4>2, <4>3
      <3>10. long[1] = Charge
        <4>1. 1 \in 1 .. n + 1
          OBVIOUS
        <4> QED
          BY <3>2, <3>3, <3>6, <3>8, <4>1 DEF Charges
      <3>11. Total(long) = Charge + Total(short)
        BY <3>7, <3>9, <3>10, TotalOfPushed
      <3>12. Total(Charges') = Charge + Total(Charges)
        BY <3>6, <3>11
      <3> QED
        BY <1>2, <1>3, <1>4, <1>5, <3>1, <3>12
    <2> QED
      BY <2>1, <2>2
  <1>8. materialized' = Len(derived') /\ extracted' = Total(ChildBytes')
    BY <1>1, <1>2, <1>3
  <1>9. discovered' >= materialized'
    BY <1>1, <1>3
  <1> QED
    BY <1>1, <1>7, <1>8, <1>9 DEF UsageIsTrue

LEMMA TakeIsATake == ASSUME WalkInv, TakeMember PROVE Take
  <1>1. CASE derived' = derived
    <2>1. derived \in Seq(DerivedObjects) /\ derived' = Append(derived, Found)
      BY WalkIsStackInv DEF StackInv, TakeMember, Found
    <2>2. Len(derived') = Len(derived) + 1 /\ Len(derived) \in Nat
      BY <2>1
    <2> QED
      BY <1>1, <2>2
  <1> QED
    BY <1>1, ActionKinds DEF Kinds, Advance, Leave, GiveUp, Stay, Next

LEMMA UsageNext ==
  ASSUME WalkInv, WalkInv', EdgeInv, EdgeInv', UsageIsTrue, [Next]_vars
  PROVE  UsageIsTrue'
  <1>0. content' = content
    BY ActionKinds
  <1>1. CASE TurnAway
    BY <1>0, <1>1, SumsAfterReturn DEF TurnAway, Opening
  <1>2. CASE OpenLeaf
    BY <1>0, <1>2, SumsAfterReturn DEF OpenLeaf, Opening
  <1>3. CASE FailToOpen
    BY <1>3, SumsStay DEF FailToOpen, Opening, Abort
  <1>4. CASE OpenContainer
    <2>1. /\ outcome = "walking" /\ stack # <<>> /\ Top.next = 0
          /\ stack' = <<[Top EXCEPT !.next = 1]>> \o Tail(stack)
      BY <1>4, WhileWalking DEF OpenContainer, Opening
    <2>2. stack' = <<[Top EXCEPT !.next = @ + 1]>> \o Tail(stack)
      BY <2>1
    <2>3. Charges' = Charges
      BY <2>1, <2>2, SameCharges, WalkIsStackInv
    <2> QED
      BY <1>4, <2>1, <2>3, SumsStay DEF OpenContainer
  <1>5. CASE EndLoop
    BY <1>0, <1>5, SumsAfterReturn DEF EndLoop
  <1>6. CASE Break
    BY <1>0, <1>6, SumsAfterReturn DEF Break, InLoop
  <1>7. CASE PassOver
    <2>1. outcome = "walking" /\ stack # <<>>
      BY <1>7, WhileWalking DEF PassOver, InLoop
    <2>2. /\ stack' = <<[Top EXCEPT !.next = @ + 1]>> \o Tail(stack)
          /\ UNCHANGED <<materialized, extracted, partitioned, derived, content, outcome>>
          /\ discovered' = discovered + 1
      BY <1>7 DEF PassOver, Skip
    <2>3. Charges' = Charges
      BY <2>1, <2>2, SameCharges, WalkIsStackInv
    <2> QED
      BY <2>1, <2>2, <2>3, SumsStay
  <1>8. CASE Fail
    <2>1. CASE /\ UNCHANGED <<materialized, extracted>>
               /\ \E caught \in BOOLEAN : Abort(caught)
      <3>1. /\ outcome = "walking" /\ outcome' # "walking" /\ discovered' = discovered + 1
            /\ derived' = derived /\ content' = content
        BY <1>8, <2>1 DEF Fail, InLoop, Abort
      <3> QED
        BY <2>1, <3>1, SumsStay
    <2>2. CASE /\ materialized' = materialized + 1 /\ extracted' = extracted + Child.bytes
               /\ \E caught \in BOOLEAN : Abort(caught)
      BY <1>8, <2>2, SumsAfterLoss DEF Fail
    <2>3. TRUE \in BOOLEAN /\ FALSE \in BOOLEAN
      OBVIOUS
    <2> QED
      BY <1>8, <2>1, <2>2, <2>3 DEF Fail
  <1>9. CASE TakeMember
    BY <1>9, SumsAfterTake, TakeIsATake
  <1>10. CASE Expire \/ UNCHANGED vars
    <2>1. /\ UNCHANGED <<stack, materialized, extracted, partitioned, discovered, derived,
                         content>>
          /\ outcome' = outcome /\ completeness' = completeness
      BY <1>10 DEF Expire, vars
    <2>2. Charges' = Charges
      BY <2>1 DEF Charges
    <2> QED
      BY <2>1, <2>2, SumsStay
  <1>11. CASE Overlook
    <2>1. outcome = "walking" /\ stack # <<>>
      BY <1>11, WhileWalking DEF Overlook, InLoop
    <2>2. /\ stack' = <<[Top EXCEPT !.next = @ + 1]>> \o Tail(stack)
          /\ UNCHANGED <<materialized, extracted, partitioned, derived, content, outcome>>
          /\ discovered' = discovered
      BY <1>11 DEF Overlook, Skip
    <2>3. Charges' = Charges
      BY <2>1, <2>2, SameCharges, WalkIsStackInv
    <2> QED
      BY <2>1, <2>2, <2>3, SumsStay
  <1> QED
    BY <1>1, <1>2, <1>3, <1>4, <1>5, <1>6, <1>7, <1>8, <1>9, <1>10, <1>11 DEF Next, Ended

LEMMA UsageInit == ASSUME Init PROVE UsageIsTrue
  <1>1. /\ derived = <<>> /\ stack = <<Frame(0, 0, 0)>> /\ Frame(0, 0, 0).charge = 0
        /\ extracted = 0 /\ partitioned = 0 /\ discovered = 0 /\ materialized = 0
    BY DEF Init, Frame
  <1>2. Total(ChildBytes) = 0 /\ Total(PartitionBytes) = 0
    <2>1. ChildBytes \in [{} -> Nat] /\ PartitionBytes \in [{} -> Nat]
      BY <1>1 DEF ChildBytes, PartitionBytes
    <2> QED
      BY <2>1, TotalOfNone
  <1>3. Total(Charges) = 0
    <2>1. Charges \in [1 .. 1 -> Nat] /\ Charges[1] = 0
      BY <1>1 DEF Charges
    <2>2. 1 \in Nat /\ \A k \in 1 .. 1 : Charges[k] = 0
      BY <2>1
    <2> QED
      BY <2>1, <2>2, TotalOfZeros
  <1> QED
    BY <1>1, <1>2, <1>3 DEF UsageIsTrue

\* The counters the budgets are checked against are those of the derived objects, up to the
\* partitions whose walk is not over, however members nest; only a walk that an exception
\* ended may have counted one child it did not record.
THEOREM CountersAreTrue == Spec => []UsageIsTrue
  <1>1. Init => WalkInv /\ EdgeInv /\ UsageIsTrue
    BY WalkInvInit, EdgeInvInit, UsageInit
  <1>2. WalkInv /\ EdgeInv /\ UsageIsTrue /\ [Next]_vars => WalkInv' /\ EdgeInv' /\ UsageIsTrue'
    BY WalkInvNext, EdgeInvNext, UsageNext
  <1> QED
    BY <1>1, <1>2, PTL DEF Spec

(***************************************************************************)
(* The partitions of a job.  Inside a partition nothing is counted yet, so *)
(* the limit holds where no disk lies inside another one's partition.      *)
(***************************************************************************)

\* `inside` has what lies in the partitions of disks, at any depth, and no disk among it.
HoldsNoDisk(c, inside) ==
    /\ \A o \in Objects : c[o].form = "disk" \/ o \in inside =>
          \A i \in DOMAIN c[o].members :
             c[o].members[i].trait = "taken" => c[o].members[i].object \in inside
    /\ \A o \in inside : c[o].form # "disk"
Flat(c) == \E inside : HoldsNoDisk(c, inside)

Inside == CHOOSE inside : HoldsNoDisk(content, inside)

\* Everything from the object a disk's walk has gone into to the innermost one is inside.
ChargedInside ==
    \A i, j \in 1 .. Len(stack) :
        i <= j /\ stack[j].charge # 0 => ObjectOf(stack[i].node) \in Inside

LEMMA InsideIs == ASSUME Flat(content) PROVE HoldsNoDisk(content, Inside)
  BY DEF Flat, Inside

\* No charge is open while the members of a disk are taken.
LEMMA DiskHasNoCharges ==
  ASSUME WalkInv, EdgeInv, ChargedInside, Flat(content), outcome = "walking",
         Parent.form = "disk"
  PROVE  Total(Charges) = 0
  <1>1. /\ Top = stack[1] /\ 1 \in 1 .. Len(stack) /\ ObjectOf(Top.node) \in Objects
        /\ Parent = content[ObjectOf(Top.node)]
    BY WhileWalking DEF Parent
  <1>2. ObjectOf(Top.node) \notin Inside
    BY <1>1, InsideIs DEF HoldsNoDisk
  <1>3. \A j \in 1 .. Len(stack) : stack[j].charge = 0
    BY <1>1, <1>2 DEF ChargedInside
  <1>4. Len(stack) \in Nat /\ Charges \in [1 .. Len(stack) -> Nat]
    BY SequencesFit
  <1>5. \A j \in 1 .. Len(stack) : Charges[j] = 0
    <2>1. DOMAIN Charges = DOMAIN stack
      BY DEF Charges
    <2> QED
      BY <1>3, <1>4, <2>1 DEF Charges
  <1> QED
    BY <1>4, <1>5, TotalOfZeros

LEMMA InsideStays == ASSUME content' = content PROVE Inside' = Inside
  BY DEF Inside, HoldsNoDisk

LEMMA ObjectsStay ==
  ASSUME WalkInv, outcome = "walking", Take, content' = content, NEW node \in Nodes
  PROVE  ObjectOf(node)' = ObjectOf(node)
  <1>1. node # 0 => node \in Size
    BY GraphGrows DEF Nodes, Size
  <1> QED
    BY <1>1, GraphGrows DEF ObjectOf

\* The calls after TakeMember, with their charges.
LEMMA ChargesAfterTake ==
  ASSUME WalkInv, TakeMember, Take
  PROVE  \/ /\ Len(stack') = Len(stack)
            /\ \A i \in 1 .. Len(stack) :
                  stack'[i].node = stack[i].node /\ stack'[i].charge = stack[i].charge
         \/ /\ Len(stack') = Len(stack) + 1
            /\ stack'[1].node = Len(derived) + 1 /\ stack'[1].charge = Charge
            /\ \A i \in 1 .. Len(stack) :
                  stack'[i + 1].node = stack[i].node /\ stack'[i + 1].charge = stack[i].charge
  <1> DEFINE x == [Top EXCEPT !.next = @ + 1]
             y == Frame(Len(derived) + 1, Top.depth + 1, Charge)
  <1>1. /\ stack \in Seq(Calls) /\ stack # <<>> /\ Top = stack[1] /\ Top.depth \in Nat
        /\ Len(derived) \in Nat /\ Len(stack) \in Nat
    BY WhileWalking, WalkIsStackInv DEF StackInv, TakeMember, InLoop
  <1>2. x \in Calls /\ x.node = Top.node /\ x.charge = Top.charge
    <2>1. Top \in Calls
      BY <1>1
    <2> QED
      BY <2>1, NextMember
  <1>3. y \in Calls /\ y.node = Len(derived) + 1 /\ y.charge = Charge
    <2>1. Charge \in Nat
      BY InTheLoop DEF TakeMember, Charge
    <2>2. Top.depth + 1 \in Nat /\ Len(derived) + 1 \in Nat
      BY <1>1
    <2> QED
      BY <2>1, <2>2 DEF Frame, Calls
  <1>4. stack' = <<x>> \o Tail(stack) \/ stack' = <<y>> \o (<<x>> \o Tail(stack))
    BY DEF TakeMember
  <1> HIDE DEF x, y
  <1>5. CASE stack' = <<x>> \o Tail(stack)
    <2>1. /\ Len(stack') = Len(stack) /\ stack'[1] = x
          /\ \A i \in 2 .. Len(stack') : stack'[i] = stack[i]
      BY <1>1, <1>2, <1>5, Advanced
    <2>2. ASSUME NEW i \in 1 .. Len(stack)
          PROVE  stack'[i].node = stack[i].node /\ stack'[i].charge = stack[i].charge
      <3>1. CASE i = 1
        BY <1>1, <1>2, <2>1, <3>1
      <3>2. CASE i # 1
        <4>1. i \in 2 .. Len(stack')
          BY <1>1, <2>1, <3>2
        <4> QED
          BY <2>1, <4>1
      <3> QED
        BY <3>1, <3>2
    <2> QED
      BY <2>1, <2>2
  <1>6. CASE stack' = <<y>> \o (<<x>> \o Tail(stack))
    <2>1. /\ Len(stack') = Len(stack) + 1 /\ stack'[1] = y /\ stack'[2] = x
          /\ \A i \in 3 .. Len(stack') : stack'[i] = stack[i - 1]
      BY <1>1, <1>2, <1>3, <1>6, Called
    <2>2. ASSUME NEW i \in 1 .. Len(stack)
          PROVE  stack'[i + 1].node = stack[i].node /\ stack'[i + 1].charge = stack[i].charge
      <3>1. CASE i = 1
        BY <1>1, <1>2, <2>1, <3>1
      <3>2. CASE i # 1
        <4>1. i + 1 \in 3 .. Len(stack') /\ (i + 1) - 1 = i
          BY <1>1, <2>1, <3>2
        <4> QED
          BY <2>1, <4>1
      <3> QED
        BY <3>1, <3>2
    <2> QED
      BY <1>3, <2>1, <2>2
  <1> QED
    BY <1>4, <1>5, <1>6

LEMMA ChargedInsideAfterTake ==
  ASSUME WalkInv, EdgeInv, ChargedInside, Flat(content), TakeMember, Take
  PROVE  ChargedInside'
  <1>1. outcome = "walking" /\ content' = content /\ Inside' = Inside
    BY InsideStays DEF TakeMember, InLoop
  <1>2. PICK n \in Nat : n = Len(stack)
    BY <1>1, SequencesFit
  <1>3. ASSUME NEW i \in 1 .. n, NEW node, node = stack[i].node
        PROVE  ObjectOf(node)' = ObjectOf(node)
    <2>1. node \in Nodes
      BY <1>2, <1>3, WalkIsStackInv DEF StackInv
    <2> QED
      BY <1>1, <2>1, ObjectsStay
  <1>4. ASSUME NEW i \in 1 .. n, NEW j \in 1 .. n, i <= j, stack[j].charge # 0,
               NEW node, node = stack[i].node
        PROVE  ObjectOf(node)' \in Inside'
    BY <1>1, <1>2, <1>3, <1>4 DEF ChargedInside
  <1>5. CASE /\ Len(stack') = Len(stack)
             /\ \A i \in 1 .. Len(stack) :
                   stack'[i].node = stack[i].node /\ stack'[i].charge = stack[i].charge
    <2> SUFFICES ASSUME NEW i \in 1 .. n, NEW j \in 1 .. n, i <= j, stack'[j].charge # 0,
                        NEW node, node = stack'[i].node
                 PROVE  ObjectOf(node)' \in Inside'
      BY <1>2, <1>5 DEF ChargedInside, ObjectOf
    <2> QED
      BY <1>2, <1>4, <1>5
  <1>6. CASE /\ Len(stack') = Len(stack) + 1
             /\ stack'[1].node = Len(derived) + 1 /\ stack'[1].charge = Charge
             /\ \A i \in 1 .. Len(stack) :
                   stack'[i + 1].node = stack[i].node /\ stack'[i + 1].charge = stack[i].charge
    <2> SUFFICES ASSUME NEW i \in 1 .. n + 1, NEW j \in 1 .. n + 1, i <= j,
                        stack'[j].charge # 0, NEW node, node = stack'[i].node
                 PROVE  ObjectOf(node)' \in Inside'
      BY <1>2, <1>6 DEF ChargedInside, ObjectOf
    <2>1. ASSUME i # 1 PROVE ObjectOf(node)' \in Inside'
      <3>1. PICK k \in 1 .. n, l \in 1 .. n : i = k + 1 /\ j = l + 1
        <4>1. i - 1 \in 1 .. n /\ j - 1 \in 1 .. n /\ i = (i - 1) + 1 /\ j = (j - 1) + 1
          BY <2>1
        <4> QED
          BY ONLY <4>1
      <3>2. k <= l /\ stack[l].charge # 0 /\ node = stack[k].node
        BY <1>2, <1>6, <3>1
      <3> QED
        BY <1>4, <3>2
    <2>2. ASSUME i = 1 PROVE ObjectOf(node)' \in Inside'
      <3>1. ObjectOf(node)' = Member.object
        <4>1. node = Len(derived) + 1 /\ node # 0
          BY <1>1, <1>6, <2>2, GraphGrows
        <4> QED
          BY <1>1, <4>1, GraphGrows DEF ObjectOf
      <3>2. /\ ObjectOf(Top.node) \in Objects /\ Parent = content[ObjectOf(Top.node)]
            /\ Top.next \in DOMAIN Parent.members /\ Member = Parent.members[Top.next]
            /\ Member.trait = "taken" /\ Top = stack[1]
        BY <1>1, WhileWalking DEF Parent, Member, TakeMember, Take
      <3>3. Parent.form = "disk" \/ ObjectOf(Top.node) \in Inside
        <4>1. CASE j = 1
          BY <1>6, <4>1 DEF Charge
        <4>2. CASE j # 1
          <5>1. PICK l \in 1 .. n : j = l + 1
            <6>1. j - 1 \in 1 .. n /\ j = (j - 1) + 1
              BY <4>2
            <6> QED
              BY ONLY <6>1
          <5>2. stack[l].charge # 0 /\ 1 \in 1 .. n /\ 1 <= l
            BY <1>2, <1>6, <5>1
          <5> QED
            BY <1>2, <3>2, <5>2 DEF ChargedInside
        <4> QED
          BY <4>1, <4>2
      <3>4. Member.object \in Inside
        BY <3>2, <3>3, InsideIs DEF HoldsNoDisk
      <3> QED
        BY <1>1, <3>1, <3>4
    <2> QED
      BY <2>1, <2>2
  <1> QED
    BY <1>5, <1>6, ChargesAfterTake

\* The other steps bring no call and change no charge.
LEMMA CallsKeepCharges ==
  ASSUME WalkInv, Advance \/ Leave \/ GiveUp \/ Stay
  PROVE  \E shift \in 0 .. 1 : \A i \in 1 .. Len(stack') :
            /\ i + shift \in 1 .. Len(stack)
            /\ stack'[i].node = stack[i + shift].node
            /\ stack'[i].charge = stack[i + shift].charge
  <1> DEFINE Kept(shift) ==
                \A i \in 1 .. Len(stack') :
                   /\ i + shift \in 1 .. Len(stack)
                   /\ stack'[i].node = stack[i + shift].node
                   /\ stack'[i].charge = stack[i + shift].charge
  <1>0. stack \in Seq(Calls) /\ Len(stack) \in Nat
    BY WalkIsStackInv DEF StackInv
  <1>1. CASE Advance
    <2> DEFINE x == [Top EXCEPT !.next = @ + 1]
    <2>1. stack # <<>> /\ Top = stack[1] /\ Top \in Calls /\ x \in Calls
      BY <1>0, <1>1, TopIsACall DEF Advance
    <2>2. x.node = Top.node /\ x.charge = Top.charge
      BY <2>1, NextMember
    <2> HIDE DEF x
    <2>3. /\ Len(stack') = Len(stack) /\ stack'[1] = x
          /\ \A i \in 2 .. Len(stack') : stack'[i] = stack[i]
      BY <1>0, <1>1, <2>1, Advanced DEF Advance, x
    <2>4. ASSUME NEW i \in 1 .. Len(stack')
          PROVE  /\ i + 0 \in 1 .. Len(stack) /\ i + 0 = i
                 /\ stack'[i].node = stack[i].node /\ stack'[i].charge = stack[i].charge
      <3>1. CASE i = 1
        BY <2>1, <2>2, <2>3, <3>1
      <3>2. CASE i # 1
        <4>1. i \in 2 .. Len(stack')
          BY <1>0, <2>3, <3>2
        <4> QED
          BY <2>3, <4>1
      <3> QED
        BY <3>1, <3>2
    <2>5. Kept(0)
      BY <2>4
    <2> QED
      BY <2>5
  <1>2. CASE Leave
    <2>1. /\ stack' \in Seq(Calls) /\ Len(stack') = Len(stack) - 1
          /\ \A i \in 1 .. Len(stack') : stack'[i] = stack[i + 1]
      BY <1>0, <1>2, Returned DEF Leave
    <2>2. Kept(1)
      BY <1>0, <2>1
    <2> QED
      BY <2>2
  <1>3. CASE GiveUp
    <2>1. Kept(0)
      BY <1>3 DEF GiveUp
    <2> QED
      BY <2>1
  <1>4. CASE Stay
    <2>1. \A i \in 1 .. Len(stack) : i + 0 = i
      BY <1>0
    <2>2. Kept(0)
      BY <1>0, <1>4, <2>1 DEF Stay
    <2> QED
      BY <2>2
  <1> QED
    BY <1>1, <1>2, <1>3, <1>4

LEMMA ChargedInsideAfterRest ==
  ASSUME WalkInv, ChargedInside, Advance \/ Leave \/ GiveUp \/ Stay, content' = content
  PROVE  ChargedInside'
  <1>1. Inside' = Inside /\ derived' = derived
    BY InsideStays DEF Advance, Leave, GiveUp, Stay
  <1>2. PICK shift \in 0 .. 1 : \A i \in 1 .. Len(stack') :
            /\ i + shift \in 1 .. Len(stack)
            /\ stack'[i].node = stack[i + shift].node
            /\ stack'[i].charge = stack[i + shift].charge
    BY CallsKeepCharges
  <1> SUFFICES ASSUME NEW i \in 1 .. Len(stack'), NEW j \in 1 .. Len(stack'), i <= j,
                      stack'[j].charge # 0, NEW node, node = stack'[i].node
               PROVE  ObjectOf(node)' \in Inside'
    BY DEF ChargedInside, ObjectOf
  <1>3. /\ i + shift \in 1 .. Len(stack) /\ j + shift \in 1 .. Len(stack)
        /\ i + shift <= j + shift
        /\ stack[j + shift].charge # 0 /\ node = stack[i + shift].node
    BY <1>2
  <1>4. ObjectOf(node) \in Inside
    BY <1>3 DEF ChargedInside
  <1>5. ObjectOf(node)' = ObjectOf(node)
    BY <1>1 DEF ObjectOf
  <1> QED
    BY <1>1, <1>4, <1>5

LEMMA ChargedInsideNext ==
  ASSUME WalkInv, EdgeInv, ChargedInside, Flat(content), [Next]_vars
  PROVE  ChargedInside'
  <1>1. CASE TakeMember
    BY <1>1, TakeIsATake, ChargedInsideAfterTake
  <1>2. CASE ~TakeMember
    <2>1. derived' = derived
      BY <1>2 DEF Next, vars, TurnAway, OpenLeaf, FailToOpen, OpenContainer, EndLoop, Break,
                  Overlook, PassOver, Skip, Fail, Abort, Expire, Ended
    <2>2. ~Take
      <3>1. ASSUME Take PROVE FALSE
        <4>1. outcome = "walking" /\ content' = content
          BY <3>1, TakeMeansWalking, ActionKinds
        <4>2. Len(derived') = Len(derived) + 1 /\ Len(derived) \in Nat
          BY <3>1, <4>1, GraphGrows
        <4> QED
          BY <2>1, <4>2
      <3> QED
        BY <3>1
    <2> QED
      BY <2>2, ActionKinds, ChargedInsideAfterRest DEF Kinds
  <1> QED
    BY <1>1, <1>2

LEMMA PartitionBudgetNext ==
  ASSUME WalkInv, WalkInv', EdgeInv, EdgeInv', ChargedInside, Flat(content), UsageIsTrue,
         PartitionBudgetHolds, [Next]_vars
  PROVE  PartitionBudgetHolds'
  <1>1. CASE TakeMember
    <2>1. /\ outcome = "walking" /\ content' = content
          /\ Parent.form = "disk" => PartitionFits
      BY <1>1 DEF TakeMember, InLoop
    <2>2. Total(PartitionBytes') = Total(PartitionBytes) + Charge
      BY <1>1, <2>1, TakeIsATake, TakenChild
    <2>3. Total(PartitionBytes) \in Nat
      BY SequencesFit, TotalIsNat
    <2>4. CASE Parent.form = "disk"
      <3>1. Total(Charges) = 0
        BY <2>1, <2>4, DiskHasNoCharges
      <3>2. partitioned + 0 = Total(PartitionBytes)
        BY <2>1, <3>1 DEF UsageIsTrue
      <3>3. partitioned + Child.bytes <= MaxTotalPartitionBytes /\ partitioned \in Nat
        BY <2>1, <2>4 DEF PartitionFits, WalkInv, TypeOK
      <3>4. Total(PartitionBytes') <= MaxTotalPartitionBytes
        BY <2>2, <2>4, <3>2, <3>3 DEF Charge
      <3> QED
        BY <3>4 DEF PartitionBudgetHolds
    <2>5. CASE Parent.form # "disk"
      <3>1. Total(PartitionBytes') = Total(PartitionBytes)
        BY <2>2, <2>3, <2>5 DEF Charge
      <3> QED
        BY <3>1 DEF PartitionBudgetHolds
    <2> QED
      BY <2>4, <2>5
  <1>2. CASE ~TakeMember
    <2>1. derived' = derived /\ content' = content
      BY <1>2, ActionKinds
         DEF Next, vars, TurnAway, OpenLeaf, FailToOpen, OpenContainer, EndLoop, Break, Overlook,
             PassOver, Skip, Fail, Abort, Expire, Ended
    <2> QED
      BY <2>1, SameChildren DEF PartitionBudgetHolds
  <1> QED
    BY <1>1, <1>2

LEMMA PartitionBudgetInit ==
  ASSUME Init PROVE ChargedInside /\ PartitionBudgetHolds
  <1>1. derived = <<>> /\ stack = <<Frame(0, 0, 0)>> /\ Frame(0, 0, 0).charge = 0
    BY DEF Init, Frame
  <1>2. Len(stack) = 1 /\ stack[1].charge = 0
    BY <1>1
  <1>3. ChargedInside
    BY <1>2 DEF ChargedInside
  <1>4. PartitionBytes \in [{} -> Nat]
    BY <1>1 DEF PartitionBytes
  <1>5. Total(PartitionBytes) = 0
    BY <1>4, TotalOfNone
  <1> QED
    BY <1>3, <1>5, BudgetAssumption DEF PartitionBudgetHolds

\* The partitions of the whole job keep their common limit, if no partition holds a partition
\* table, at any depth: what the run container_nested_disk shows to be needed is enough.
THEOREM FlatDisksKeepTheBudget ==
  ASSUME \A c \in Contents : Flat(c)
  PROVE  Spec => []PartitionBudgetHolds
  <1> DEFINE Inv == /\ WalkInv /\ EdgeInv /\ UsageIsTrue
                    /\ ChargedInside /\ PartitionBudgetHolds
  <1>1. Init => Inv
    BY WalkInvInit, EdgeInvInit, UsageInit, PartitionBudgetInit
  <1>2. Inv /\ [Next]_vars => Inv'
    <2> SUFFICES ASSUME Inv, [Next]_vars PROVE Inv'
      OBVIOUS
    <2>1. Flat(content)
      BY DEF WalkInv
    <2> QED
      BY <2>1, WalkInvNext, EdgeInvNext, UsageNext, ChargedInsideNext, PartitionBudgetNext
  <1>3. Inv => PartitionBudgetHolds
    OBVIOUS
  <1> HIDE DEF Inv
  <1> QED
    BY <1>1, <1>2, <1>3, PTL DEF Spec
=============================================================================
