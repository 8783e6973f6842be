--------------------------- MODULE PartitionProofs ---------------------------
(***************************************************************************)
(* Theorems about the partition tables of an image: what the bounded       *)
(* reader and the hash of a partition cover, and what a table that is      *)
(* taken, or called damaged, says of the image.                            *)
(***************************************************************************)
EXTENDS PartitionTables, InductionFacts, FiniteSetTheorems

(***************************************************************************)
(* The hash of a range.                                                    *)
(***************************************************************************)

LEMMA ReadSizeIs ==
  ASSUME NEW length \in Nat, NEW position \in 0 .. length, NEW want \in Int
  PROVE  /\ ReadSize(length, position, want) \in 0 .. length - position
         /\ want > 0 /\ position < length => ReadSize(length, position, want) > 0
         /\ want = 0 => ReadSize(length, position, want) = 0
  BY DEF ReadSize, Least

\* What has been hashed when it is of this size.
Covers(start, size) == [k \in 1 .. size |-> start + k - 1]

LEMMA CoversJoin ==
  ASSUME NEW start \in Nat, NEW size \in Nat, NEW count \in Nat
  PROVE  Covers(start, size) \o Covers(start + size, count) = Covers(start, size + count)
  <1> SUFFICES ASSUME NEW more \in Nat, more = size + count,
                      NEW middle \in Nat, middle = start + size
               PROVE  Covers(start, size) \o Covers(middle, count) = Covers(start, more)
    OBVIOUS
  <1> DEFINE a == Covers(start, size)
             b == Covers(middle, count)
  <1>1. a \in Seq(Nat) /\ b \in Seq(Nat) /\ Len(a) = size /\ Len(b) = count
    BY DEF Covers
  <1>2. \A k \in 1 .. size : a[k] = start + k - 1
    BY DEF Covers
  <1>3. \A k \in 1 .. count : b[k] = start + size + k - 1
    BY DEF Covers
  <1> HIDE DEF a, b
  <1>4. PICK c \in Seq(Nat) : c = a \o b /\ Len(c) = more
    <2>1. a \o b \in Seq(Nat) /\ Len(a \o b) = more
      BY <1>1
    <2> QED
      BY ONLY <2>1
  <1>5. ASSUME NEW k \in 1 .. more PROVE c[k] = start + k - 1
    <2>1. CASE k <= size
      BY <1>1, <1>2, <1>4, <2>1
    <2>2. CASE k > size
      <3>1. c[k] = b[k - size] /\ k - size \in 1 .. count
        BY <1>1, <1>4, <2>2
      <3> QED
        BY <1>3, <3>1
    <2> QED
      BY <2>1, <2>2
  <1>6. c = [k \in 1 .. more |-> c[k]]
    <2>1. Len(c) = more
      BY <1>4
    <2> QED
      BY ONLY <2>1
  <1>7. c = [k \in 1 .. more |-> start + k - 1]
    BY <1>5, <1>6
  <1> QED
    BY <1>4, <1>7 DEF a, b, Covers

\* A chunk is what comes next, and it is empty only at the end.
LEMMA ChunkIs ==
  ASSUME NEW start \in Nat, NEW length \in Nat, NEW size \in 0 .. length
  PROVE  \E more \in size .. length :
            /\ Covers(start, size) \o Chunk(start, length, size) = Covers(start, more)
            /\ size < length => more > size
  <1> USE PartitionAssumption
  <1> DEFINE want == Least(ChunkSize, length - size)
             count == ReadSize(length, size, want)
  <1>1. want \in Nat /\ (size < length => want > 0)
    BY DEF Least
  <1>2. count \in 0 .. length - size /\ (size < length => count > 0)
    <2> HIDE DEF want
    <2>1. want \in Int
      BY <1>1
    <2>2. /\ ReadSize(length, size, want) \in 0 .. length - size
          /\ want > 0 /\ size < length => ReadSize(length, size, want) > 0
      BY <2>1, ReadSizeIs
    <2> QED
      BY <1>1, <2>2
  <1>3. Chunk(start, length, size) = Covers(start + size, count)
    BY DEF Chunk, Covers
  <1> HIDE DEF count, want
  <1>4. PICK more \in Nat : more = size + count
    BY <1>2
  <1>5. more \in size .. length /\ (size < length => more > size)
    BY <1>2, <1>4
  <1>6. Covers(start, size) \o Covers(start + size, count) = Covers(start, more)
    <2>1. size \in Nat /\ count \in Nat
      BY <1>2
    <2>2. Covers(start, size) \o Covers(start + size, count) = Covers(start, size + count)
      BY ONLY <2>1, start \in Nat, CoversJoin
    <2> QED
      BY <1>4, <2>2
  <1> QED
    BY <1>3, <1>5, <1>6

LEMMA HashRangeIs ==
  ASSUME NEW start \in Nat, NEW length \in Nat
  PROVE  HashRange(start, length) = Covers(start, length)
  <1> DEFINE Next(before) == before \o Chunk(start, length, Len(before))
             A == {Covers(start, size) : size \in 0 .. length}
             step == [before \in A |-> Next(before)]
             hashed == CHOOSE f : f = [chunks \in 0 .. length |->
                          IF chunks = 0 THEN <<>> ELSE Next(f[chunks - 1])]
  <1>1. HashRange(start, length) = hashed[length]
    BY DEF HashRange
  <1>2. ASSUME NEW size \in 0 .. length PROVE Len(Covers(start, size)) = size
    <2>1. size \in Nat
      OBVIOUS
    <2> QED
      BY <2>1 DEF Covers
  <1>3. ASSUME NEW size \in 0 .. length
        PROVE  \E more \in size .. length : /\ Next(Covers(start, size)) = Covers(start, more)
                                            /\ size < length => more > size
    BY <1>2, ChunkIs
  <1>4. <<>> = Covers(start, 0) /\ <<>> \in A
    <2>1. <<>> = Covers(start, 0)
      BY DEF Covers
    <2> QED
      BY <2>1
  <1>5. step \in [A -> A]
    <2>1. ASSUME NEW before \in A PROVE Next(before) \in A
      <3>1. PICK size \in 0 .. length : before = Covers(start, size)
        OBVIOUS
      <3> HIDE DEF Next
      <3>2. PICK more \in size .. length : Next(before) = Covers(start, more)
        BY <1>3, <3>1
      <3> QED
        BY <3>2
    <2> HIDE DEF Next, A
    <2> QED
      BY <2>1
  <1>6. PICK some : Iterates(A, <<>>, step, length, some)
    <2> HIDE DEF step, A
    <2> QED
      BY <1>4, <1>5, IterationExists
  <1> HIDE DEF Next
  <1>7. some = [chunks \in 0 .. length |-> IF chunks = 0 THEN <<>> ELSE Next(some[chunks - 1])]
    <2>1. ASSUME NEW chunks \in 0 .. length, chunks # 0
          PROVE  step[some[chunks - 1]] = Next(some[chunks - 1])
      <3>1. some[chunks - 1] \in A
        <4> HIDE DEF A, step
        <4> QED
          BY <1>6, <2>1 DEF Iterates
      <3> QED
        BY <3>1
    <2> HIDE DEF step
    <2> QED
      BY <1>6, <2>1 DEF Iterates
  <1>8. hashed = [chunks \in 0 .. length |-> IF chunks = 0 THEN <<>> ELSE Next(hashed[chunks - 1])]
    BY <1>7
  <1> HIDE DEF hashed
  <1> DEFINE S == {k \in Nat : \E size \in 0 .. length : k <= size /\ hashed[k] = Covers(start, size)}
  <1>9. 0 \in S
    BY <1>4, <1>8
  <1>10. ASSUME NEW k \in 1 .. length, k - 1 \in S PROVE k \in S
    <2>1. PICK size \in 0 .. length : k - 1 <= size /\ hashed[k - 1] = Covers(start, size)
      BY <1>10
    <2>2. hashed[k] = Next(hashed[k - 1])
      BY <1>8
    <2>3. PICK more \in size .. length : /\ Next(Covers(start, size)) = Covers(start, more)
                                         /\ size < length => more > size
      BY <1>3
    <2>4. more \in 0 .. length /\ k <= more
      BY <2>1, <2>3
    <2> QED
      BY <2>1, <2>2, <2>3, <2>4
  <1>11. S \in SUBSET Nat
    OBVIOUS
  <1> HIDE DEF S
  <1>12. length \in S
    BY <1>9, <1>10, <1>11, InductionUpTo
  <1>13. PICK size \in 0 .. length : length <= size /\ hashed[length] = Covers(start, size)
    BY <1>12 DEF S
  <1>14. size = length
    BY <1>13
  <1> QED
    BY <1>1, <1>13, <1>14

(***************************************************************************)
(* The walk of a rigid disk block's list, turn by turn.                    *)
(***************************************************************************)

\* A rigid disk block whose list is walked.
Listed(image) == IsImage(image) /\ image.rdb.found /\ image.rdb.sumOk /\ image.rdb.blockSize > 0

Parts == [index : Nat, start : Nat, length : Nat]
WalkFaults == {"cycle", "count", "pointer outside", "part block", "geometry", "outside"}
Walks(image) ==
    [pointer : PointersOf(image) \cup {EndOfList}, seen : SUBSET DOMAIN image.blocks,
     kept : Seq(Parts), errors : SUBSET WalkFaults]
FirstWalk(image) == [pointer |-> image.rdb.pointer, seen |-> {}, kept |-> <<>>, errors |-> {}]

Readable(image, pointer) ==
    Inside(image.size, pointer * image.rdb.blockSize, image.rdb.blockSize)
Placed(image, block) ==
    /\ block.cylinder > 0 /\ block.low <= block.high
    /\ Inside(image.size, Piece(image, block).start, Piece(image, block).length)

\* What a turn does: the list has ended, the turn breaks off the loop, or it takes a block.
Breaking(image, walk, limit) ==
    \/ walk.pointer \in walk.seen
    \/ Cardinality(walk.seen) >= limit
    \/ ~Readable(image, walk.pointer)
    \/ ~image.blocks[walk.pointer].valid
Broken(walk, next) ==
    /\ next.pointer = EndOfList /\ next.seen = walk.seen /\ next.kept = walk.kept
    /\ walk.errors \subseteq next.errors /\ next.errors # {}
Taken(image, walk, next) ==
    LET pointer == walk.pointer
        block == image.blocks[pointer]
        piece == Piece(image, block)
    IN  /\ pointer \in DOMAIN image.blocks
        /\ next.pointer = block.next /\ next.seen = walk.seen \cup {pointer}
        /\ walk.errors \subseteq next.errors
        /\ IF Placed(image, block)
           THEN /\ next.errors = walk.errors
                /\ next.kept = Append(walk.kept, [index |-> Len(walk.kept), start |-> piece.start,
                                                  length |-> piece.length])
           ELSE next.errors # {} /\ next.kept = walk.kept

LEMMA PieceIs ==
  ASSUME NEW image, Listed(image), NEW block \in Blocks, Placed(image, block)
  PROVE  Piece(image, block).start \in Nat /\ Piece(image, block).length \in Nat \ {0}
  <1>1. /\ image.rdb.blockSize \in Nat \ {0} /\ block.cylinder \in Nat \ {0} /\ block.low \in Nat
        /\ block.high - block.low + 1 \in Nat \ {0}
    BY DEF Listed, IsImage, Headers, Blocks, Placed
  <1>2. ASSUME NEW a \in Nat \ {0}, NEW b \in Nat \ {0} PROVE a * b \in Nat \ {0}
    OBVIOUS
  <1>3. ASSUME NEW a \in Nat, NEW b \in Nat PROVE a * b \in Nat
    OBVIOUS
  <1>4. PICK cylinder \in Nat \ {0} : cylinder = block.cylinder * image.rdb.blockSize
    BY <1>1, <1>2
  <1>5. /\ block.low * cylinder \in Nat
        /\ (block.high - block.low + 1) * cylinder \in Nat \ {0}
    BY <1>1, <1>2, <1>3
  <1> QED
    BY <1>4, <1>5 DEF Piece

LEMMA GeometryIs ==
  ASSUME NEW image, Listed(image), NEW block \in Blocks, NEW walk \in Walks(image),
         NEW next, next = Geometry(image, block, walk)
  PROVE  /\ next \in Walks(image)
         /\ next.pointer = walk.pointer /\ next.seen = walk.seen /\ walk.errors \subseteq next.errors
         /\ IF Placed(image, block)
            THEN /\ next.errors = walk.errors
                 /\ next.kept = Append(walk.kept,
                       [index |-> Len(walk.kept), start |-> Piece(image, block).start,
                        length |-> Piece(image, block).length])
            ELSE next.errors # {} /\ next.kept = walk.kept
  <1>1. block.cylinder \in Nat /\ block.low \in Nat /\ block.high \in Nat
    BY DEF Blocks
  <1>2. CASE Placed(image, block)
    <2> DEFINE part == [index |-> Len(walk.kept), start |-> Piece(image, block).start,
                        length |-> Piece(image, block).length]
    <2>1. next = [walk EXCEPT !.kept = Append(walk.kept, part)]
      BY <1>1, <1>2 DEF Geometry, Placed
    <2>2. part \in Parts
      BY <1>2, PieceIs DEF Parts, Walks
    <2> HIDE DEF part
    <2>3. Append(walk.kept, part) \in Seq(Parts)
      BY <2>2 DEF Walks
    <2>4. next \in Walks(image) /\ next.pointer = walk.pointer /\ next.seen = walk.seen
          /\ next.errors = walk.errors /\ next.kept = Append(walk.kept, part)
      BY <2>1, <2>3 DEF Walks
    <2> QED
      BY <1>2, <2>4 DEF part
  <1>3. CASE ~Placed(image, block)
    <2>1. PICK why \in WalkFaults : next = [walk EXCEPT !.errors = @ \cup {why}]
      <3>1. \/ next = [walk EXCEPT !.errors = @ \cup {"geometry"}]
            \/ next = [walk EXCEPT !.errors = @ \cup {"outside"}]
        BY <1>1, <1>3 DEF Geometry, Placed, Fails
      <3> QED
        BY <3>1 DEF WalkFaults
    <2>2. next \in Walks(image) /\ next.pointer = walk.pointer /\ next.seen = walk.seen
          /\ next.errors = walk.errors \cup {why} /\ next.kept = walk.kept
      BY <2>1 DEF Walks
    <2> QED
      BY <1>3, <2>2
  <1> QED
    BY <1>2, <1>3

LEMMA TurnIs ==
  ASSUME NEW limit \in Nat \ {0},
         NEW image, Listed(image), NEW walk \in Walks(image),
         NEW next, next = Follow(image, walk, limit)
  PROVE  /\ next \in Walks(image)
         /\ IF walk.pointer = EndOfList THEN next = walk
            ELSE IF Breaking(image, walk, limit) THEN Broken(walk, next) ELSE Taken(image, walk, next)
  <1>1. CASE walk.pointer = EndOfList
    BY <1>1 DEF Follow
  <1>2. CASE walk.pointer # EndOfList /\ Breaking(image, walk, limit)
    <2>1. PICK why \in WalkFaults :
             next = [[walk EXCEPT !.errors = @ \cup {why}] EXCEPT !.pointer = EndOfList]
      <3>1. \/ next = BreaksOff(walk, "cycle") \/ next = BreaksOff(walk, "count")
            \/ next = BreaksOff(walk, "pointer outside") \/ next = BreaksOff(walk, "part block")
        <4>1. CASE walk.pointer \in walk.seen
          BY <1>2, <4>1 DEF Follow
        <4>2. CASE walk.pointer \notin walk.seen /\ Cardinality(walk.seen) >= limit
          BY <1>2, <4>2 DEF Follow
        <4>3. CASE /\ walk.pointer \notin walk.seen /\ ~(Cardinality(walk.seen) >= limit)
                   /\ ~Readable(image, walk.pointer)
          BY <1>2, <4>3 DEF Follow, Readable
        <4>4. CASE /\ walk.pointer \notin walk.seen /\ ~(Cardinality(walk.seen) >= limit)
                   /\ Readable(image, walk.pointer) /\ ~image.blocks[walk.pointer].valid
          BY <1>2, <4>4 DEF Follow, Readable
        <4> QED
          BY <1>2, <4>1, <4>2, <4>3, <4>4 DEF Breaking
      <3>2. PICK why : why \in WalkFaults /\ next = BreaksOff(walk, why)
        BY ONLY <3>1 DEF WalkFaults
      <3> QED
        BY ONLY <3>2 DEF BreaksOff, Fails
    <2>2. next \in Walks(image) /\ next.pointer = EndOfList /\ next.seen = walk.seen
          /\ next.errors = walk.errors \cup {why} /\ next.kept = walk.kept
      <3>1. PICK errors : errors = walk.errors \cup {why} /\ errors \in SUBSET WalkFaults
        <4>1. walk.errors \in SUBSET WalkFaults
          BY DEF Walks
        <4> QED
          BY ONLY <4>1, why \in WalkFaults
      <3>2. next = [[walk EXCEPT !.errors = errors] EXCEPT !.pointer = EndOfList]
        BY <2>1, <3>1
      <3> QED
        BY <3>1, <3>2 DEF Walks
    <2> QED
      BY <1>2, <2>2 DEF Broken
  <1>3. CASE walk.pointer # EndOfList /\ ~Breaking(image, walk, limit)
    <2>1. walk.pointer \in PointersOf(image) \ {EndOfList} /\ Readable(image, walk.pointer)
      BY <1>3 DEF Walks, Breaking
    <2>2. walk.pointer \in DOMAIN image.blocks
      BY <2>1 DEF Listed, IsImage, Readable
    <2>3. PICK block \in Blocks : block = image.blocks[walk.pointer]
      BY <2>2 DEF Listed, IsImage
    <2>4. PICK placed : placed = Geometry(image, block, walk)
      OBVIOUS
    <2>5. next = [placed EXCEPT !.pointer = block.next, !.seen = @ \cup {walk.pointer}]
      BY <1>3, <2>3, <2>4 DEF Follow, Breaking, Readable
    <2>6. /\ placed \in Walks(image) /\ placed.seen = walk.seen /\ walk.errors \subseteq placed.errors
          /\ IF Placed(image, block)
             THEN /\ placed.errors = walk.errors
                  /\ placed.kept = Append(walk.kept,
                        [index |-> Len(walk.kept), start |-> Piece(image, block).start,
                         length |-> Piece(image, block).length])
             ELSE placed.errors # {} /\ placed.kept = walk.kept
      BY <2>4, GeometryIs
    <2>7. block.next \in PointersOf(image)
      BY <2>2, <2>3 DEF PointersOf
    <2>8. next \in Walks(image) /\ next.pointer = block.next
          /\ next.seen = walk.seen \cup {walk.pointer} /\ next.errors = placed.errors
          /\ next.kept = placed.kept
      <3>1. PICK seen : seen = walk.seen \cup {walk.pointer}
        OBVIOUS
      <3>2. next = [placed EXCEPT !.pointer = block.next, !.seen = seen]
        BY <2>5, <2>6, <3>1
      <3>3. seen \in SUBSET DOMAIN image.blocks
        BY <2>2, <3>1 DEF Walks
      <3>4. PICK target : target = block.next
        OBVIOUS
      <3>5. next = [placed EXCEPT !.pointer = target, !.seen = seen]
        BY <3>2, <3>4
      <3>6. target \in PointersOf(image) \cup {EndOfList} /\ placed \in Walks(image)
        BY <2>6, <2>7, <3>4
      <3>7. /\ next \in Walks(image) /\ next.pointer = target /\ next.seen = seen
            /\ next.errors = placed.errors /\ next.kept = placed.kept
        BY ONLY <3>3, <3>5, <3>6 DEF Walks
      <3> QED
        BY <3>1, <3>4, <3>7
    <2> QED
      BY <1>3, <2>2, <2>3, <2>6, <2>8 DEF Taken
  <1> QED
    BY <1>1, <1>2, <1>3

\* The walk exists, and goes through its turns one by one.
GoesThrough(image, limit, walk) ==
    /\ walk \in [0 .. limit + 1 -> Walks(image)]
    /\ walk[0] = FirstWalk(image) /\ ListWalk(image, limit) = walk[limit + 1]
    /\ \A turn \in 1 .. limit + 1 : walk[turn] = Follow(image, walk[turn - 1], limit)
LEMMA ListWalkIs ==
  ASSUME NEW limit \in Nat \ {0}, NEW image, Listed(image)
  PROVE  \E walk : GoesThrough(image, limit, walk)
  <1> DEFINE A == Walks(image)
             step == [walk \in A |-> Follow(image, walk, limit)]
             walk == CHOOSE w : w = [turn \in 0 .. limit + 1 |->
                        IF turn = 0 THEN FirstWalk(image) ELSE Follow(image, w[turn - 1], limit)]
  <1>1. ListWalk(image, limit) = walk[limit + 1]
    BY DEF ListWalk, FirstWalk
  <1>2. PICK n \in Nat : n = limit + 1
    OBVIOUS
  <1>3. FirstWalk(image) \in A
    <2>1. <<>> \in Seq(Parts) /\ image.rdb.pointer \in PointersOf(image)
      BY DEF PointersOf
    <2> QED
      BY <2>1 DEF FirstWalk, Walks
  <1>4. step \in [A -> A]
    BY TurnIs
  <1>5. PICK some : Iterates(A, FirstWalk(image), step, n, some)
    <2> HIDE DEF step, A
    <2> QED
      BY <1>3, <1>4, IterationExists
  <1>6. some = [turn \in 0 .. n |-> IF turn = 0 THEN FirstWalk(image) ELSE Follow(image, some[turn - 1], limit)]
    <2>1. ASSUME NEW turn \in 0 .. n, turn # 0 PROVE step[some[turn - 1]] = Follow(image, some[turn - 1], limit)
      <3>1. some[turn - 1] \in A
        <4> HIDE DEF A, step
        <4> QED
          BY <1>5, <2>1 DEF Iterates
      <3> QED
        BY <3>1
    <2> HIDE DEF step
    <2> QED
      BY <1>5, <2>1 DEF Iterates
  <1>7. walk = [turn \in 0 .. n |-> IF turn = 0 THEN FirstWalk(image) ELSE Follow(image, walk[turn - 1], limit)]
    BY <1>2, <1>6
  <1> HIDE DEF walk
  <1> DEFINE S == {k \in Nat : walk[k] \in A}
  <1>8. \A k \in 1 .. n : walk[k] = Follow(image, walk[k - 1], limit)
    BY <1>7
  <1>9. walk[0] = FirstWalk(image)
    BY <1>7
  <1>10. \A k \in 0 .. n : walk[k] \in A
    <2> SUFFICES ASSUME NEW k \in 0 .. n PROVE walk[k] \in A
      OBVIOUS
    <2>1. ASSUME NEW i \in 1 .. k, i - 1 \in S PROVE i \in S
      <3>1. walk[i - 1] \in Walks(image) /\ walk[i] = Follow(image, walk[i - 1], limit)
        BY <1>8, <2>1
      <3>2. walk[i] \in Walks(image)
        BY <3>1, TurnIs
      <3> QED
        BY <3>2
    <2>2. 0 \in S /\ S \in SUBSET Nat /\ k \in Nat
      BY <1>3, <1>9
    <2> HIDE DEF S
    <2>3. k \in S
      BY <2>1, <2>2, InductionUpTo
    <2> QED
      BY <2>3 DEF S
  <1>11. walk \in [0 .. n -> A]
    <2>1. DOMAIN walk = 0 .. n /\ walk = [k \in 0 .. n |-> walk[k]]
      BY <1>7
    <2> QED
      BY <1>10, <2>1
  <1> QED
    BY <1>1, <1>2, <1>8, <1>9, <1>11 DEF GoesThrough

\* What is kept lies in the image, and there is no more of it than of blocks that were seen; a turn
\* that does not end the list sees one more.
Fits(image, kept) ==
    \A i \in DOMAIN kept : kept[i].length > 0 /\ Inside(image.size, kept[i].start, kept[i].length)
Within(image, walk, turn, limit) ==
    /\ IsFiniteSet(walk.seen) /\ Cardinality(walk.seen) <= limit
    /\ Len(walk.kept) <= Cardinality(walk.seen)
    /\ Fits(image, walk.kept)
    /\ walk.pointer = EndOfList \/ Cardinality(walk.seen) = turn

LEMMA WithinAfterTurn ==
  ASSUME NEW limit \in Nat \ {0},
         NEW image, Listed(image), NEW walk \in Walks(image),
         NEW next, next = Follow(image, walk, limit),
         NEW turn \in Nat, Within(image, walk, turn, limit)
  PROVE  Within(image, next, turn + 1, limit)
  <1>1. /\ next \in Walks(image)
        /\ IF walk.pointer = EndOfList THEN next = walk
           ELSE IF Breaking(image, walk, limit) THEN Broken(walk, next) ELSE Taken(image, walk, next)
    BY TurnIs
  <1>2. PICK count \in Nat : count = Cardinality(walk.seen)
    <2>1. Cardinality(walk.seen) \in Nat
      BY FS_CardinalityType DEF Within
    <2> QED
      BY <2>1
  <1>3. CASE walk.pointer = EndOfList
    BY <1>1, <1>3 DEF Within
  <1>4. CASE walk.pointer # EndOfList /\ Breaking(image, walk, limit)
    BY <1>1, <1>4 DEF Broken, Within
  <1>5. CASE walk.pointer # EndOfList /\ ~Breaking(image, walk, limit)
    <2>1. Taken(image, walk, next) /\ walk.pointer \notin walk.seen /\ count < limit
      BY <1>1, <1>2, <1>5 DEF Breaking
    <2>2. count = turn
      BY <1>2, <1>5 DEF Within
    <2>3. IsFiniteSet(next.seen) /\ Cardinality(next.seen) = count + 1
      <3>1. next.seen = walk.seen \cup {walk.pointer}
        BY <2>1 DEF Taken
      <3>2. IsFiniteSet(walk.seen)
        BY DEF Within
      <3> QED
        BY <1>2, <2>1, <3>1, <3>2, FS_AddElement
    <2>4. PICK block \in Blocks : block = image.blocks[walk.pointer]
      BY <2>1 DEF Taken, Listed, IsImage
    <2>5. PICK m \in Nat : m = Len(walk.kept) /\ DOMAIN walk.kept = 1 .. m
      BY DEF Walks
    <2>6. CASE ~Placed(image, block)
      <3>1. next.kept = walk.kept
        BY <2>1, <2>4, <2>6 DEF Taken
      <3> QED
        BY <1>2, <2>1, <2>2, <2>3, <2>5, <3>1 DEF Within
    <2>7. CASE Placed(image, block)
      <3> DEFINE part == [index |-> m, start |-> Piece(image, block).start,
                          length |-> Piece(image, block).length]
      <3>1. next.kept = Append(walk.kept, part)
        BY <2>1, <2>4, <2>5, <2>7 DEF Taken
      <3>2. part.length > 0 /\ Inside(image.size, part.start, part.length)
        BY <2>7, PieceIs DEF Placed
      <3> HIDE DEF part
      <3>3. /\ Len(next.kept) = m + 1 /\ DOMAIN next.kept = 1 .. m + 1 /\ next.kept[m + 1] = part
            /\ \A i \in 1 .. m : next.kept[i] = walk.kept[i]
        BY <2>5, <3>1 DEF Walks
      <3>4. Fits(image, next.kept)
        <4> SUFFICES ASSUME NEW i \in 1 .. m + 1
                     PROVE  next.kept[i].length > 0
                            /\ Inside(image.size, next.kept[i].start, next.kept[i].length)
          BY <3>3 DEF Fits
        <4>1. CASE i \in 1 .. m
          BY <2>5, <3>3, <4>1 DEF Within, Fits
        <4>2. CASE i = m + 1
          BY <3>2, <3>3, <4>2
        <4> QED
          BY <4>1, <4>2
      <3> QED
        BY <1>2, <2>1, <2>2, <2>3, <2>5, <3>3, <3>4 DEF Within
    <2> QED
      BY <2>6, <2>7
  <1> QED
    BY <1>3, <1>4, <1>5

\* After the last turn the list has ended.
LEMMA WalkEnds ==
  ASSUME NEW limit \in Nat \ {0}, NEW image, Listed(image)
  PROVE  LET walk == ListWalk(image, limit)
         IN  walk \in Walks(image) /\ walk.pointer = EndOfList /\ Len(walk.kept) <= limit
             /\ Fits(image, walk.kept)
  <1>0. PICK walk : GoesThrough(image, limit, walk)
    BY ListWalkIs
  <1>1. /\ walk \in [0 .. limit + 1 -> Walks(image)]
        /\ walk[0] = FirstWalk(image) /\ ListWalk(image, limit) = walk[limit + 1]
        /\ \A turn \in 1 .. limit + 1 : walk[turn] = Follow(image, walk[turn - 1], limit)
    BY <1>0 DEF GoesThrough
  <1> DEFINE S == {turn \in Nat : Within(image, walk[turn], turn, limit)}
  <1>2. 0 \in S
    <2>1. IsFiniteSet({}) /\ Cardinality({}) = 0
      BY FS_EmptySet
    <2>2. Within(image, FirstWalk(image), 0, limit)
      BY <2>1 DEF Within, FirstWalk, Fits
    <2> QED
      BY <1>1, <2>2
  <1>3. ASSUME NEW turn \in 1 .. limit + 1, turn - 1 \in S PROVE turn \in S
    <2>1. PICK before \in Nat : before = turn - 1 /\ turn = before + 1
      BY <1>3
    <2>2. walk[before] \in Walks(image) /\ walk[turn] = Follow(image, walk[before], limit)
      BY <1>1, <2>1
    <2>3. Within(image, walk[turn], before + 1, limit)
      BY <1>3, <2>1, <2>2, WithinAfterTurn
    <2> QED
      BY <2>1, <2>3
  <1>4. S \in SUBSET Nat /\ limit + 1 \in Nat
    OBVIOUS
  <1> HIDE DEF S
  <1>5. limit + 1 \in S
    BY <1>2, <1>3, <1>4, InductionUpTo
  <1>6. PICK last \in Walks(image) : last = ListWalk(image, limit) /\ Within(image, last, limit + 1, limit)
    BY <1>1, <1>4, <1>5 DEF S
  <1>7. Cardinality(last.seen) \in Nat /\ Len(last.kept) \in Nat
    BY <1>6, FS_CardinalityType DEF Within, Walks
  <1>8. last.pointer = EndOfList /\ Len(last.kept) <= limit /\ Fits(image, last.kept)
    BY <1>6, <1>7 DEF Within
  <1> QED
    BY <1>6, <1>8

(***************************************************************************)
(* A list without an error is sound: the blocks that the walk takes are    *)
(* the list.                                                               *)
(***************************************************************************)

LinkOf(list, last, i) == IF i > Len(list) THEN last ELSE list[i]
PartOf(image, list, i) ==
    [index |-> i - 1, start |-> Piece(image, image.blocks[list[i]]).start,
     length |-> Piece(image, image.blocks[list[i]]).length]
SoundBlock(image, pointer) ==
    /\ Readable(image, pointer) /\ image.blocks[pointer].valid
    /\ Placed(image, image.blocks[pointer])

\* The blocks of a list are sound and lead from the header to its last pointer.
Chained(image, list, last) ==
    /\ list \in Seq(DOMAIN image.blocks)
    /\ \A i, k \in 1 .. Len(list) : i # k => list[i] # list[k]
    /\ image.rdb.pointer = LinkOf(list, last, 1)
    /\ \A i \in 1 .. Len(list) : /\ SoundBlock(image, list[i])
                                 /\ image.blocks[list[i]].next = LinkOf(list, last, i + 1)
\* What was taken is that list.
Takes(image, list, walk) ==
    /\ walk.seen = {list[i] : i \in 1 .. Len(list)} /\ Cardinality(walk.seen) = Len(list)
    /\ Len(walk.kept) = Len(list)
    /\ \A i \in 1 .. Len(list) : walk.kept[i] = PartOf(image, list, i)

LEMMA ChainGrows ==
  ASSUME NEW limit \in Nat \ {0},
         NEW image, Listed(image), NEW list, NEW last, Chained(image, list, last),
         NEW walk \in Walks(image), Takes(image, list, walk), IsFiniteSet(walk.seen),
         walk.pointer = last,
         NEW next \in Walks(image), Taken(image, walk, next), ~Breaking(image, walk, limit),
         Placed(image, image.blocks[last])
  PROVE  \E more : Chained(image, more, next.pointer) /\ Takes(image, more, next)
  <1>1. PICK n \in Nat : n = Len(list) /\ DOMAIN list = 1 .. n
    BY DEF Chained
  <1>2. last \in DOMAIN image.blocks /\ list \in Seq(DOMAIN image.blocks)
    BY DEF Taken, Chained
  <1>3. PICK more : more = Append(list, last)
    OBVIOUS
  <1>4. /\ more \in Seq(DOMAIN image.blocks) /\ Len(more) = n + 1 /\ more[n + 1] = last
        /\ \A i \in 1 .. n : more[i] = list[i]
    BY <1>1, <1>2, <1>3
  <1>5. next.pointer = image.blocks[last].next /\ next.seen = walk.seen \cup {last}
        /\ next.kept = Append(walk.kept, [index |-> Len(walk.kept),
                                start |-> Piece(image, image.blocks[last]).start,
                                length |-> Piece(image, image.blocks[last]).length])
    BY DEF Taken
  <1>6. SoundBlock(image, last) /\ last \notin walk.seen
    BY DEF SoundBlock, Breaking
  <1>7. \A i \in 1 .. n : list[i] \in walk.seen
    BY <1>1 DEF Takes
  <1>8. Chained(image, more, next.pointer)
    <2>1. \A i, k \in 1 .. n + 1 : i # k => more[i] # more[k]
      <3> SUFFICES ASSUME NEW i \in 1 .. n + 1, NEW k \in 1 .. n + 1, i # k
                   PROVE  more[i] # more[k]
        OBVIOUS
      <3>1. CASE i \in 1 .. n /\ k \in 1 .. n
        BY <1>1, <1>4, <3>1 DEF Chained
      <3>2. CASE i = n + 1 /\ k \in 1 .. n
        BY <1>4, <1>6, <1>7, <3>2
      <3>3. CASE k = n + 1 /\ i \in 1 .. n
        BY <1>4, <1>6, <1>7, <3>3
      <3> QED
        BY <3>1, <3>2, <3>3
    <2>2. ASSUME NEW i \in 1 .. n + 1 PROVE LinkOf(more, next.pointer, i) = LinkOf(list, last, i)
      <3>1. CASE i \in 1 .. n
        BY <1>1, <1>4, <3>1 DEF LinkOf
      <3>2. CASE i = n + 1
        BY <1>1, <1>4, <3>2 DEF LinkOf
      <3> QED
        BY <3>1, <3>2
    <2>3. LinkOf(more, next.pointer, (n + 1) + 1) = next.pointer
      BY <1>4 DEF LinkOf
    <2>4. image.rdb.pointer = LinkOf(more, next.pointer, 1)
      <3>1. 1 \in 1 .. n + 1
        OBVIOUS
      <3> QED
        BY <2>2, <3>1 DEF Chained
    <2>5. ASSUME NEW i \in 1 .. n + 1
          PROVE  /\ SoundBlock(image, more[i])
                 /\ image.blocks[more[i]].next = LinkOf(more, next.pointer, i + 1)
      <3>1. CASE i \in 1 .. n
        <4>1. i + 1 \in 1 .. n + 1 /\ more[i] = list[i]
          BY <1>4, <3>1
        <4>2. SoundBlock(image, list[i]) /\ image.blocks[list[i]].next = LinkOf(list, last, i + 1)
          BY <1>1, <3>1 DEF Chained
        <4> QED
          BY <2>2, <4>1, <4>2
      <3>2. CASE i = n + 1
        BY <1>4, <1>5, <1>6, <2>3, <3>2
      <3> QED
        BY <3>1, <3>2
    <2> QED
      BY <1>4, <2>1, <2>4, <2>5 DEF Chained
  <1>9. Takes(image, more, next)
    <2>1. next.seen = {more[i] : i \in 1 .. n + 1}
      <3>1. walk.seen = {list[i] : i \in 1 .. n}
        BY <1>1 DEF Takes
      <3>2. \A x : x \in {more[i] : i \in 1 .. n + 1} <=> x \in {list[i] : i \in 1 .. n} \/ x = last
        BY <1>4
      <3> QED
        BY <1>5, <3>1, <3>2
    <2>2. Cardinality(next.seen) = n + 1
      <3>1. Cardinality(walk.seen) = n
        BY <1>1 DEF Takes
      <3> QED
        BY <1>5, <1>6, <3>1, FS_AddElement
    <2>3. Len(walk.kept) = n /\ walk.kept \in Seq(Parts)
      BY <1>1 DEF Takes, Walks
    <2> DEFINE part == [index |-> n, start |-> Piece(image, image.blocks[last]).start,
                        length |-> Piece(image, image.blocks[last]).length]
    <2>4. next.kept = Append(walk.kept, part)
      BY <1>5, <2>3
    <2>5. part = PartOf(image, more, n + 1)
      BY <1>4 DEF PartOf
    <2> HIDE DEF part
    <2>6. Len(next.kept) = n + 1 /\ next.kept[n + 1] = part
          /\ \A i \in 1 .. n : next.kept[i] = walk.kept[i]
      BY <2>3, <2>4
    <2>7. ASSUME NEW i \in 1 .. n + 1 PROVE next.kept[i] = PartOf(image, more, i)
      <3>1. CASE i \in 1 .. n
        <4>1. walk.kept[i] = PartOf(image, list, i)
          BY <1>1, <3>1 DEF Takes
        <4> QED
          BY <1>4, <2>6, <3>1, <4>1 DEF PartOf
      <3>2. CASE i = n + 1
        BY <2>5, <2>6, <3>2
      <3> QED
        BY <3>1, <3>2
    <2> QED
      BY <1>4, <2>1, <2>2, <2>6, <2>7 DEF Takes
  <1> QED
    BY <1>8, <1>9

\* As long as there is no error, the walk has taken a list that leads to its pointer.
Taking(image, walk) ==
    walk.errors = {} =>
        IsFiniteSet(walk.seen)
        /\ \E list : Chained(image, list, walk.pointer) /\ Takes(image, list, walk)

LEMMA TakingAfterTurn ==
  ASSUME NEW limit \in Nat \ {0},
         NEW image, Listed(image), NEW walk \in Walks(image),
         NEW next, next = Follow(image, walk, limit),
         Taking(image, walk)
  PROVE  Taking(image, next)
  <1> SUFFICES ASSUME next.errors = {}
               PROVE  IsFiniteSet(next.seen)
                      /\ \E list : Chained(image, list, next.pointer) /\ Takes(image, list, next)
    BY DEF Taking
  <1>1. /\ next \in Walks(image)
        /\ IF walk.pointer = EndOfList THEN next = walk
           ELSE IF Breaking(image, walk, limit) THEN Broken(walk, next) ELSE Taken(image, walk, next)
    BY TurnIs
  <1>2. CASE next = walk
    BY <1>2 DEF Taking
  <1>3. CASE next # walk
    <2>1. Taken(image, walk, next) /\ ~Breaking(image, walk, limit)
      BY <1>1, <1>3 DEF Broken
    <2>2. walk.errors = {} /\ Placed(image, image.blocks[walk.pointer])
      BY <2>1 DEF Taken
    <2>3. IsFiniteSet(walk.seen)
      BY <2>2 DEF Taking
    <2>4. PICK list : Chained(image, list, walk.pointer) /\ Takes(image, list, walk)
      BY <2>2 DEF Taking
    <2>5. \E more : Chained(image, more, next.pointer) /\ Takes(image, more, next)
      <3>1. PICK last : last = walk.pointer
        OBVIOUS
      <3> QED
        BY <1>1, <2>1, <2>2, <2>3, <2>4, <3>1, ChainGrows
    <2>6. IsFiniteSet(next.seen)
      <3>1. next.seen = walk.seen \cup {walk.pointer}
        BY <2>1 DEF Taken
      <3> QED
        BY <2>3, <3>1, FS_AddElement
    <2> QED
      BY <2>5, <2>6
  <1> QED
    BY <1>2, <1>3

LEMMA ErrorFreeWalkIsAList ==
  ASSUME NEW limit \in Nat \ {0}, NEW image, Listed(image), ListWalk(image, limit).errors = {}
  PROVE  \E list : Chained(image, list, EndOfList) /\ Takes(image, list, ListWalk(image, limit))
  <1>0. PICK walk : GoesThrough(image, limit, walk)
    BY ListWalkIs
  <1>1. /\ walk \in [0 .. limit + 1 -> Walks(image)]
        /\ walk[0] = FirstWalk(image) /\ ListWalk(image, limit) = walk[limit + 1]
        /\ \A turn \in 1 .. limit + 1 : walk[turn] = Follow(image, walk[turn - 1], limit)
    BY <1>0 DEF GoesThrough
  <1> DEFINE S == {turn \in Nat : Taking(image, walk[turn])}
  <1>2. 0 \in S
    <2>1. IsFiniteSet({}) /\ Cardinality({}) = 0
      BY FS_EmptySet
    <2>2. Chained(image, <<>>, image.rdb.pointer)
      BY DEF Chained, LinkOf
    <2>3. Takes(image, <<>>, FirstWalk(image))
      BY <2>1 DEF Takes, FirstWalk
    <2>4. Taking(image, FirstWalk(image))
      <3>1. FirstWalk(image).pointer = image.rdb.pointer /\ FirstWalk(image).seen = {}
        BY DEF FirstWalk
      <3> QED
        BY <2>1, <2>2, <2>3, <3>1 DEF Taking
    <2> QED
      BY <1>1, <2>4
  <1>3. ASSUME NEW turn \in 1 .. limit + 1, turn - 1 \in S PROVE turn \in S
    <2>1. PICK before \in Nat : before = turn - 1
      BY <1>3
    <2>2. walk[before] \in Walks(image) /\ walk[turn] = Follow(image, walk[before], limit)
      BY <1>1, <2>1
    <2>3. Taking(image, walk[turn])
      BY <1>3, <2>1, <2>2, TakingAfterTurn
    <2> QED
      BY <2>3
  <1>4. S \in SUBSET Nat /\ limit + 1 \in Nat
    OBVIOUS
  <1> HIDE DEF S
  <1>5. limit + 1 \in S
    BY <1>2, <1>3, <1>4, InductionUpTo
  <1>6. Taking(image, ListWalk(image, limit))
    BY <1>1, <1>5 DEF S
  <1>7. ListWalk(image, limit).pointer = EndOfList
    BY WalkEnds
  <1> QED
    BY <1>6, <1>7 DEF Taking

(***************************************************************************)
(* A sound list is taken whole, without an error.                          *)
(***************************************************************************)

\* The walk has taken the first m blocks of the list.
Along(image, list, walk, m) ==
    /\ walk.pointer = LinkOf(list, EndOfList, m + 1) /\ walk.errors = {}
    /\ walk.seen = {list[i] : i \in 1 .. m} /\ IsFiniteSet(walk.seen) /\ Cardinality(walk.seen) = m
    /\ Len(walk.kept) = m
    /\ \A i \in 1 .. m : walk.kept[i] = PartOf(image, list, i)

LEMMA AlongAfterTurn ==
  ASSUME NEW limit \in Nat \ {0},
         NEW image, Listed(image), NEW list, Chained(image, list, EndOfList),
         NEW n \in Nat, n = Len(list), n <= limit, NEW m \in Nat, m < n,
         NEW walk \in Walks(image), Along(image, list, walk, m), NEW next, next = Follow(image, walk, limit)
  PROVE  Along(image, list, next, m + 1)
  <1>1. /\ next \in Walks(image)
        /\ IF walk.pointer = EndOfList THEN next = walk
           ELSE IF Breaking(image, walk, limit) THEN Broken(walk, next) ELSE Taken(image, walk, next)
    BY TurnIs
  <1>2. PICK k \in 1 .. n : k = m + 1
    OBVIOUS
  <1>3. list \in Seq(DOMAIN image.blocks) /\ list[k] \in DOMAIN image.blocks
    BY <1>2 DEF Chained
  <1>4. walk.pointer = list[k] /\ list[k] # EndOfList
    <2>1. list[k] \in Nat
      BY <1>3 DEF Listed, IsImage
    <2>2. LinkOf(list, EndOfList, k) = list[k]
      BY <1>2 DEF LinkOf
    <2> QED
      BY <1>2, <2>1, <2>2 DEF Along, EndOfList
  <1>5. SoundBlock(image, list[k]) /\ image.blocks[list[k]].next = LinkOf(list, EndOfList, k + 1)
    BY <1>2 DEF Chained
  <1>6. ~Breaking(image, walk, limit)
    <2>1. list[k] \notin walk.seen
      <3>1. \A i \in 1 .. m : list[i] # list[k]
        BY <1>2 DEF Chained
      <3> QED
        BY <3>1 DEF Along
    <2>2. Cardinality(walk.seen) = m
      BY DEF Along
    <2> QED
      BY <1>4, <1>5, <2>1, <2>2 DEF Breaking, SoundBlock
  <1>7. Taken(image, walk, next)
    BY <1>1, <1>4, <1>6
  <1>8. /\ next.pointer = image.blocks[list[k]].next /\ next.seen = walk.seen \cup {list[k]}
        /\ next.errors = walk.errors
        /\ next.kept = Append(walk.kept, [index |-> Len(walk.kept),
                                start |-> Piece(image, image.blocks[list[k]]).start,
                                length |-> Piece(image, image.blocks[list[k]]).length])
    <2>1. Placed(image, image.blocks[walk.pointer])
      BY <1>4, <1>5 DEF SoundBlock
    <2> QED
      BY <1>4, <1>7, <2>1 DEF Taken
  <1>9. next.pointer = LinkOf(list, EndOfList, (m + 1) + 1) /\ next.errors = {}
    BY <1>2, <1>5, <1>8 DEF Along
  <1>10. next.seen = {list[i] : i \in 1 .. m + 1}
    <2>1. walk.seen = {list[i] : i \in 1 .. m}
      BY DEF Along
    <2>2. \A x : x \in {list[i] : i \in 1 .. m + 1} <=> x \in {list[i] : i \in 1 .. m} \/ x = list[k]
      BY <1>2
    <2> QED
      BY <1>8, <2>1, <2>2
  <1>11. IsFiniteSet(next.seen) /\ Cardinality(next.seen) = m + 1
    <2>1. IsFiniteSet(walk.seen) /\ Cardinality(walk.seen) = m /\ list[k] \notin walk.seen
      BY <1>4, <1>6 DEF Along, Breaking
    <2>2. /\ IsFiniteSet(walk.seen \cup {list[k]})
          /\ Cardinality(walk.seen \cup {list[k]}) = Cardinality(walk.seen) + 1
      BY ONLY <2>1, FS_AddElement
    <2> QED
      BY <1>8, <2>1, <2>2
  <1>12. Len(next.kept) = m + 1 /\ \A i \in 1 .. m + 1 : next.kept[i] = PartOf(image, list, i)
    <2> DEFINE part == [index |-> m, start |-> Piece(image, image.blocks[list[k]]).start,
                        length |-> Piece(image, image.blocks[list[k]]).length]
    <2>1. Len(walk.kept) = m /\ walk.kept \in Seq(Parts)
      BY DEF Along, Walks
    <2>2. next.kept = Append(walk.kept, part)
      BY <1>8, <2>1
    <2>3. part = PartOf(image, list, k)
      BY <1>2 DEF PartOf
    <2> HIDE DEF part
    <2>4. Len(next.kept) = m + 1 /\ next.kept[m + 1] = part
          /\ \A i \in 1 .. m : next.kept[i] = walk.kept[i]
      BY <2>1, <2>2
    <2>5. \A i \in 1 .. m : walk.kept[i] = PartOf(image, list, i)
      BY DEF Along
    <2>6. \A i \in 1 .. m + 1 : i \in 1 .. m \/ i = k
      BY <1>2
    <2> QED
      BY <1>2, <2>3, <2>4, <2>5, <2>6
  <1> QED
    BY <1>9, <1>10, <1>11, <1>12 DEF Along

LEMMA ListIsTaken ==
  ASSUME NEW limit \in Nat \ {0},
         NEW image, Listed(image), NEW list, Chained(image, list, EndOfList),
         Len(list) <= limit
  PROVE  Along(image, list, ListWalk(image, limit), Len(list))
  <1>0. PICK walk : GoesThrough(image, limit, walk)
    BY ListWalkIs
  <1>1. /\ walk \in [0 .. limit + 1 -> Walks(image)]
        /\ walk[0] = FirstWalk(image) /\ ListWalk(image, limit) = walk[limit + 1]
        /\ \A turn \in 1 .. limit + 1 : walk[turn] = Follow(image, walk[turn - 1], limit)
    BY <1>0 DEF GoesThrough
  <1>2. PICK n \in Nat : n = Len(list)
    BY DEF Chained
  <1> DEFINE S == {turn \in Nat : \E m \in 0 .. n : (m = turn \/ m = n) /\ Along(image, list, walk[turn], m)}
  <1>3. 0 \in S
    <2>1. IsFiniteSet({}) /\ Cardinality({}) = 0
      BY FS_EmptySet
    <2>2. image.rdb.pointer = LinkOf(list, EndOfList, 0 + 1)
      BY DEF Chained
    <2>3. Along(image, list, FirstWalk(image), 0)
      BY <2>1, <2>2 DEF Along, FirstWalk
    <2> QED
      BY <1>1, <2>3
  <1>4. ASSUME NEW turn \in 1 .. limit + 1, turn - 1 \in S PROVE turn \in S
    <2>1. PICK before \in Nat : before = turn - 1 /\ turn = before + 1
      BY <1>4
    <2>2. walk[before] \in Walks(image) /\ walk[turn] = Follow(image, walk[before], limit)
      BY <1>1, <2>1
    <2>3. PICK m \in 0 .. n : (m = before \/ m = n) /\ Along(image, list, walk[before], m)
      BY <1>4, <2>1
    <2>4. CASE m < n
      <3>1. m \in Nat /\ n <= limit
        BY <1>2
      <3>2. Along(image, list, walk[turn], m + 1)
        BY <1>2, <2>2, <2>3, <2>4, <3>1, AlongAfterTurn
      <3> QED
        BY <2>1, <2>3, <2>4, <3>2
    <2>5. CASE m = n
      <3>1. walk[before].pointer = EndOfList
        BY <1>2, <2>3, <2>5 DEF Along, LinkOf
      <3>2. walk[turn] = walk[before]
        BY <2>2, <3>1, TurnIs
      <3> QED
        BY <2>3, <2>5, <3>2
    <2> QED
      BY <2>4, <2>5
  <1>5. S \in SUBSET Nat /\ limit + 1 \in Nat
    OBVIOUS
  <1> HIDE DEF S
  <1>6. limit + 1 \in S
    BY <1>3, <1>4, <1>5, InductionUpTo
  <1>7. PICK m \in 0 .. n : /\ m = limit + 1 \/ m = n
                            /\ Along(image, list, walk[limit + 1], m)
    BY <1>6 DEF S
  <1>8. m = n
    BY <1>2, <1>7
  <1> QED
    BY <1>1, <1>2, <1>7, <1>8

(***************************************************************************)
(* Neighbours in the order of their starts: there is such an order, and    *)
(* comparing them finds an overlap of any two.                             *)
(***************************************************************************)

\* The first m parts in order.
SortsFirst(order, kept, m) ==
    /\ order \in [1 .. m -> 1 .. m]
    /\ \A i, k \in 1 .. m : i # k => order[i] # order[k]
    /\ \A i, k \in 1 .. m : i < k => ~InOrder(kept[order[k]], kept[order[i]])

LEMMA OrderIsLinear ==
  ASSUME NEW a \in Parts, NEW b \in Parts, NEW c \in Parts
  PROVE  /\ ~InOrder(b, a) /\ ~InOrder(c, b) => ~InOrder(c, a)
         /\ InOrder(a, b) => ~InOrder(b, a)
         /\ ~InOrder(b, a) => a.start <= b.start
  <1>1. /\ a.start \in Nat /\ a.length \in Nat /\ b.start \in Nat /\ b.length \in Nat
        /\ c.start \in Nat /\ c.length \in Nat
    BY DEF Parts
  <1> QED
    BY <1>1 DEF InOrder

\* One more part is put before the first that comes after it.
LEMMA SortsOneMore ==
  ASSUME NEW m \in Nat, NEW kept, \A i \in 1 .. m + 1 : kept[i] \in Parts,
         NEW order, SortsFirst(order, kept, m)
  PROVE  \E more : SortsFirst(more, kept, m + 1)
  <1> DEFINE After == {i \in 1 .. m : InOrder(kept[m + 1], kept[order[i]])}
  <1>1. \E p \in 1 .. m + 1 : /\ \A i \in 1 .. m : i < p => i \notin After
                              /\ p <= m => p \in After
    <2>1. CASE After = {}
      BY <2>1
    <2>2. CASE After # {}
      <3>1. After \in SUBSET Nat
        OBVIOUS
      <3> HIDE DEF After
      <3>2. PICK p \in After : \A i \in After : <<i, p>> \notin Below
        BY ONLY <2>2, <3>1, BelowIsWellFounded, WFMin
      <3>3. \A i \in After : ~(i < p)
        BY <3>1, <3>2 DEF Below
      <3> QED
        BY <3>2, <3>3 DEF After
    <2> QED
      BY <2>1, <2>2
  <1>2. PICK p \in 1 .. m + 1 : /\ \A i \in 1 .. m : i < p => i \notin After
                                /\ p <= m => p \in After
    BY <1>1
  <1> DEFINE more == [i \in 1 .. m + 1 |->
                        IF i < p THEN order[i] ELSE IF i = p THEN m + 1 ELSE order[i - 1]]
  <1>3. /\ \A i \in 1 .. m : order[i] \in 1 .. m
        /\ \A i, k \in 1 .. m : i # k => order[i] # order[k]
        /\ \A i, k \in 1 .. m : i < k => ~InOrder(kept[order[k]], kept[order[i]])
    BY DEF SortsFirst
  <1>4. /\ \A i \in 1 .. m + 1 : i < p => more[i] = order[i] /\ i \in 1 .. m
        /\ more[p] = m + 1
        /\ \A i \in 1 .. m + 1 : i > p => more[i] = order[i - 1] /\ i - 1 \in 1 .. m
    OBVIOUS
  <1>5. more \in [1 .. m + 1 -> 1 .. m + 1]
    <2>1. ASSUME NEW i \in 1 .. m + 1 PROVE more[i] \in 1 .. m + 1
      <3>1. i < p \/ i = p \/ i > p
        OBVIOUS
      <3> HIDE DEF more
      <3> QED
        BY <1>3, <1>4, <3>1
    <2> HIDE DEF more
    <2>2. more = [i \in 1 .. m + 1 |-> more[i]]
      BY DEF more
    <2> QED
      BY <2>1, <2>2
  <1> HIDE DEF more
  <1>6. ASSUME NEW i \in 1 .. m + 1, NEW k \in 1 .. m + 1, i < k
        PROVE  more[i] # more[k] /\ ~InOrder(kept[more[k]], kept[more[i]])
    <2>1. CASE k < p
      BY <1>3, <1>4, <1>6, <2>1
    <2>2. CASE k = p
      <3>1. i < p /\ i \in 1 .. m /\ more[i] = order[i] /\ more[k] = m + 1
        BY <1>4, <1>6, <2>2
      <3>2. ~InOrder(kept[m + 1], kept[order[i]])
        BY <1>2, <3>1
      <3> QED
        BY <1>3, <3>1, <3>2
    <2>3. CASE k > p
      <3>1. PICK q \in 1 .. m : q = k - 1 /\ more[k] = order[q]
        BY <1>4, <2>3
      <3>2. CASE i < p
        BY <1>3, <1>4, <2>3, <3>1, <3>2
      <3>3. CASE i = p
        <4>1. more[i] = m + 1 /\ p <= q /\ p \in 1 .. m
          BY <1>4, <2>3, <3>1, <3>3
        <4>2. PICK a, b, c : a = kept[m + 1] /\ b = kept[order[p]] /\ c = kept[order[q]]
          OBVIOUS
        <4>3. a \in Parts /\ b \in Parts /\ c \in Parts
          BY <1>3, <3>1, <4>1, <4>2
        <4>4. InOrder(a, b)
          BY <1>2, <4>1, <4>2
        <4>5. b = c \/ ~InOrder(c, b)
          <5>1. p = q \/ p < q
            BY <4>1
          <5> QED
            BY <1>3, <4>1, <4>2, <5>1
        <4>6. ~InOrder(c, a)
          BY <4>3, <4>4, <4>5, OrderIsLinear
        <4> QED
          BY <1>3, <3>1, <4>1, <4>2, <4>6
      <3>4. CASE i > p
        <4>1. i - 1 \in 1 .. m /\ more[i] = order[i - 1] /\ i - 1 < q
          BY <1>4, <1>6, <3>1, <3>4
        <4> QED
          BY <1>3, <3>1, <4>1
      <3> QED
        BY <3>2, <3>3, <3>4
    <2> QED
      BY <2>1, <2>2, <2>3
  <1>7. \A i, k \in 1 .. m + 1 : i # k => more[i] # more[k]
    <2> SUFFICES ASSUME NEW i \in 1 .. m + 1, NEW k \in 1 .. m + 1, i # k PROVE more[i] # more[k]
      OBVIOUS
    <2>1. i < k \/ k < i
      OBVIOUS
    <2> QED
      BY <1>6, <2>1
  <1> QED
    BY <1>5, <1>6, <1>7 DEF SortsFirst

LEMMA SortExists ==
  ASSUME NEW kept \in Seq(Parts), NEW n \in Nat, n = Len(kept)
  PROVE  \E order : SortsFirst(order, kept, n)
  <1> DEFINE S == {m \in Nat : \E order : SortsFirst(order, kept, m)}
  <1>1. 0 \in S
    <2>1. SortsFirst([i \in 1 .. 0 |-> i], kept, 0)
      BY DEF SortsFirst
    <2> QED
      BY <2>1
  <1>2. ASSUME NEW k \in 1 .. n, k - 1 \in S PROVE k \in S
    <2>1. PICK m \in Nat : m = k - 1 /\ k = m + 1
      BY <1>2
    <2>2. PICK order : SortsFirst(order, kept, m)
      BY <1>2, <2>1
    <2>3. \A i \in 1 .. m + 1 : kept[i] \in Parts
      BY <2>1
    <2>4. \E more : SortsFirst(more, kept, m + 1)
      BY <2>2, <2>3, SortsOneMore
    <2> QED
      BY <2>1, <2>4
  <1>3. S \in SUBSET Nat
    OBVIOUS
  <1> HIDE DEF S
  <1>4. n \in S
    BY <1>1, <1>2, <1>3, InductionUpTo
  <1> QED
    BY <1>4 DEF S

LEMMA DisjointIs ==
  ASSUME NEW a, NEW b, a.start \in Nat, b.start \in Nat, a.length \in Nat \ {0},
         b.length \in Nat \ {0}, a.start <= b.start
  PROVE  Disjoint(a, b) <=> ~(b.start < a.start + a.length)
  BY DEF Disjoint

LEMMA OverlapIs ==
  ASSUME NEW kept \in Seq(Parts), \A i \in DOMAIN kept : kept[i].length > 0
  PROVE  Overlap(kept) <=> \E i, k \in DOMAIN kept : i # k /\ ~Disjoint(kept[i], kept[k])
  <1>1. PICK n \in Nat : n = Len(kept) /\ DOMAIN kept = 1 .. n
    OBVIOUS
  <1>2. Cardinality(1 .. n) = n /\ IsFiniteSet(1 .. n)
    BY FS_Interval
  <1>3. \E order \in SetToSeqs(1 .. n) : Sorts(order, kept)
    <2>1. PICK order : SortsFirst(order, kept, n)
      BY <1>1, SortExists
    <2>2. order \in SetToSeqs(1 .. n)
      BY <1>2, <2>1 DEF SetToSeqs, SortsFirst
    <2>3. Sorts(order, kept)
      BY <1>1, <2>1 DEF Sorts, SortsFirst
    <2> QED
      BY <2>2, <2>3
  <1>4. PICK order : /\ order \in SetToSeqs(1 .. n) /\ Sorts(order, kept)
                     /\ order = CHOOSE o \in SetToSeqs(1 .. n) : Sorts(o, kept)
    BY <1>3
  <1>5. Overlap(kept) <=> \E i \in 1 .. n - 1 : kept[order[i + 1]].start
                                                   < kept[order[i]].start + kept[order[i]].length
    BY <1>1, <1>4 DEF Overlap
  <1>6. order \in [1 .. n -> 1 .. n] /\ \A i, k \in 1 .. n : i # k => order[i] # order[k]
    BY <1>2, <1>4 DEF SetToSeqs
  <1>7. \A a \in 1 .. n : \E i \in 1 .. n : order[i] = a
    <2>1. order \in Injection(1 .. n, 1 .. n)
      BY <1>6 DEF Injection, IsInjective
    <2>2. order \in Surjection(1 .. n, 1 .. n)
      BY <1>2, <2>1, FS_Injection
    <2> QED
      BY <2>2 DEF Surjection
  <1>8. \A i \in 1 .. n : /\ kept[order[i]] \in Parts /\ kept[order[i]].start \in Nat
                          /\ kept[order[i]].length \in Nat \ {0}
    <2>1. ASSUME NEW a \in 1 .. n
          PROVE  kept[a] \in Parts /\ kept[a].start \in Nat /\ kept[a].length \in Nat \ {0}
      <3>1. kept[a] \in Parts /\ kept[a].length > 0
        BY <1>1
      <3> QED
        BY <3>1 DEF Parts
    <2> QED
      BY <1>6, <2>1
  <1>9. \A i, k \in 1 .. n : i < k => kept[order[i]].start <= kept[order[k]].start
    <2> SUFFICES ASSUME NEW i \in 1 .. n, NEW k \in 1 .. n, i < k
                 PROVE  kept[order[i]].start <= kept[order[k]].start
      OBVIOUS
    <2>1. ~InOrder(kept[order[k]], kept[order[i]])
      BY <1>1, <1>4 DEF Sorts
    <2> QED
      BY <1>8, <2>1, OrderIsLinear
  <1>10. ASSUME Overlap(kept) PROVE \E i, k \in 1 .. n : i # k /\ ~Disjoint(kept[i], kept[k])
    <2>1. PICK i \in 1 .. n - 1 : kept[order[i + 1]].start
                                     < kept[order[i]].start + kept[order[i]].length
      BY <1>5, <1>10
    <2>2. PICK k \in 1 .. n : k = i + 1
      OBVIOUS
    <2>3. i \in 1 .. n /\ order[i] \in 1 .. n /\ order[k] \in 1 .. n /\ order[i] # order[k]
      BY <1>6, <2>2
    <2>4. kept[order[i]].start <= kept[order[k]].start
      BY <1>9, <2>2, <2>3
    <2>5. ~Disjoint(kept[order[i]], kept[order[k]])
      <3>1. PICK a, b : a = kept[order[i]] /\ b = kept[order[k]]
        OBVIOUS
      <3>2. /\ a.start \in Nat /\ b.start \in Nat /\ a.length \in Nat \ {0}
            /\ b.length \in Nat \ {0} /\ a.start <= b.start /\ b.start < a.start + a.length
        BY <1>8, <2>1, <2>2, <2>3, <2>4, <3>1
      <3> QED
        BY <3>1, <3>2, DisjointIs
    <2> QED
      BY <2>3, <2>5
  <1>11. ASSUME ~Overlap(kept), NEW i \in 1 .. n, NEW k \in 1 .. n, i < k
         PROVE  Disjoint(kept[order[i]], kept[order[k]])
    <2>1. PICK j \in 1 .. n : j = i + 1
      BY <1>11
    <2>2. i \in 1 .. n - 1
      BY <1>11
    <2>3. kept[order[i]].start + kept[order[i]].length <= kept[order[j]].start
      BY <1>5, <1>8, <1>11, <2>1, <2>2
    <2>4. kept[order[j]].start <= kept[order[k]].start
      <3>1. j = k \/ j < k
        BY <1>11, <2>1
      <3> QED
        BY <1>8, <1>9, <3>1
    <2>5. PICK a, b, c : a = kept[order[i]] /\ b = kept[order[k]] /\ c = kept[order[j]].start
      OBVIOUS
    <2>6. /\ a.start \in Nat /\ b.start \in Nat /\ a.length \in Nat \ {0} /\ c \in Nat
          /\ b.length \in Nat \ {0}
      BY <1>8, <2>5
    <2>7. a.start + a.length <= c /\ c <= b.start
      BY <2>3, <2>4, <2>5
    <2>8. Disjoint(a, b)
      BY <2>6, <2>7 DEF Disjoint
    <2> QED
      BY <2>5, <2>8
  <1>12. ASSUME ~Overlap(kept), NEW a \in 1 .. n, NEW b \in 1 .. n, a # b
         PROVE  Disjoint(kept[a], kept[b])
    <2>1. PICK i \in 1 .. n : order[i] = a
      BY <1>7
    <2>2. PICK k \in 1 .. n : order[k] = b
      BY <1>7
    <2>3. i < k \/ k < i
      BY <1>12, <2>1, <2>2
    <2>4. CASE i < k
      BY <1>11, <1>12, <2>1, <2>2, <2>4
    <2>5. CASE k < i
      <3>1. Disjoint(kept[b], kept[a])
        BY <1>11, <1>12, <2>1, <2>2, <2>5
      <3> QED
        BY <3>1 DEF Disjoint
    <2> QED
      BY <2>3, <2>4, <2>5
  <1> QED
    BY <1>1, <1>10, <1>12

(***************************************************************************)
(* The rows of a boot record, one by one.                                  *)
(***************************************************************************)

IsKept(image, i) == RowFate(image, image.rows[i]) = "kept"
WithRow(image, rows, i) == IF IsKept(image, i) THEN Append(rows, i) ELSE rows

LEMMA RowsAreTriedInOrder ==
  ASSUME NEW image
  PROVE  \E rows : /\ rows[0] = <<>> /\ KeptRows(image) = rows[4]
                   /\ \A k \in 1 .. 4 : rows[k] = WithRow(image, rows[k - 1], k)
  <1> DEFINE row == <<1, 2, 3, 4>>
             A == Seq(1 .. 4)
             step == [pair \in A \X (1 .. 4) |-> WithRow(image, pair[1], row[pair[2]])]
             fold == CHOOSE f : f = [s \in SUBSET (1 .. 4) |->
                        IF s = {} THEN <<>>
                        ELSE WithRow(image, f[s \ {Highest(s)}], row[Highest(s)])]
  <1>1. KeptRows(image) = fold[1 .. 4]
    <2>1. DOMAIN row = 1 .. 4
      OBVIOUS
    <2> QED
      BY <2>1 DEF KeptRows, WithRow, IsKept, FoldLeft, MapThenFoldSet, Max, Highest
  <1>2. \A i \in 1 .. 4 : row[i] = i
    OBVIOUS
  <1> HIDE DEF row
  <1>3. step \in [A \X (1 .. 4) -> A]
    <2>1. ASSUME NEW pair \in A \X (1 .. 4) PROVE WithRow(image, pair[1], row[pair[2]]) \in A
      <3>1. pair[1] \in A /\ row[pair[2]] \in 1 .. 4
        BY <1>2
      <3> QED
        BY <3>1 DEF WithRow
    <2> HIDE DEF A
    <2> QED
      BY <2>1
  <1>4. <<>> \in A
    OBVIOUS
  <1>5. PICK some : Folds(A, <<>>, step, 4, some)
    <2> HIDE DEF A, step
    <2> QED
      BY <1>3, <1>4, FoldExists
  <1>6. some = [s \in SUBSET (1 .. 4) |->
                  IF s = {} THEN <<>>
                  ELSE WithRow(image, some[s \ {Highest(s)}], row[Highest(s)])]
    <2> HIDE DEF A
    <2>1. ASSUME NEW s \in SUBSET (1 .. 4), s # {}
          PROVE  some[s] = WithRow(image, some[s \ {Highest(s)}], row[Highest(s)])
      <3>1. Highest(s) \in s
        BY <2>1, HighestIsOne
      <3>2. some[s] = step[<<some[s \ {Highest(s)}], Highest(s)>>]
        BY <1>5, <2>1 DEF Folds, FoldAt
      <3>3. some[s \ {Highest(s)}] \in A /\ Highest(s) \in 1 .. 4
        <4> HIDE DEF step
        <4> QED
          BY <1>5, <3>1 DEF Folds
      <3> QED
        BY <3>2, <3>3
    <2> HIDE DEF step
    <2>2. some[{}] = <<>>
      BY <1>5 DEF Folds, FoldAt
    <2> QED
      BY <1>5, <2>1, <2>2 DEF Folds
  <1>7. fold = [s \in SUBSET (1 .. 4) |->
                  IF s = {} THEN <<>>
                  ELSE WithRow(image, fold[s \ {Highest(s)}], row[Highest(s)])]
    BY <1>6
  <1> HIDE DEF fold
  <1> DEFINE rows == [k \in 0 .. 4 |-> fold[1 .. k]]
  <1>8. rows[0] = <<>>
    <2>1. 1 .. 0 = {} /\ {} \in SUBSET (1 .. 4)
      OBVIOUS
    <2> QED
      BY <1>7, <2>1
  <1>9. ASSUME NEW k \in 1 .. 4 PROVE rows[k] = WithRow(image, rows[k - 1], k)
    <2>1. /\ 1 .. k \in SUBSET (1 .. 4) /\ 1 .. k # {} /\ Highest(1 .. k) = k
          /\ (1 .. k) \ {k} = 1 .. (k - 1)
      BY UpTo
    <2>2. fold[1 .. k] = WithRow(image, fold[1 .. (k - 1)], row[k])
      BY <1>7, <2>1
    <2> QED
      BY <1>2, <2>2
  <1>10. rows[4] = fold[1 .. 4]
    OBVIOUS
  <1> HIDE DEF rows
  <1> QED
    BY <1>1, <1>8, <1>9, <1>10

\* What is kept of the first k rows.
Sifted(image, rows, k) ==
    /\ rows \in Seq(1 .. 4) /\ Len(rows) <= k
    /\ \A i \in 1 .. Len(rows) : IsKept(image, rows[i])
    /\ \A j \in 1 .. k : IsKept(image, j) => \E i \in 1 .. Len(rows) : rows[i] = j

LEMMA SiftedOneMore ==
  ASSUME NEW image, NEW k \in 0 .. 3, NEW rows, Sifted(image, rows, k),
         NEW more, more = WithRow(image, rows, k + 1)
  PROVE  Sifted(image, more, k + 1)
  <1>1. PICK n \in Nat : n = Len(rows)
    BY DEF Sifted
  <1>2. CASE ~IsKept(image, k + 1)
    <2>1. more = rows
      BY <1>2 DEF WithRow
    <2>2. \A j \in 1 .. k + 1 : IsKept(image, j) => j \in 1 .. k
      BY <1>2
    <2> QED
      BY <2>1, <2>2 DEF Sifted
  <1>3. CASE IsKept(image, k + 1)
    <2>1. PICK new \in 1 .. 4 : new = k + 1
      OBVIOUS
    <2>2. /\ more \in Seq(1 .. 4) /\ Len(more) = n + 1 /\ more[n + 1] = new
          /\ \A i \in 1 .. n : more[i] = rows[i]
      BY <1>1, <1>3, <2>1 DEF WithRow, Sifted
    <2>3. ASSUME NEW i \in 1 .. n + 1 PROVE IsKept(image, more[i])
      <3>1. i \in 1 .. n \/ i = n + 1
        OBVIOUS
      <3> QED
        BY <1>1, <1>3, <2>1, <2>2, <3>1 DEF Sifted
    <2>4. ASSUME NEW j \in 1 .. k + 1, IsKept(image, j)
          PROVE  \E i \in 1 .. n + 1 : more[i] = j
      <3>1. CASE j \in 1 .. k
        <4>1. PICK i \in 1 .. n : rows[i] = j
          BY <1>1, <2>4, <3>1 DEF Sifted
        <4> QED
          BY <2>2, <4>1
      <3>2. CASE j = k + 1
        BY <2>1, <2>2, <3>2
      <3> QED
        BY <3>1, <3>2
    <2>5. n <= k
      BY <1>1 DEF Sifted
    <2> QED
      BY <2>2, <2>3, <2>4, <2>5 DEF Sifted
  <1> QED
    BY <1>2, <1>3

LEMMA KeptRowsIs ==
  ASSUME NEW image
  PROVE  Sifted(image, KeptRows(image), 4)
  <1>1. PICK rows : /\ rows[0] = <<>> /\ KeptRows(image) = rows[4]
                    /\ \A k \in 1 .. 4 : rows[k] = WithRow(image, rows[k - 1], k)
    BY RowsAreTriedInOrder
  <1>2. Sifted(image, rows[0], 0)
    BY <1>1 DEF Sifted
  <1>3. ASSUME NEW k \in 0 .. 3, Sifted(image, rows[k], k) PROVE Sifted(image, rows[k + 1], k + 1)
    <2>1. rows[k + 1] = WithRow(image, rows[k], k + 1)
      BY <1>1
    <2> QED
      BY <1>3, <2>1, SiftedOneMore
  <1>4. Sifted(image, rows[1], 1)
    BY <1>2, <1>3
  <1>5. Sifted(image, rows[2], 2)
    BY <1>3, <1>4
  <1>6. Sifted(image, rows[3], 3)
    BY <1>3, <1>5
  <1>7. Sifted(image, rows[4], 4)
    BY <1>3, <1>6
  <1> QED
    BY <1>1, <1>7

(***************************************************************************)
(* The table of an image.                                                  *)
(***************************************************************************)

\* A table: what is kept lies in the image, within the limit.
Bounded(image, kept, limit) == kept \in Seq(Parts) /\ Len(kept) <= limit /\ Fits(image, kept)

LEMMA RdbTable ==
  ASSUME NEW limit \in Nat \ {0}, NEW image, Listed(image)
  PROVE  /\ ParseTable(image, limit) = Table("RDB", ListWalk(image, limit).kept, ListWalk(image, limit).errors)
         /\ Bounded(image, ListWalk(image, limit).kept, limit) /\ "overlap" \notin ListWalk(image, limit).errors
  <1>1. ParseRdb(image, limit) = Table("RDB", ListWalk(image, limit).kept, ListWalk(image, limit).errors)
    <2>1. image.rdb.blockSize # 0
      BY DEF Listed
    <2> QED
      BY <2>1 DEF ParseRdb, Listed
  <1>2. ParseRdb(image, limit).outcome = "table"
    BY <1>1 DEF Table
  <1>3. ParseTable(image, limit) = ParseRdb(image, limit)
    BY <1>2 DEF ParseTable
  <1>4. ListWalk(image, limit) \in Walks(image) /\ Len(ListWalk(image, limit).kept) <= limit
        /\ Fits(image, ListWalk(image, limit).kept)
    BY WalkEnds
  <1>5. "overlap" \notin WalkFaults
    BY DEF WalkFaults
  <1> QED
    BY <1>1, <1>3, <1>4, <1>5 DEF Bounded, Walks

\* A boot record's table, if it has one.
BootTable(image, kept, errors, limit) ==
    /\ ParseTable(image, limit) = Table("MBR", kept, errors)
    /\ Bounded(image, kept, limit) /\ "overlap" \notin errors
    /\ errors = {} => \A i \in 1 .. 4 : ~Blank(image.rows[i]) =>
                         \E k \in DOMAIN kept : kept[k].index = i - 1

LEMMA MbrTable ==
  ASSUME NEW limit \in Nat \ {0},
         NEW image, IsImage(image), NEW kept, NEW errors, NEW good, good = KeptRows(image),
         kept = [k \in 1 .. Least(Len(good), limit) |->
                    [index |-> good[k] - 1, start |-> image.rows[good[k]].lba,
                     length |-> image.rows[good[k]].count]],
         errors = ({RowFate(image, image.rows[i]) : i \in 1 .. 4} \ {"blank", "kept"})
                     \cup (IF Len(good) > limit THEN {"count"} ELSE {}),
         ParseTable(image, limit) = Table("MBR", kept, errors)
  PROVE  BootTable(image, kept, errors, limit)
  <1>1. good \in Seq(1 .. 4) /\ (\A i \in 1 .. Len(good) : IsKept(image, good[i]))
        /\ \A j \in 1 .. 4 : IsKept(image, j) => \E i \in 1 .. Len(good) : good[i] = j
    BY KeptRowsIs DEF Sifted
  <1>2. PICK n \in Nat, most \in Nat : n = Len(good) /\ most = Least(n, limit)
    BY <1>1 DEF Least
  <1>3. most <= n /\ most <= limit /\ (n <= limit => most = n)
    BY <1>2 DEF Least
  <1>4. ASSUME NEW i \in 1 .. 4, IsKept(image, i)
        PROVE  /\ image.rows[i].lba \in Nat /\ image.rows[i].count \in Nat \ {0}
               /\ Inside(image.size, image.rows[i].lba, image.rows[i].count)
    <2>1. image.rows[i] \in RecordRows
      BY DEF IsImage
    <2>2. /\ image.rows[i].count # 0
          /\ Inside(image.size, image.rows[i].lba, image.rows[i].count)
      BY <1>4 DEF IsKept, RowFate
    <2> QED
      BY <2>1, <2>2 DEF RecordRows
  <1> DEFINE Part(k) == [index |-> good[k] - 1, start |-> image.rows[good[k]].lba,
                         length |-> image.rows[good[k]].count]
  <1>5. kept = [k \in 1 .. most |-> Part(k)]
    BY <1>2
  <1>6. ASSUME NEW k \in 1 .. most
        PROVE  /\ Part(k) \in Parts /\ Part(k).length > 0 /\ Part(k).index = good[k] - 1
               /\ Inside(image.size, Part(k).start, Part(k).length)
    <2>1. PICK i \in 1 .. 4 : i = good[k] /\ IsKept(image, i)
      BY <1>1, <1>2, <1>3
    <2>2. /\ image.rows[i].lba \in Nat /\ image.rows[i].count \in Nat \ {0}
          /\ Inside(image.size, image.rows[i].lba, image.rows[i].count)
      BY <1>4, <2>1
    <2>3. i - 1 \in Nat
      OBVIOUS
    <2> QED
      BY <2>1, <2>2, <2>3 DEF Parts
  <1> HIDE DEF Part
  <1>7. kept \in Seq(Parts) /\ Len(kept) = most /\ DOMAIN kept = 1 .. most
        /\ \A k \in 1 .. most : kept[k] = Part(k)
    <2>1. \A k \in 1 .. most : kept[k] = Part(k)
      BY ONLY <1>5
    <2>2. \A k \in 1 .. most : kept[k] \in Parts
      BY <1>6, <2>1
    <2>3. kept \in [1 .. most -> Parts]
      <3>1. DOMAIN kept = 1 .. most /\ kept = [k \in 1 .. most |-> kept[k]]
        BY ONLY <1>5
      <3> QED
        BY ONLY <2>2, <3>1
    <2>4. kept \in Seq(Parts) /\ Len(kept) = most /\ DOMAIN kept = 1 .. most
      BY ONLY <2>3, most \in Nat
    <2> QED
      BY <2>1, <2>4
  <1>8. Bounded(image, kept, limit)
    <2>1. \A k \in DOMAIN kept : kept[k].length > 0
                                   /\ Inside(image.size, kept[k].start, kept[k].length)
      <3>1. ASSUME NEW k \in 1 .. most
            PROVE  kept[k].length > 0 /\ Inside(image.size, kept[k].start, kept[k].length)
        <4>1. PICK part : part = kept[k] /\ part = Part(k)
          BY <1>7
        <4>2. part.length > 0 /\ Inside(image.size, part.start, part.length)
          BY <1>6, <4>1
        <4> QED
          BY ONLY <4>1, <4>2
      <3> QED
        BY ONLY <1>7, <3>1
    <2>2. kept \in Seq(Parts) /\ Len(kept) <= limit
      BY <1>3, <1>7
    <2> QED
      BY ONLY <2>1, <2>2 DEF Bounded, Fits
  <1>9. "overlap" \notin errors
    <2>1. \A row : RowFate(image, row) # "overlap"
      BY DEF RowFate
    <2> QED
      BY <2>1
  <1>10. ASSUME errors = {}, NEW i \in 1 .. 4, ~Blank(image.rows[i])
         PROVE  \E k \in DOMAIN kept : kept[k].index = i - 1
    <2>1. ~(Len(good) > limit)
      BY <1>10
    <2>2. most = n
      BY <1>2, <1>3, <2>1
    <2>3. RowFate(image, image.rows[i]) \in {"blank", "kept"}
      BY <1>10
    <2>4. IsKept(image, i)
      BY <1>10, <2>3 DEF IsKept, RowFate
    <2>5. PICK k \in 1 .. n : good[k] = i
      BY <1>1, <1>2, <2>4
    <2> QED
      BY <1>6, <1>7, <2>2, <2>5
  <1> QED
    BY <1>8, <1>9, <1>10 DEF BootTable

LEMMA OtherTable ==
  ASSUME NEW limit \in Nat \ {0}, NEW image, IsImage(image), ~Listed(image)
  PROVE  \/ ParseTable(image, limit) = Absent /\ ~image.rdb.found
         \/ \E why \in {"checksum", "block size", "signature"} : ParseTable(image, limit) = Refused(why)
         \/ ~image.rdb.found /\ \E kept, errors : BootTable(image, kept, errors, limit)
  <1>1. CASE image.rdb.found
    <2>1. image.rdb.blockSize \in Nat
      BY DEF IsImage, Headers
    <2>2. ~image.rdb.sumOk \/ image.rdb.blockSize = 0
      BY <1>1, <2>1 DEF Listed
    <2>3. ParseRdb(image, limit) = Refused("checksum") \/ ParseRdb(image, limit) = Refused("block size")
      BY <1>1, <2>2 DEF ParseRdb
    <2>4. ParseRdb(image, limit).outcome = "refused"
      BY <2>3 DEF Refused, Absent
    <2>5. ParseTable(image, limit) = ParseRdb(image, limit)
      BY <2>4 DEF ParseTable
    <2> QED
      BY <2>3, <2>5
  <1>2. CASE ~image.rdb.found
    <2>1. ParseRdb(image, limit).outcome = "none"
      BY <1>2 DEF ParseRdb, Absent
    <2>2. ParseTable(image, limit) = ParseMbr(image, limit)
      BY <2>1 DEF ParseTable
    <2> DEFINE good == KeptRows(image)
               kept == [k \in 1 .. Least(Len(good), limit) |->
                           [index |-> good[k] - 1, start |-> image.rows[good[k]].lba,
                            length |-> image.rows[good[k]].count]]
               errors == ({RowFate(image, image.rows[i]) : i \in 1 .. 4} \ {"blank", "kept"})
                            \cup (IF Len(good) > limit THEN {"count"} ELSE {})
    <2>3. ParseMbr(image, limit) \in {Absent, Refused("signature"), Table("MBR", kept, errors)}
      BY DEF ParseMbr
    <2>4. ParseTable(image, limit) = Table("MBR", kept, errors) => BootTable(image, kept, errors, limit)
      BY MbrTable
    <2> HIDE DEF kept, errors
    <2> QED
      BY <1>2, <2>2, <2>3, <2>4
  <1> QED
    BY <1>1, <1>2

LEMMA TableHas ==
  ASSUME NEW limit \in Nat \ {0},
         NEW image, NEW kept, Bounded(image, kept, limit),
         NEW errors, "overlap" \notin errors, NEW scheme,
         NEW table, table = Table(scheme, kept, errors)
  PROVE  /\ table.outcome = "table" /\ table.scheme = scheme /\ table.kept = kept
         /\ "overlap" \in table.errors
               <=> \E i, k \in DOMAIN kept : i # k /\ ~Disjoint(kept[i], kept[k])
         /\ table.errors = {} <=> errors = {} /\ ~Overlap(kept)
  <1>1. Overlap(kept) <=> \E i, k \in DOMAIN kept : i # k /\ ~Disjoint(kept[i], kept[k])
    BY OverlapIs DEF Bounded, Fits
  <1>2. PICK overlap \in BOOLEAN : overlap <=> Overlap(kept)
    BY DEF Overlap
  <1>3. /\ table.outcome = "table" /\ table.scheme = scheme /\ table.kept = kept
        /\ table.errors = errors \cup (IF overlap THEN {"overlap"} ELSE {})
    BY <1>2 DEF Table
  <1> QED
    BY <1>1, <1>2, <1>3

\* A sound list as the walk's lemmas say it.
LEMMA SoundListIs ==
  ASSUME NEW limit \in Nat \ {0}, NEW image, Listed(image)
  PROVE  SoundList(image, limit) <=>
            \E list : /\ Chained(image, list, EndOfList) /\ Len(list) <= limit
                      /\ \A i, k \in 1 .. Len(list) : i # k =>
                            Disjoint(Piece(image, image.blocks[list[i]]),
                                     Piece(image, image.blocks[list[k]]))
  <1> DEFINE Apart(list) == \A i, k \in 1 .. Len(list) : i # k =>
                               Disjoint(Piece(image, image.blocks[list[i]]),
                                        Piece(image, image.blocks[list[k]]))
             Leads(list) ==
                /\ image.rdb.pointer = LinkOf(list, EndOfList, 1)
                /\ \A i \in DOMAIN list :
                      /\ SoundBlock(image, list[i])
                      /\ image.blocks[list[i]].next = LinkOf(list, EndOfList, i + 1)
             Different(list) == \A i, k \in 1 .. Len(list) : i # k => list[i] # list[k]
  <1>1. SoundList(image, limit) <=>
            \E set \in SUBSET DOMAIN image.blocks : \E list \in SetToSeqs(set) :
               /\ Cardinality(set) <= limit /\ Leads(list)
               /\ \A i, k \in DOMAIN list : i # k =>
                     Disjoint(Piece(image, image.blocks[list[i]]),
                              Piece(image, image.blocks[list[k]]))
    BY ZenonT(30) DEF SoundList, LinkOf, SoundBlock, Readable, Placed
  <1>2. IsFiniteSet(DOMAIN image.blocks)
    BY DEF Listed, IsImage
  <1>3. ASSUME NEW set \in SUBSET DOMAIN image.blocks, NEW list \in SetToSeqs(set)
        PROVE  /\ list \in Seq(DOMAIN image.blocks) /\ DOMAIN list = 1 .. Len(list)
               /\ Len(list) = Cardinality(set) /\ Different(list)
    <2>1. PICK n \in Nat : n = Cardinality(set)
      <3>1. IsFiniteSet(set)
        BY <1>2, FS_Subset
      <3>2. Cardinality(set) \in Nat
        BY <3>1, FS_CardinalityType
      <3> QED
        BY <3>2
    <2>2. list \in [1 .. n -> set] /\ \A i, k \in 1 .. n : i # k => list[i] # list[k]
      BY <2>1 DEF SetToSeqs
    <2>3. list \in [1 .. n -> DOMAIN image.blocks]
      BY <2>2
    <2>4. list \in Seq(DOMAIN image.blocks) /\ Len(list) = n /\ DOMAIN list = 1 .. n
      BY ONLY <2>3, n \in Nat
    <2> QED
      BY <2>1, <2>2, <2>4
  <1>4. ASSUME NEW list \in Seq(DOMAIN image.blocks), Different(list), Len(list) <= limit
        PROVE  \E set \in SUBSET DOMAIN image.blocks :
                  list \in SetToSeqs(set) /\ Cardinality(set) <= limit
    <2>1. PICK n \in Nat : n = Len(list) /\ DOMAIN list = 1 .. n
      OBVIOUS
    <2> DEFINE set == {list[i] : i \in 1 .. n}
    <2>2. set \in SUBSET DOMAIN image.blocks /\ \A i \in 1 .. n : list[i] \in set
      BY <2>1
    <2>3. Cardinality(set) = n
      <3>1. list \in [1 .. n -> set]
        <4>1. list = [i \in 1 .. n |-> list[i]]
          BY <2>1
        <4> HIDE DEF set
        <4> QED
          BY <2>2, <4>1
      <3>2. list \in Bijection(1 .. n, set)
        <4>1. \A x \in set : \E i \in 1 .. n : list[i] = x
          OBVIOUS
        <4> HIDE DEF set
        <4> QED
          BY <1>4, <2>1, <3>1, <4>1 DEF Bijection, Injection, IsInjective, Surjection
      <3>3. ExistsBijection(1 .. n, set)
        BY <3>2 DEF ExistsBijection
      <3>4. IsFiniteSet(1 .. n) /\ Cardinality(1 .. n) = n
        BY FS_Interval
      <3> HIDE DEF set
      <3> QED
        BY <3>3, <3>4, FS_Bijection
    <2> HIDE DEF set
    <2>4. list \in SetToSeqs(set)
      <3>1. list = [i \in 1 .. n |-> list[i]]
        BY <2>1
      <3>2. list \in [1 .. n -> set]
        BY <2>2, <3>1
      <3> QED
        BY <1>4, <2>1, <2>3, <3>2 DEF SetToSeqs
    <2> QED
      BY <1>4, <2>1, <2>2, <2>3, <2>4
  <1>5. ASSUME NEW list
        PROVE  Chained(image, list, EndOfList)
                  <=> list \in Seq(DOMAIN image.blocks) /\ Different(list) /\ Leads(list)
    BY DEF Chained
  <1> HIDE DEF Leads, Different
  <1>6. ASSUME SoundList(image, limit)
        PROVE  \E list : Chained(image, list, EndOfList) /\ Len(list) <= limit /\ Apart(list)
    <2>1. PICK set \in SUBSET DOMAIN image.blocks : \E list \in SetToSeqs(set) :
               /\ Cardinality(set) <= limit /\ Leads(list)
               /\ \A i, k \in DOMAIN list : i # k =>
                     Disjoint(Piece(image, image.blocks[list[i]]),
                              Piece(image, image.blocks[list[k]]))
      BY <1>1, <1>6
    <2>2. PICK list \in SetToSeqs(set) :
               /\ Cardinality(set) <= limit /\ Leads(list)
               /\ \A i, k \in DOMAIN list : i # k =>
                     Disjoint(Piece(image, image.blocks[list[i]]),
                              Piece(image, image.blocks[list[k]]))
      BY <2>1
    <2> QED
      BY <1>3, <1>5, <2>2
  <1>7. ASSUME NEW list, Chained(image, list, EndOfList), Len(list) <= limit, Apart(list)
        PROVE  SoundList(image, limit)
    <2>1. list \in Seq(DOMAIN image.blocks) /\ Different(list) /\ Leads(list)
      BY <1>5, <1>7
    <2>2. PICK set \in SUBSET DOMAIN image.blocks :
             list \in SetToSeqs(set) /\ Cardinality(set) <= limit
      BY <1>4, <1>7, <2>1
    <2>3. DOMAIN list = 1 .. Len(list)
      BY <2>1
    <2> QED
      BY <1>1, <1>7, <2>1, <2>2, <2>3
  <1> QED
    BY <1>6, <1>7

LEMMA ErrorFreeIsSound ==
  ASSUME NEW limit \in Nat \ {0}, NEW image, Listed(image)
  PROVE  ListWalk(image, limit).errors = {} /\ ~Overlap(ListWalk(image, limit).kept) <=> SoundList(image, limit)
  <1>1. PICK walk \in Walks(image) : walk = ListWalk(image, limit) /\ Bounded(image, walk.kept, limit)
    BY WalkEnds, RdbTable
  <1>2. Overlap(walk.kept)
           <=> \E i, k \in DOMAIN walk.kept : i # k /\ ~Disjoint(walk.kept[i], walk.kept[k])
    BY <1>1, OverlapIs DEF Bounded, Fits
  <1>3. ASSUME NEW list, NEW n \in Nat, n = Len(list), Len(walk.kept) = n,
               \A i \in 1 .. n : walk.kept[i] = PartOf(image, list, i)
        PROVE  Overlap(walk.kept)
                  <=> \E i, k \in 1 .. n : i # k /\ ~Disjoint(Piece(image, image.blocks[list[i]]),
                                                              Piece(image, image.blocks[list[k]]))
    <2>1. DOMAIN walk.kept = 1 .. n
      BY <1>3 DEF Walks
    <2>2. \A i, k \in 1 .. n : Disjoint(walk.kept[i], walk.kept[k])
                                  <=> Disjoint(Piece(image, image.blocks[list[i]]),
                                               Piece(image, image.blocks[list[k]]))
      <3>1. \A i \in 1 .. n : /\ walk.kept[i].start = Piece(image, image.blocks[list[i]]).start
                              /\ walk.kept[i].length = Piece(image, image.blocks[list[i]]).length
        <4>1. \A i : /\ PartOf(image, list, i).start = Piece(image, image.blocks[list[i]]).start
                     /\ PartOf(image, list, i).length = Piece(image, image.blocks[list[i]]).length
          BY ONLY DEF PartOf
        <4> QED
          BY <1>3, <4>1
      <3>2. ASSUME NEW a, NEW b, NEW c, NEW d, a.start = c.start, a.length = c.length,
                   b.start = d.start, b.length = d.length
            PROVE  Disjoint(a, b) <=> Disjoint(c, d)
        BY ONLY <3>2 DEF Disjoint
      <3> QED
        BY <3>1, <3>2
    <2> QED
      BY <1>2, <2>1, <2>2
  <1>4. ASSUME walk.errors = {}, ~Overlap(walk.kept) PROVE SoundList(image, limit)
    <2>1. PICK list : Chained(image, list, EndOfList) /\ Takes(image, list, walk)
      BY <1>1, <1>4, ErrorFreeWalkIsAList
    <2>2. PICK n \in Nat : n = Len(list)
      BY <2>1 DEF Chained
    <2>3. Len(walk.kept) = n /\ \A i \in 1 .. n : walk.kept[i] = PartOf(image, list, i)
      BY <2>1, <2>2 DEF Takes
    <2>4. n <= limit
      BY <1>1, <2>3 DEF Bounded
    <2> QED
      BY <1>3, <1>4, <2>1, <2>2, <2>3, <2>4, SoundListIs
  <1>5. ASSUME SoundList(image, limit) PROVE walk.errors = {} /\ ~Overlap(walk.kept)
    <2>1. PICK list : /\ Chained(image, list, EndOfList) /\ Len(list) <= limit
                      /\ \A i, k \in 1 .. Len(list) : i # k =>
                            Disjoint(Piece(image, image.blocks[list[i]]),
                                     Piece(image, image.blocks[list[k]]))
      BY <1>5, SoundListIs
    <2>2. PICK n \in Nat : n = Len(list)
      BY <2>1 DEF Chained
    <2>3. Along(image, list, walk, n)
      BY <1>1, <2>1, <2>2, ListIsTaken
    <2> QED
      BY <1>3, <2>1, <2>2, <2>3 DEF Along
  <1> QED
    BY <1>1, <1>4, <1>5

\* What the validator makes of a table (structural.py:485-507).
LEMMA ValidMeansNoError ==
  ASSUME NEW image, NEW table, table = ParseTable(image, ValidatorPartitions)
  PROVE  ValidateRdb(image).state = "VALID" <=> table.outcome # "none" /\ table.errors = {}
  <1>1. ValidateRdb(image).state = "VALID"
           <=> (IF table.outcome = "none" THEN {"RDB_IDENTIFIER_INVALID"}
                ELSE {RdbFinding(error) : error \in table.errors}) = {}
    BY DEF ValidateRdb
  <1>2. {RdbFinding(error) : error \in table.errors} = {} <=> table.errors = {}
    OBVIOUS
  <1> QED
    BY <1>1, <1>2

\* Whatever the limit, a rigid disk block is read without an error exactly if its header is right and
\* its list is sound within that limit.
LEMMA ErrorFreeTableIsSound ==
  ASSUME NEW limit \in Nat \ {0}, NEW image, IsImage(image), image.rdb.found,
         NEW table, table = ParseTable(image, limit)
  PROVE  /\ table.outcome # "none"
         /\ table.errors = {}
               <=> image.rdb.sumOk /\ image.rdb.blockSize > 0 /\ SoundList(image, limit)
  <1>1. CASE Listed(image)
    <2>1. PICK kept, errors :
             kept = ListWalk(image, limit).kept /\ errors = ListWalk(image, limit).errors
      OBVIOUS
    <2>2. /\ table = Table("RDB", kept, errors) /\ Bounded(image, kept, limit)
          /\ "overlap" \notin errors
      BY <1>1, <2>1, RdbTable
    <2>3. table.outcome = "table" /\ (table.errors = {} <=> errors = {} /\ ~Overlap(kept))
      BY <2>2, TableHas
    <2>4. table.errors = {} <=> SoundList(image, limit)
      BY <1>1, <2>1, <2>3, ErrorFreeIsSound
    <2> QED
      BY <1>1, <2>3, <2>4 DEF Listed
  <1>2. CASE ~Listed(image)
    <2>1. ~(image.rdb.sumOk /\ image.rdb.blockSize > 0)
      BY <1>2 DEF Listed
    <2>2. PICK why \in {"checksum", "block size", "signature"} : table = Refused(why)
      BY <1>2, OtherTable
    <2>3. table.outcome = "refused" /\ table.errors = {why}
      BY <2>2 DEF Refused, Absent
    <2> QED
      BY <2>1, <2>3
  <1> QED
    BY <1>1, <1>2

\* A list within the walk's limit is within the validator's.
LEMMA SoundForBoth ==
  ASSUME NEW image, Listed(image), SoundList(image, MaxPartitions)
  PROVE  SoundList(image, ValidatorPartitions)
  <1> USE PartitionAssumption
  <1>1. PICK list : /\ Chained(image, list, EndOfList) /\ Len(list) <= MaxPartitions
                    /\ \A i, k \in 1 .. Len(list) : i # k =>
                          Disjoint(Piece(image, image.blocks[list[i]]),
                                   Piece(image, image.blocks[list[k]]))
    BY SoundListIs
  <1>2. Len(list) \in Nat
    BY <1>1 DEF Chained
  <1>3. Len(list) <= ValidatorPartitions
    BY <1>1, <1>2
  <1> QED
    BY <1>1, <1>3, SoundListIs

\* Every image's table is true to it: the walk's errors say exactly whether the list of a rigid disk
\* block is sound within the walk's limit, and the validator's verdict whether it is within the
\* validator's; an overlap of any two parts shows, and what is kept lies in the image, within the
\* limit (partitions.py:112-155, 193-265, structural.py:485-507).
THEOREM EveryTableIsTrue ==
  ASSUME NEW image, IsImage(image)
  PROVE  TableIsTrue(image)
  <1> USE PartitionAssumption
  <1>1. PICK table : table = ParseTable(image, MaxPartitions)
    OBVIOUS
  <1>2. ASSUME image.rdb.found
        PROVE  /\ ValidateRdb(image).state = "VALID"
                     <=> /\ image.rdb.sumOk /\ image.rdb.blockSize > 0
                         /\ SoundList(image, ValidatorPartitions)
               /\ table.errors = {} => ValidateRdb(image).state = "VALID"
    <2>1. PICK seen : seen = ParseTable(image, ValidatorPartitions)
      OBVIOUS
    <2>2. ValidateRdb(image).state = "VALID" <=> seen.outcome # "none" /\ seen.errors = {}
      BY <2>1, ValidMeansNoError
    <2>3. /\ seen.outcome # "none"
          /\ seen.errors = {} <=> /\ image.rdb.sumOk /\ image.rdb.blockSize > 0
                                  /\ SoundList(image, ValidatorPartitions)
      BY <1>2, <2>1, ErrorFreeTableIsSound
    <2>4. table.errors = {} <=> /\ image.rdb.sumOk /\ image.rdb.blockSize > 0
                                /\ SoundList(image, MaxPartitions)
      BY <1>1, <1>2, ErrorFreeTableIsSound
    <2>5. ASSUME table.errors = {} PROVE SoundList(image, ValidatorPartitions)
      BY <1>2, <2>4, <2>5, SoundForBoth DEF Listed
    <2> QED
      BY <2>2, <2>3, <2>4, <2>5
  <1>3. CASE Listed(image)
    <2>1. PICK kept, errors :
             kept = ListWalk(image, MaxPartitions).kept /\ errors = ListWalk(image, MaxPartitions).errors
      OBVIOUS
    <2>2. /\ table = Table("RDB", kept, errors) /\ Bounded(image, kept, MaxPartitions)
          /\ "overlap" \notin errors
      BY <1>1, <1>3, <2>1, RdbTable
    <2>3. /\ table.outcome = "table" /\ table.scheme = "RDB" /\ table.kept = kept
          /\ "overlap" \in table.errors
                <=> \E i, k \in DOMAIN kept : i # k /\ ~Disjoint(kept[i], kept[k])
          /\ table.errors = {} <=> errors = {} /\ ~Overlap(kept)
      BY <2>2, TableHas
    <2>4. table.errors = {} <=> SoundList(image, MaxPartitions)
      BY <1>3, <2>1, <2>3, ErrorFreeIsSound
    <2> QED
      BY <1>1, <1>2, <2>2, <2>3, <2>4 DEF TableIsTrue, Bounded, Fits
  <1>4. CASE ~Listed(image)
    <2>0. Len(<<>>) <= MaxPartitions /\ DOMAIN <<>> = {}
      OBVIOUS
    <2>1. ~(image.rdb.found /\ image.rdb.sumOk /\ image.rdb.blockSize > 0)
      BY <1>4 DEF Listed
    <2>2. CASE table = Absent /\ ~image.rdb.found
      <3>1. /\ table.outcome = "none" /\ table.scheme = "none" /\ table.kept = <<>>
            /\ table.errors = {}
        BY <2>2 DEF Absent
      <3>2. Len(table.kept) <= MaxPartitions /\ DOMAIN table.kept = {}
        BY <2>0, <3>1
      <3> QED
        BY <1>1, <2>2, <3>1, <3>2 DEF TableIsTrue
    <2>3. CASE \E why \in {"checksum", "block size", "signature"} : table = Refused(why)
      <3>1. PICK why \in {"checksum", "block size", "signature"} : table = Refused(why)
        BY <2>3
      <3>2. /\ table.outcome = "refused" /\ table.scheme = "none" /\ table.kept = <<>>
            /\ table.errors = {why}
        BY <3>1 DEF Refused, Absent
      <3>3. Len(table.kept) <= MaxPartitions /\ DOMAIN table.kept = {}
        BY <2>0, <3>2
      <3>4. "overlap" \notin table.errors /\ table.errors # {}
        BY <3>2
      <3> QED
        BY <1>1, <1>2, <2>1, <3>2, <3>3, <3>4 DEF TableIsTrue
    <2>4. CASE ~image.rdb.found /\ \E kept, errors : BootTable(image, kept, errors, MaxPartitions)
      <3>1. PICK kept, errors : BootTable(image, kept, errors, MaxPartitions)
        BY <2>4
      <3>2. /\ table = Table("MBR", kept, errors) /\ Bounded(image, kept, MaxPartitions)
            /\ "overlap" \notin errors
        BY <1>1, <3>1 DEF BootTable
      <3>3. /\ table.kept = kept
            /\ "overlap" \in table.errors
                  <=> \E i, k \in DOMAIN kept : i # k /\ ~Disjoint(kept[i], kept[k])
            /\ table.errors = {} <=> errors = {} /\ ~Overlap(kept)
        BY <3>2, TableHas
      <3> QED
        BY <1>1, <2>4, <3>1, <3>2, <3>3 DEF TableIsTrue, BootTable, Bounded, Fits
    <2> QED
      BY <1>1, <1>4, <2>2, <2>3, <2>4, OtherTable
  <1> QED
    BY <1>3, <1>4

\* The hash of every partition that is handed on covers its bytes, each once and in order, and no
\* seek or read of its view leaves it (partitions.py:15-59, 275-292).
THEOREM EveryHashCovers ==
  ASSUME NEW image, IsImage(image)
  PROVE  HashCoversPartition(image)
  <1> USE PartitionAssumption
  <1>1. PICK table : table = ParseTable(image, MaxPartitions)
    OBVIOUS
  <1>2. table.kept \in Seq(Parts) /\ Fits(image, table.kept)
    <2>1. <<>> \in Seq(Parts) /\ Fits(image, <<>>)
      BY DEF Fits
    <2>2. CASE Listed(image)
      BY <1>1, <2>2, RdbTable, TableHas DEF Bounded
    <2>3. CASE ~Listed(image)
      <3>1. table = Absent => table.kept = <<>>
        BY DEF Absent
      <3>2. \A why : table = Refused(why) => table.kept = <<>>
        BY DEF Absent, Refused
      <3>3. ASSUME NEW kept, NEW errors, BootTable(image, kept, errors, MaxPartitions)
            PROVE  table.kept = kept
        BY <1>1, <3>3, TableHas DEF BootTable
      <3>4. \/ table = Absent
            \/ \E why \in {"checksum", "block size", "signature"} : table = Refused(why)
            \/ \E kept, errors : BootTable(image, kept, errors, MaxPartitions)
        BY <1>1, <2>3, OtherTable
      <3>5. CASE \E kept, errors : BootTable(image, kept, errors, MaxPartitions)
        BY <3>3, <3>5 DEF BootTable, Bounded
      <3> QED
        BY <2>1, <3>1, <3>2, <3>4, <3>5
    <2> QED
      BY <2>2, <2>3
  <1> SUFFICES ASSUME NEW i \in DOMAIN table.kept, NEW part, part = table.kept[i]
               PROVE  /\ Opens(image.size, part.start, part.length)
                      /\ HashRange(part.start, part.length)
                            = [k \in 1 .. part.length |-> part.start + k - 1]
                      /\ \A position \in 0 .. part.length, offset \in -2 .. 2, whence \in 0 .. 2 :
                            LET target == Seek(part.length, position, offset, whence)
                            IN  Allowed(part.length, target) =>
                                  target + ReadSize(part.length, target, offset)
                                     \in target .. part.length
    BY <1>1 DEF HashCoversPartition
  <1>3. part.start \in Nat /\ part.length \in Nat
    <2>1. part \in Parts
      BY <1>2
    <2> QED
      BY ONLY <2>1 DEF Parts
  <1>4. Opens(image.size, part.start, part.length)
    BY <1>2, <1>3 DEF Fits, Opens
  <1>5. HashRange(part.start, part.length) = [k \in 1 .. part.length |-> part.start + k - 1]
    BY <1>3, HashRangeIs DEF Covers
  <1>6. ASSUME NEW position \in 0 .. part.length, NEW offset \in -2 .. 2, NEW whence \in 0 .. 2,
               NEW target, target = Seek(part.length, position, offset, whence),
               Allowed(part.length, target)
        PROVE  target + ReadSize(part.length, target, offset) \in target .. part.length
    <2>1. target \in Int
      BY <1>3, <1>6 DEF Seek
    <2>2. target \in 0 .. part.length
      BY <1>3, <1>6, <2>1 DEF Allowed
    <2>3. ReadSize(part.length, target, offset) \in 0 .. part.length - target
      <3>1. PICK length \in Nat : length = part.length
        BY <1>3
      <3>2. target \in 0 .. length /\ offset \in Int
        BY <2>2, <3>1
      <3>3. ReadSize(length, target, offset) \in 0 .. length - target
        BY ONLY <3>2, length \in Nat, ReadSizeIs
      <3> QED
        BY <3>1, <3>3
    <2> QED
      BY <1>3, <2>2, <2>3
  <1> QED
    BY <1>4, <1>5, <1>6
=============================================================================
