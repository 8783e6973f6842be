--------------------------- MODULE PartitionTables ---------------------------
(***************************************************************************)
(* The partition tables of src/avbox/analyzers/partitions.py: the master   *)
(* boot record, Amiga's rigid disk block with its linked list of partition *)
(* blocks, the bounded reader, the hash of a partition's bytes, and what   *)
(* the structural validator says of a rigid disk block.                    *)
(*                                                                         *)
(* Sizes and places are in sectors of 512 bytes.  An image is              *)
(*   size       its length                                                 *)
(*   rdb        whether one of its first 16 sectors begins with RDSK, and  *)
(*              then that block's checksum, block size (0: not a power of  *)
(*              two between 512 and 65536) and first pointer               *)
(*   blocks     what a block read at a pointer holds: whether it is a PART *)
(*              block with a right checksum, the next pointer, its blocks  *)
(*              per cylinder and its first and last cylinder               *)
(*   rows       the four rows of the boot record                           *)
(*   signed     whether the boot record ends with 55 AA                    *)
(***************************************************************************)
EXTENDS Integers, Sequences, FiniteSets, SequencesExt

CONSTANTS
    MaxPartitions,          \* max_partitions_per_disk, the limit of the container walk
    ValidatorPartitions,    \* the limit the structural validator sets itself: 256
    ChunkSize               \* of a chunk of the bounded reader

\* The settings allow the walk no more than the validator's 256 (settings.py:59).
ASSUME PartitionAssumption ==
    /\ MaxPartitions \in Nat \ {0} /\ ValidatorPartitions \in Nat \ {0} /\ ChunkSize \in Nat \ {0}
    /\ MaxPartitions <= ValidatorPartitions

EndOfList == -1     \* 0xFFFFFFFF
BlockPointers == Nat \cup {EndOfList}
Headers == [found : BOOLEAN, sumOk : BOOLEAN, blockSize : Nat, pointer : BlockPointers]
Blocks == [valid : BOOLEAN, next : BlockPointers, cylinder : Nat, low : Nat, high : Nat]
RecordRows == [boot : Nat, type : Nat, lba : Nat, count : Nat]

Extended == {5, 15, 133}
BootFlags == {0, 128}

Least(a, b) == IF a < b THEN a ELSE b

\* A result is a table, nothing recognized, or a PartitionTableError.
Absent == [outcome |-> "none", scheme |-> "none", kept |-> <<>>, errors |-> {}]
Refused(why) == [Absent EXCEPT !.outcome = "refused", !.errors = {why}]

Inside(size, start, length) == start <= size /\ length <= size - start

\* An image: every block that one of its pointers leads to can be read, if it lies in the image.
PointersOf(image) ==
    {image.rdb.pointer} \cup {image.blocks[pointer].next : pointer \in DOMAIN image.blocks}
IsImage(image) ==
    /\ image.size \in Nat /\ image.rdb \in Headers /\ image.signed \in BOOLEAN
    /\ image.rows \in [1 .. 4 -> RecordRows]
    /\ image.blocks \in [DOMAIN image.blocks -> Blocks]
    /\ IsFiniteSet(DOMAIN image.blocks) /\ DOMAIN image.blocks \subseteq Nat
    /\ image.rdb.found /\ image.rdb.blockSize > 0 =>
          \A pointer \in PointersOf(image) \ {EndOfList} :
             Inside(image.size, pointer * image.rdb.blockSize, image.rdb.blockSize)
                => pointer \in DOMAIN image.blocks

\* _mark_overlaps(): only neighbours in the order of their starts are compared.
InOrder(left, right) ==
    left.start < right.start \/ (left.start = right.start /\ left.length < right.length)
BugOverlap(kept) == \E i \in 1 .. Len(kept) - 1 : kept[i + 1].start < kept[i].start + kept[i].length
Sorts(order, kept) ==
    \A i, k \in DOMAIN kept : i < k => ~InOrder(kept[order[k]], kept[order[i]])
Overlap(kept) ==
    LET order == CHOOSE order \in SetToSeqs(DOMAIN kept) : Sorts(order, kept)
        Nth(i) == kept[order[i]]
    IN  \E i \in 1 .. Len(kept) - 1 : Nth(i + 1).start < Nth(i).start + Nth(i).length

Table(scheme, kept, errors) ==
    [outcome |-> "table", scheme |-> scheme, kept |-> kept,
     errors |-> errors \cup (IF Overlap(kept) THEN {"overlap"} ELSE {})]

\* _parse_mbr(): what becomes of a row, tested in this order.
Blank(row) == row.type = 0 /\ row.lba = 0 /\ row.count = 0
Plausible(row) == row.boot \in BootFlags /\ row.type # 0 /\ row.count # 0
RowFate(image, row) ==
    IF Blank(row) THEN "blank"
    ELSE IF row.boot \notin BootFlags THEN "boot flag"
    ELSE IF row.type \in Extended THEN "deferred"
    ELSE IF row.count = 0 \/ row.lba < 1 \/ ~Inside(image.size, row.lba, row.count) THEN "outside"
    ELSE "kept"

KeptRows(image) ==
    LET AddKept(rows, i) ==
            IF RowFate(image, image.rows[i]) = "kept" THEN Append(rows, i) ELSE rows
    IN  FoldLeft(AddKept, <<>>, <<1, 2, 3, 4>>)

ParseMbr(image, limit) ==
    LET good == KeptRows(image)
        kept == [k \in 1 .. Least(Len(good), limit) |->
                    [index |-> good[k] - 1, start |-> image.rows[good[k]].lba,
                     length |-> image.rows[good[k]].count]]
        refusals == {RowFate(image, image.rows[i]) : i \in 1 .. 4} \ {"blank", "kept"}
    IN  IF image.size < 1 \/ ~\E i \in 1 .. 4 : Plausible(image.rows[i]) THEN Absent
        ELSE IF ~image.signed THEN Refused("signature")
        ELSE Table("MBR", kept,
                   refusals \cup (IF Len(good) > limit THEN {"count"} ELSE {}))

\* _parse_rdb(): the list of partition blocks, each pointer followed once.
Fails(walk, why) == [walk EXCEPT !.errors = @ \cup {why}]
BreaksOff(walk, why) == [Fails(walk, why) EXCEPT !.pointer = EndOfList]

Piece(image, block) ==
    LET cylinder == block.cylinder * image.rdb.blockSize
    IN  [start |-> block.low * cylinder, length |-> (block.high - block.low + 1) * cylinder]
Geometry(image, block, walk) ==
    LET piece == Piece(image, block)
    IN  IF block.cylinder = 0 \/ block.high < block.low THEN Fails(walk, "geometry")
        ELSE IF ~Inside(image.size, piece.start, piece.length) THEN Fails(walk, "outside")
        ELSE [walk EXCEPT !.kept =
                Append(@, [index |-> Len(walk.kept), start |-> piece.start,
                           length |-> piece.length])]

\* One turn of the loop.  A turn that does not break it sees a new pointer, so there are no more
\* than the limit of those and one that breaks.
Follow(image, walk, limit) ==
    LET pointer == walk.pointer
        block == image.blocks[pointer]
    IN  IF pointer = EndOfList THEN walk
        ELSE IF pointer \in walk.seen THEN BreaksOff(walk, "cycle")
        ELSE IF Cardinality(walk.seen) >= limit THEN BreaksOff(walk, "count")
        ELSE IF ~Inside(image.size, pointer * image.rdb.blockSize, image.rdb.blockSize)
        THEN BreaksOff(walk, "pointer outside")
        ELSE IF ~block.valid THEN BreaksOff(walk, "part block")
        ELSE [Geometry(image, block, walk) EXCEPT !.pointer = block.next, !.seen = @ \cup {pointer}]
ListWalk(image, limit) ==
    LET walk[turn \in 0 .. limit + 1] ==
            IF turn = 0
            THEN [pointer |-> image.rdb.pointer, seen |-> {}, kept |-> <<>>, errors |-> {}]
            ELSE Follow(image, walk[turn - 1], limit)
    IN  walk[limit + 1]

ParseRdb(image, limit) ==
    LET walk == ListWalk(image, limit)
    IN  IF ~image.rdb.found THEN Absent
        ELSE IF ~image.rdb.sumOk THEN Refused("checksum")
        ELSE IF image.rdb.blockSize = 0 THEN Refused("block size")
        ELSE Table("RDB", walk.kept, walk.errors)

\* parse_partition_table(): a damaged rigid disk block hides a sound boot record.
ParseTable(image, limit) ==
    IF ParseRdb(image, limit).outcome # "none" THEN ParseRdb(image, limit)
    ELSE ParseMbr(image, limit)

\* BoundedRangeReader: a view is refused unless it lies in the file; seek() and read() stay in it;
\* chunks() reads it from its first byte to its last.
Opens(size, start, length) == start >= 0 /\ length >= 0 /\ Inside(size, start, length)
Seek(length, position, offset, whence) ==
    CASE whence = 0 -> offset [] whence = 1 -> position + offset [] whence = 2 -> length + offset
Allowed(length, target) == target >= 0 /\ target <= length
BugReadSize(length, position, want) == IF want < 0 THEN length - position ELSE want
ReadSize(length, position, want) ==
    IF want < 0 THEN length - position ELSE Least(want, length - position)
Chunk(start, length, position) ==
    [k \in 1 .. ReadSize(length, position, Least(ChunkSize, length - position)) |->
        start + position + k - 1]

\* hash_range(): the sectors that are hashed, in order.  No chunk is empty before the end.
HashRange(start, length) ==
    LET hashed[chunks \in 0 .. length] ==
            IF chunks = 0 THEN <<>>
            ELSE LET before == hashed[chunks - 1]
                 IN  before \o Chunk(start, length, Len(before))
    IN  hashed[length]

\* StructuralValidator._rdb() and _rdb_finding(): the validator reads the table with a limit of its
\* own, and never gets here without an RDSK block.
RdbFinding(error) ==
    CASE error = "cycle" -> "RDB_POINTER_CYCLE"
      [] error = "overlap" -> "RDB_PARTITION_OVERLAP"
      [] error \in {"outside", "pointer outside"} -> "RDB_POINTER_OR_PARTITION_OUT_OF_RANGE"
      [] error = "part block" -> "RDB_PART_CHECKSUM_OR_STRUCTURE_INVALID"
      [] error = "geometry" -> "RDB_PARTITION_GEOMETRY_INVALID"
      [] error = "checksum" -> "RDB_CHECKSUM_MISMATCH"
      [] error = "block size" -> "RDB_STRUCTURE_INVALID"
      [] OTHER -> "RDB_STRUCTURE_WARNING"
ValidateRdb(image) ==
    LET table == ParseTable(image, ValidatorPartitions)
        findings == IF table.outcome = "none" THEN {"RDB_IDENTIFIER_INVALID"}
                    ELSE {RdbFinding(error) : error \in table.errors}
    IN  [findings |-> findings, state |-> IF findings = {} THEN "VALID" ELSE "DAMAGED"]

\* A sound list, said without a walk: its blocks in some order are all different and no more than
\* the limit, lead from the header to the end mark, and name pieces of the image that do not meet.
Disjoint(a, b) == a.start + a.length <= b.start \/ b.start + b.length <= a.start
SoundList(image, limit) ==
    \E set \in SUBSET DOMAIN image.blocks : \E list \in SetToSeqs(set) :
        LET Link(i) == IF i > Len(list) THEN EndOfList ELSE list[i]
            Block(i) == image.blocks[list[i]]
        IN  /\ Cardinality(set) <= limit
            /\ image.rdb.pointer = Link(1)
            /\ \A i \in DOMAIN list :
                  /\ Inside(image.size, list[i] * image.rdb.blockSize, image.rdb.blockSize)
                  /\ Block(i).valid /\ Block(i).next = Link(i + 1)
                  /\ Block(i).cylinder > 0 /\ Block(i).low <= Block(i).high
                  /\ Inside(image.size, Piece(image, Block(i)).start, Piece(image, Block(i)).length)
            /\ \A i, k \in DOMAIN list :
                  i # k => Disjoint(Piece(image, Block(i)), Piece(image, Block(k)))

\* A table is taken as it is or called damaged: the walk finds no error in a rigid disk block exactly
\* if its list of partitions is sound - a cycle, a pointer or a partition outside the image, an
\* overlap of any two and too many partitions all show - and the validator calls it VALID exactly if
\* the list is sound within the validator's own limit.  So what the walk takes without an error is
\* VALID, and a sound list longer than the walk's limit is VALID too, though the walk takes a part of
\* it with an error.  A boot record without an error keeps every row that is not blank; what is kept
\* of a damaged table lies inside the image and within the limit (partitions.py:112-155, 193-265,
\* containers.py:300, structural.py:485-507).
TableIsTrue(image) ==
    LET table == ParseTable(image, MaxPartitions)
        kept == table.kept
    IN  /\ Len(kept) <= MaxPartitions
        /\ \A i \in DOMAIN kept :
              kept[i].length > 0 /\ Inside(image.size, kept[i].start, kept[i].length)
        /\ "overlap" \in table.errors
              <=> \E i, k \in DOMAIN kept : i # k /\ ~Disjoint(kept[i], kept[k])
        /\ image.rdb.found /\ image.rdb.sumOk /\ image.rdb.blockSize > 0 =>
              (table.errors = {} <=> SoundList(image, MaxPartitions))
        /\ image.rdb.found =>
              /\ ValidateRdb(image).state = "VALID"
                    <=> /\ image.rdb.sumOk /\ image.rdb.blockSize > 0
                        /\ SoundList(image, ValidatorPartitions)
              /\ table.outcome = "table" /\ table.errors = {} => ValidateRdb(image).state = "VALID"
        /\ table.scheme = "MBR" /\ table.errors = {} =>
              \A i \in 1 .. 4 : ~Blank(image.rows[i]) => \E k \in DOMAIN kept : kept[k].index = i - 1

\* What the bounded view of a partition gives its readers, and hash_range() hashes, is the partition's
\* bytes, each once and in order, whatever the chunk size, and no seek or read of the view leaves it
\* (partitions.py:15-59, 275-292).  The view is what a partition is copied from; the hash recorded
\* for the copy is hash_file()'s, and only tests call hash_range().
HashCoversPartition(image) ==
    \A i \in DOMAIN ParseTable(image, MaxPartitions).kept :
        LET part == ParseTable(image, MaxPartitions).kept[i]
        IN  /\ Opens(image.size, part.start, part.length)
            /\ HashRange(part.start, part.length)
                  = [k \in 1 .. part.length |-> part.start + k - 1]
            /\ \A position \in 0 .. part.length, offset \in -2 .. 2, whence \in 0 .. 2 :
                  LET target == Seek(part.length, position, offset, whence)
                  IN  Allowed(part.length, target) =>
                        target + ReadSize(part.length, target, offset) \in target .. part.length
=============================================================================
