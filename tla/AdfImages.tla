------------------------------ MODULE AdfImages ------------------------------
(***************************************************************************)
(* The two readers of an Amiga floppy image: the parser that hands its     *)
(* files on, _parse_adf of src/avbox/analyzers/disk_images.py, and the     *)
(* validator, _adf and _walk_adf of src/avbox/analyzers/structural.py.     *)
(*                                                                         *)
(* An image of 901120 bytes is its blocks.  A block is read as what        *)
(* something points to it as, so it has everything at once:                *)
(*   header     whether it is a header block with a right checksum         *)
(*   kind       "root", "folder", "file" or something else                 *)
(*   words      its table: of a directory the hash buckets, of a file the  *)
(*              data blocks, last first; 0 is none                         *)
(*   next       the next entry in its bucket                               *)
(*   size       of a file, in the units its data blocks count              *)
(*   named      whether its name is a safe one                             *)
(*   data       whether it is a data block with a right checksum, and then *)
(*   of, count  the header it says it is of and how much it holds          *)
(***************************************************************************)
EXTENDS Integers, Sequences, FiniteSets, SequencesExt

CONSTANTS
    Root,           \* block 880
    FirstBlock,     \* block 2: the boot block is never pointed to
    LastBlock,      \* block 1759
    FullBlock,      \* what a data block can hold at most
    MaxEntries      \* the validator's max_nodes

ASSUME AdfAssumption ==
    /\ Root \in Nat /\ FirstBlock \in Nat /\ LastBlock \in Nat /\ FullBlock \in Nat \ {0}
    /\ FirstBlock <= Root /\ Root <= LastBlock /\ MaxEntries \in Nat \ {0}

Reached(key) == FirstBlock <= key /\ key <= LastBlock

\* The data block at key, of the file whose header is at owner; what it adds to the file.
DataBlock(image, key, owner) ==
    image.ofs => /\ image.blocks[key].data
                 /\ image.blocks[key].of = owner
                 /\ image.blocks[key].count <= FullBlock
Holds(image, key) == IF image.ofs THEN image.blocks[key].count ELSE FullBlock

Pointers(block) == SelectSeq(Reverse(block.words), LAMBDA key : key # 0)

(***************************************************************************)
(* The parser.  read is every block it has read, in order.                 *)
(***************************************************************************)
Breaks(run, why) == [run EXCEPT !.error = why]
Reads(run, key) == [run EXCEPT !.read = Append(@, key)]

\* file_data(): list is what was read of this file, total how much that is.
RECURSIVE FileData(_, _, _, _, _)
FileData(image, owner, pointers, total, run) ==
    LET size == image.blocks[owner].size
        key == Head(pointers)
        now == total + Holds(image, key)
    IN  IF pointers = <<>>
        THEN IF total = size THEN [run EXCEPT !.files = Append(@, owner)] ELSE Breaks(run, "truncated")
        ELSE IF key \in run.list THEN Breaks(run, "cyclic file")
        ELSE IF ~Reached(key) THEN Breaks(run, "outside")
        ELSE IF ~DataBlock(image, key, owner) THEN Breaks(run, "data block")
        ELSE IF now >= size
        THEN [Reads(run, key) EXCEPT !.files = Append(@, owner)]
        ELSE FileData(image, owner, Tail(pointers), now,
                      [Reads(run, key) EXCEPT !.list = @ \cup {key}])

\* walk_directory(): the entries of one bucket, then the next bucket.
RECURSIVE ParseBucket(_, _, _), ParseWords(_, _, _)
ParseBucket(image, key, run) ==
    LET block == image.blocks[key]
        here == [Reads(run, key) EXCEPT !.visited = @ \cup {key}]
        read == IF block.kind = "folder" THEN ParseWords(image, block.words, here)
                ELSE FileData(image, key, Pointers(block), 0, [here EXCEPT !.list = {}])
    IN  IF run.error # "none" \/ key = 0 THEN run
        ELSE IF key \in run.visited THEN Breaks(run, "cyclic directory")
        ELSE IF ~Reached(key) THEN Breaks(run, "outside")
        ELSE IF ~block.header THEN Breaks(run, "header")
        ELSE IF ~block.named THEN Breaks(run, "name")
        ELSE IF block.kind \notin {"folder", "file"} THEN Breaks(run, "kind")
        ELSE ParseBucket(image, block.next, read)
ParseWords(image, words, run) ==
    FoldLeft(LAMBDA acc, key : ParseBucket(image, key, acc), run, words)

ParseAdf(image) ==
    LET root == image.blocks[Root]
        run == ParseWords(image, root.words,
                  [error |-> "none", read |-> <<Root>>, visited |-> {Root}, list |-> {}, files |-> <<>>])
        done == IF run.error = "none" /\ ~image.labelled THEN Breaks(run, "name") ELSE run
    IN  IF ~image.standard \/ root.kind # "root"
        THEN [outcome |-> "none", run |-> done]
        ELSE IF ~root.header THEN [outcome |-> "refused", run |-> Breaks(done, "root")]
        ELSE [outcome |-> IF done.error = "none" THEN "image" ELSE "refused", run |-> done]

(***************************************************************************)
(* The validator.  Whatever it has seen, entry or data, must not be met    *)
(* again; it does not mind names, and passes over entries of other kinds.  *)
(***************************************************************************)
\* total >= wanted is looked at after each block, total < wanted at the end; now is the new total.
RECURSIVE WalkData(_, _, _, _, _)
WalkData(image, owner, pointers, total, walk) ==
    LET wanted == image.blocks[owner].size
        key == Head(pointers)
        now == total + Holds(image, key)
        seen == [walk EXCEPT !.seen = @ \cup {key}]
    IN  IF pointers = <<>> THEN IF total < wanted THEN Breaks(walk, "truncated") ELSE walk
        ELSE IF key \in walk.seen THEN Breaks(walk, "cyclic file")
        ELSE IF ~Reached(key) THEN Breaks(walk, "outside")
        ELSE IF ~DataBlock(image, key, owner) THEN Breaks(walk, "data block")
        ELSE IF now >= wanted THEN seen ELSE WalkData(image, owner, Tail(pointers), now, seen)

BugMet(walk, key) == FALSE
Met(walk, key) == key \in walk.seen
RECURSIVE WalkBucket(_, _, _), WalkWords(_, _, _)
WalkBucket(image, key, walk) ==
    LET block == image.blocks[key]
        here == [walk EXCEPT !.seen = @ \cup {key}, !.nodes = @ + 1]
        read == CASE block.kind = "folder" -> WalkWords(image, block.words, here)
                  [] block.kind = "file" -> WalkData(image, key, Pointers(block), 0, here)
                  [] OTHER -> here
    IN  IF walk.error # "none" \/ key = 0 THEN walk
        ELSE IF walk.nodes + 1 > MaxEntries THEN Breaks(walk, "limit")
        ELSE IF Met(walk, key) THEN Breaks(walk, "cyclic directory")
        ELSE IF ~Reached(key) THEN Breaks(walk, "outside")
        ELSE IF ~block.header THEN Breaks(walk, "header")
        ELSE WalkBucket(image, block.next, read)
WalkWords(image, words, walk) ==
    FoldLeft(LAMBDA acc, key : WalkBucket(image, key, acc), walk, words)
WalkAdf(image) ==
    WalkWords(image, image.blocks[Root].words, [error |-> "none", seen |-> {Root}, nodes |-> 0])

\* _adf(): boot block, root block and bitmap are judged whatever the walk says.
WalkFinding(error) ==
    CASE error = "none" -> {}
      [] error \in {"cyclic file", "cyclic directory"} -> {"ADF_CHAIN_LOOP"}
      [] error = "outside" -> {"ADF_BLOCK_REFERENCE_OUT_OF_RANGE"}
      [] error = "truncated" -> {"ADF_DATA_CHAIN_TRUNCATED"}
      [] OTHER -> {"ADF_BLOCK_STRUCTURE_INVALID"}
ValidateAdf(image) ==
    LET root == image.blocks[Root]
        bootFinding == IF image.bootOk THEN {} ELSE {"BOOTBLOCK_CHECKSUM_MISMATCH"}
        findings ==
            bootFinding
            \cup (IF root.header /\ root.kind = "root" THEN {} ELSE {"ROOTBLOCK_CHECKSUM_MISMATCH"})
            \cup {IF key > LastBlock THEN "ADF_BLOCK_REFERENCE_OUT_OF_RANGE"
                  ELSE "ADF_BITMAP_CHECKSUM_MISMATCH" : key \in image.badBitmaps}
            \cup WalkFinding(WalkAdf(image).error)
    IN  IF ~image.standard THEN [state |-> "NON_STANDARD", findings |-> bootFinding]
        ELSE [state |-> IF findings = {} THEN "VALID" ELSE "DAMAGED", findings |-> findings]

\* "keep parser and validator behavior aligned" (structural.py:189).  An image the validator calls
\* VALID the parser reads to the end, unless a name or a kind of entry is one it refuses to hand
\* on; and of an image the parser has read the validator's walk is content exactly if no block was
\* read as two things and the entries are within its node limit.  This is of an image that is not
\* also taken for FAT, which parse_disk_image() tries first
\* (disk_images.py:28-34, 204-302, structural.py:145-269).
AdfReadersAgree(image) ==
    LET parsed == ParseAdf(image)
        walk == WalkAdf(image)
        entries == parsed.run.visited \ {Root}
    IN  /\ ValidateAdf(image).state = "VALID" =>
              \/ parsed.outcome = "image"
              \/ parsed.outcome = "refused" /\ parsed.run.error \in {"name", "kind"}
        /\ parsed.outcome = "image" =>
              (walk.error = "none" <=>
                  IsInjective(parsed.run.read) /\ Cardinality(entries) <= MaxEntries)
=============================================================================
