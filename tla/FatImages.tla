------------------------------ MODULE FatImages ------------------------------
(***************************************************************************)
(* The two readers of a FAT file system: the parser that hands its files   *)
(* on, _parse_fat of src/avbox/analyzers/disk_images.py, and the validator *)
(* that judges it, _fat of src/avbox/analyzers/structural.py.              *)
(*                                                                         *)
(* An image is                                                             *)
(*   bpb        whether its parameter block is consistent                  *)
(*   copies     whether the copies of the allocation table agree           *)
(*   fat32      its variant; rootCluster is then where its root begins,    *)
(*              and fixedRoot whether it names a fixed root as well        *)
(*   clusters   their number; they are 2 .. clusters + 1                   *)
(*   fat        the table, over the clusters the file has room for: the    *)
(*              next cluster, 0 (free), Bad, a number out of range, or End *)
(*   root       the rows of the fixed root directory                       *)
(*   rows       for a cluster, the rows it holds if read as a directory    *)
(* Sizes of files are in clusters.  A row is a file, a directory or the    *)
(* end mark, and one reader may pass over what the other reads: both pass  *)
(* over a deleted row, a label and a long name's part, the parser a row    *)
(* whose long name is empty or dots, the validator one whose short name is.*)
(***************************************************************************)
EXTENDS Integers, Sequences, FiniteSets, SequencesExt, TLC

CONSTANT MaxNodes       \* of the validator, 100 000

ASSUME FatAssumption == MaxNodes \in Nat \ {0}

Bad == 1            \* also what the validator reads beyond a table that is too short
End == 1000
Clusters(image) == 2 .. image.clusters + 1

Readers == {"parser", "validator"}
File(name, start, size) ==
    [kind |-> "file", name |-> name, start |-> start, size |-> size, readers |-> Readers]
Folder(name, start) == [File(name, start, 0) EXCEPT !.kind = "folder"]
EndMark == [File("none", 0, 0) EXCEPT !.kind = "end"]
OnlyFor(readers, row) == [row EXCEPT !.readers = readers]
Passed == OnlyFor({}, File("none", 0, 0))

\* The rows before the end mark, and those of them that a reader takes for files or directories.
Before(rows) ==
    LET ends == {i \in DOMAIN rows : rows[i].kind = "end"}
    IN  IF ends = {} THEN rows ELSE SubSeq(rows, 1, Min(ends) - 1)
Live(rows, reader) == SelectSeq(Before(rows), LAMBDA row : reader \in row.readers)

RowsOf(image, list) == FlattenSeq([i \in DOMAIN list |-> image.rows[list[i]]])

(***************************************************************************)
(* The parser: the first fault ends it.                                    *)
(***************************************************************************)
Unlimited == -1
Broken == [ok |-> FALSE, list |-> <<>>]
Got(list) == [ok |-> TRUE, list |-> list]

\* next_cluster(), cluster_data() and the loop of chain(): a start beyond the last cluster is read
\* if the file has bytes there.
RECURSIVE ReadOn(_, _, _, _)
ReadOn(image, current, wanted, list) ==
    IF current \in Range(list) \/ Len(list) > image.clusters THEN Broken
    ELSE IF current \notin DOMAIN image.fat THEN Broken
    ELSE LET read == Append(list, current)
             value == image.fat[current]
         IN  IF wanted # Unlimited /\ Len(read) >= wanted THEN Got(read)
             ELSE IF value = End
             THEN IF wanted # Unlimited /\ Len(read) < wanted THEN Broken ELSE Got(read)
             ELSE IF value \notin Clusters(image) THEN Broken
             ELSE ReadOn(image, value, wanted, read)
BugReadChain(image, start, wanted) == ReadOn(image, start, wanted, <<>>)
ReadChain(image, start, wanted) ==
    IF start < 2 THEN IF wanted > 0 THEN Broken ELSE Got(<<>>)
    ELSE ReadOn(image, start, wanted, <<>>)

\* walk(): a directory that was visited is passed over in silence.
Stopped(run) == [run EXCEPT !.ok = FALSE]
RECURSIVE WalkRows(_, _, _, _)
WalkRow(image, row, prefix, run) ==
    LET chain == ReadChain(image, row.start, IF row.kind = "file" THEN row.size ELSE Unlimited)
        path == Append(prefix, row.name)
    IN  IF ~run.ok THEN run
        ELSE IF row.kind = "folder"
        THEN IF row.start \in run.visited THEN run
             ELSE IF ~chain.ok THEN Stopped(run)
             ELSE WalkRows(image, RowsOf(image, chain.list), path,
                           [run EXCEPT !.visited = @ \cup {row.start}])
        ELSE IF ~chain.ok THEN Stopped(run)
        ELSE [run EXCEPT !.entries =
                Append(@, [path |-> path, data |-> SubSeq(chain.list, 1, row.size)])]
WalkRows(image, rows, prefix, run) ==
    FoldLeft(LAMBDA acc, row : WalkRow(image, row, prefix, acc), run,
             Live(rows, "parser"))

RootRefused(image) == image.fat32 /\ (image.fixedRoot \/ image.rootCluster < 2)
ParseFat(image) ==
    LET root == IF image.fat32 THEN ReadChain(image, image.rootCluster, Unlimited) ELSE Got(<<>>)
        rows == IF image.fat32 THEN RowsOf(image, root.list) ELSE image.root
        run == WalkRows(image, rows, <<>>, [ok |-> root.ok, entries |-> <<>>, visited |-> {}])
    IN  IF ~image.bpb \/ RootRefused(image)
        THEN [outcome |-> "none", entries |-> <<>>]
        ELSE [outcome |-> IF run.ok THEN "image" ELSE "refused", entries |-> run.entries]

(***************************************************************************)
(* The validator: it notes a finding and goes on.                          *)
(***************************************************************************)
Found(state, finding) == [state EXCEPT !.findings = @ \cup {finding}]

\* _fat_chain(): every cluster belongs to the first path that reached it.
BugOwned(state, current, owner) == FALSE
Owned(state, current, owner) == current \in DOMAIN state.used /\ state.used[current] # owner
RECURSIVE ChainOn(_, _, _, _)
ChainOn(image, current, owner, state) ==
    IF current < 2 THEN state
    ELSE IF current \in Range(state.list) THEN Found(state, "CHAIN_LOOP")
    ELSE IF current \notin Clusters(image) THEN Found(state, "OUT_OF_RANGE")
    ELSE IF Owned(state, current, owner) THEN Found(state, "CROSSLINK")
    ELSE LET taken == [state EXCEPT !.list = Append(@, current), !.used = (current :> owner) @@ @]
             value == image.fat[current]
         IN  IF value = End THEN taken
             ELSE IF value \notin Clusters(image) THEN Found(taken, "REFERENCE_INVALID")
             ELSE IF Len(taken.list) > MaxNodes THEN Found(taken, "CHAIN_LIMIT")
             ELSE ChainOn(image, value, owner, taken)
FatChain(image, start, owner, wanted, state) ==
    LET done == ChainOn(image, start, owner, [state EXCEPT !.list = <<>>])
    IN  IF Len(done.list) < wanted THEN Found(done, "TRUNCATED") ELSE done

\* _fat_directory(): the rows beyond MaxNodes are not looked at.
RECURSIVE FatDirectory(_, _, _, _)
FatRow(image, row, prefix, state) ==
    LET path == Append(prefix, row.name)
        read == FatChain(image, row.start, path, row.size, state)
    IN  IF row.kind = "file" THEN read
        ELSE IF row.start \in state.dirs THEN Found(state, "DIRECTORY_LOOP")
        ELSE FatDirectory(image, RowsOf(image, read.list), path,
                          [read EXCEPT !.dirs = @ \cup {row.start}])
FatDirectory(image, rows, prefix, state) ==
    FoldLeft(LAMBDA acc, row : FatRow(image, row, prefix, acc), state,
             Live(SubSeq(rows, 1, Min({Len(rows), MaxNodes})), "validator"))

\* _fat(): clusters in use that no path reaches are orphans; on FAT32 the second is never one.
ValidateFat(image) ==
    LET start == [findings |-> IF image.copies THEN {} ELSE {"COPIES"},
                  used |-> <<>>, dirs |-> {}, list |-> <<>>]
        root == IF image.fat32 THEN FatChain(image, image.rootCluster, <<"root">>, 0, start)
                ELSE start
        rows == IF image.fat32 THEN RowsOf(image, root.list) ELSE image.root
        done == FatDirectory(image, rows, <<>>, root)
        allocated == {c \in Clusters(image) : image.fat[c] # 0}
        orphans == allocated \ (DOMAIN done.used \cup (IF image.fat32 THEN {2} ELSE {}))
        findings == done.findings \cup (IF orphans = {} THEN {} ELSE {"ORPHANS"})
    IN  IF ~image.bpb THEN [state |-> "CORRUPT", findings |-> {"BPB"}]
        ELSE [state |-> IF findings = {} THEN "VALID" ELSE "DAMAGED", findings |-> findings]

(***************************************************************************)
(* A sound file system, said as a graph: what a directory holds and what   *)
(* a chain is, without walks, budgets or marks.                            *)
(***************************************************************************)
\* The chain of a row is the clusters reached from its start; it ends well if they are all
\* clusters and the end is among what they lead to.
Step(image, set) == set \cup {image.fat[c] : c \in set \cap Clusters(image)}
RECURSIVE Closure(_, _)
Closure(image, set) ==
    IF Step(image, set) = set THEN set ELSE Closure(image, Step(image, set))
Chain(image, start) == IF start < 2 THEN {} ELSE Closure(image, {start}) \ {End}
EndsWell(image, start) ==
    /\ Chain(image, start) \subseteq Clusters(image)
    /\ start >= 2 => \E c \in Chain(image, start) : image.fat[c] = End

\* The order of a chain that ends well, to read a directory in: those with more to come are first.
InChainOrder(image, start) ==
    SetToSortSeq(Chain(image, start),
                 LAMBDA c, d : Cardinality(Chain(image, c)) > Cardinality(Chain(image, d)))

\* The rows of the directories that a reader reaches, each with its path and its place: the root's
\* and, of every directory among them whose chain ends well, its own.
RootRows(image) ==
    IF ~image.fat32 THEN image.root
    ELSE IF EndsWell(image, image.rootCluster)
         THEN RowsOf(image, InChainOrder(image, image.rootCluster)) ELSE <<>>
Under(path, place, rows, reader) ==
    {[path |-> Append(path, rows[i].name), place |-> Append(place, i), row |-> rows[i]] :
        i \in {k \in DOMAIN Before(rows) : reader \in rows[k].readers}}
Below(image, placed, reader) ==
    IF placed.row.kind # "folder" \/ ~EndsWell(image, placed.row.start) THEN {}
    ELSE Under(placed.path, placed.place,
               RowsOf(image, InChainOrder(image, placed.row.start)), reader)
RECURSIVE Placed(_, _, _)
Placed(image, depth, reader) ==
    LET top == Under(<<>>, <<>>, RootRows(image), reader)
    IN  IF depth = 0 THEN top
        ELSE top \cup UNION {Below(image, p, reader) : p \in Placed(image, depth - 1, reader)}

\* A tree of directories that all differ is no deeper than there are clusters and starts of none.
Rows(image, reader) == Placed(image, image.clusters + 2, reader)
RootChain(image) == IF image.fat32 THEN Chain(image, image.rootCluster) ELSE {}
Sound(image) ==
    LET all == Rows(image, "validator")
    IN  /\ image.copies
        /\ image.fat32 => EndsWell(image, image.rootCluster)
        /\ \A p \in all :
              /\ EndsWell(image, p.row.start)
              /\ p.row.kind = "file" => Cardinality(Chain(image, p.row.start)) >= p.row.size
              /\ Chain(image, p.row.start) \cap RootChain(image) = {}
        /\ \A p, q \in all : p # q =>
              /\ p.row.kind = "folder" /\ q.row.kind = "folder" => p.row.start # q.row.start
              /\ p.path # q.path => Chain(image, p.row.start) \cap Chain(image, q.row.start) = {}
        /\ {c \in Clusters(image) : image.fat[c] # 0}
              \subseteq RootChain(image) \cup UNION {Chain(image, p.row.start) : p \in all}
                        \cup (IF image.fat32 THEN {2} ELSE {})

Fits(image) ==
    /\ image.clusters <= MaxNodes
    /\ Len(image.root) <= MaxNodes
    /\ \A p \in Rows(image, "validator") :
          EndsWell(image, p.row.start) =>
            Len(RowsOf(image, InChainOrder(image, p.row.start))) <= MaxNodes

\* The validator calls a FAT image VALID exactly if its file system is sound as a graph: chains end
\* where they should and are long enough, clusters in use are reached, by one path only, and no
\* directory is met twice - however its walk meets them (structural.py:299-483).  Only a directory
\* or a chain longer than the node limit is beyond it: rows past the limit are not looked at, and
\* nothing is said of it.
FatFindingsAreTrue(image) ==
    image.bpb /\ Fits(image) => (ValidateFat(image).state = "VALID" <=> Sound(image))

\* What the validator calls VALID the parser reads to the end, every file that it names with all its
\* data and none twice - as long as it names no row that the validator passes over, which the
\* validator has not judged.  VALID does not mean that it reads everything: of a FAT32 with a fixed
\* root, or without a root, it reads nothing, and what is under a row that it passes over for its
\* long name is not read, though the validator has judged it (disk_images.py:72, 134-176,
\* structural.py:271-355, 427-483).
FatReadersAgree(image) ==
    LET parsed == ParseFat(image)
        named == Rows(image, "parser")
        files == {p \in named : p.row.kind = "file"}
        judged == /\ ValidateFat(image).state = "VALID" /\ Fits(image) /\ ~RootRefused(image)
                  /\ named \subseteq Rows(image, "validator")
    IN  judged => /\ parsed.outcome = "image"
                  /\ Len(parsed.entries) = Cardinality(files)
                  /\ \A i \in DOMAIN parsed.entries : \E p \in files :
                        /\ parsed.entries[i].path = p.path
                        /\ Len(parsed.entries[i].data) = p.row.size
                        /\ Range(parsed.entries[i].data) \subseteq Chain(image, p.row.start)
=============================================================================
