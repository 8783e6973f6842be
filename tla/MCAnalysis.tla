----------------------------- MODULE MCAnalysis -----------------------------
(***************************************************************************)
(* The pure parts of an analysis over bounded inputs: those of             *)
(* AnalyzedInputs, and the file systems.  What the inputs of a kind have   *)
(* in common is in the initial state, the rest is chosen by the step.      *)
(***************************************************************************)
EXTENDS AnalyzedInputs, FatImages, AdfImages

VARIABLE common
vars == <<handed, common>>

(***************************************************************************)
(* Partition tables: six sectors, three partition blocks.                  *)
(***************************************************************************)
PartBlocks ==
    {[valid |-> TRUE, next |-> next, cylinder |-> 1, low |-> place[1], high |-> place[2]] :
        next \in {EndOfList, 1, 2, 3}, place \in {<<0, 1>>, <<2, 3>>, <<3, 3>>, <<4, 5>>}}
    \cup {[valid |-> FALSE, next |-> EndOfList, cylinder |-> 1, low |-> 0, high |-> 0],
          [valid |-> TRUE, next |-> 7, cylinder |-> 1, low |-> 5, high |-> 5],
          [valid |-> TRUE, next |-> 2, cylinder |-> 0, low |-> 0, high |-> 0],
          [valid |-> TRUE, next |-> EndOfList, cylinder |-> 2, low |-> 1, high |-> 0]}
RdbHeaders ==
    [found : {TRUE}, sumOk : BOOLEAN, blockSize : {0, 1, 2}, pointer : {EndOfList, 1, 2, 3}]
NoRdb == [found |-> FALSE, sumOk |-> FALSE, blockSize |-> 1, pointer |-> EndOfList]

BlankRow == [boot |-> 0, type |-> 0, lba |-> 0, count |-> 0]
BootRows ==
    {BlankRow, [boot |-> 0, type |-> 5, lba |-> 1, count |-> 2],
     [boot |-> 1, type |-> 6, lba |-> 1, count |-> 1]}
    \cup {[boot |-> 128, type |-> 6, lba |-> place[1], count |-> place[2]] :
            place \in {<<0, 1>>, <<1, 1>>, <<1, 4>>, <<3, 2>>, <<4, 0>>, <<5, 2>>}}

Disk(rdb, blocks, rows, signed) ==
    [size |-> 6, rdb |-> rdb, blocks |-> blocks, rows |-> rows, signed |-> signed]
AnalyzeRdb ==
    /\ kind = "disk" /\ common.rdb.found
    /\ \E blocks \in IF common.rdb.sumOk /\ common.rdb.blockSize > 0 /\ common.rdb.pointer # EndOfList
                     THEN [1 .. 3 -> PartBlocks] ELSE [1 .. 3 -> {CHOOSE b \in PartBlocks : b.valid}] :
          input' = Disk(common.rdb, blocks, [i \in 1 .. 4 |-> BlankRow], TRUE)
AnalyzeMbr ==
    /\ kind = "disk" /\ ~common.rdb.found
    /\ \E rows \in [1 .. 4 -> BootRows] : input' = Disk(NoRdb, <<>>, rows, common.signed)

(***************************************************************************)
(* FAT images: three clusters, the file has room for one more.             *)
(***************************************************************************)
FatTables == {table @@ (5 :> End) : table \in [2 .. 4 -> {0, Bad, 2, 3, 4, End}]}
RootRows1 ==
    {File("a", 0, 0), File("a", 0, 1), File("a", 2, 1), File("a", 2, 2), File("a", 5, 1),
     Folder("d", 2), Folder("e", 3), Folder("d", 0), Passed,
     OnlyFor({"validator"}, Folder("d", 2)), OnlyFor({"parser"}, File("a", 2, 1))}
FatRoots ==
    {<<>>} \cup {<<row, EndMark, File("z", 2, 1)>> : row \in RootRows1}
    \cup {<<row, next>> : row \in RootRows1, next \in RootRows1 \cup {File("b", 3, 1)}}
FatContents ==
    {<<>>, <<Passed, File("f", 4, 1)>>, <<Folder("g", 3)>>, <<Folder("g", 2), EndMark>>}
FatRows ==
    {(2 :> x) @@ (3 :> y) @@ (4 :> <<>>) @@ (5 :> <<>>) :
        x \in FatContents, y \in {<<>>, <<Folder("g", 2)>>}}
Volume(fat32, rootCluster, fixed, fat, root, rows, copies) ==
    [bpb |-> TRUE, copies |-> copies, fat32 |-> fat32, rootCluster |-> rootCluster,
     fixedRoot |-> fixed, clusters |-> 3, fat |-> fat, root |-> root, rows |-> rows]
Fat32(rootCluster, fixed, x) ==
    Volume(TRUE, rootCluster, fixed, common, <<>>, [c \in 2 .. 5 |-> IF c = 2 THEN x ELSE <<>>],
           x # <<>>)
AnalyzeFat ==
    /\ kind = "fat"
    /\ \/ \E root \in FatRoots, rows \in FatRows :
             input' = Volume(FALSE, 0, TRUE, common, root, rows, TRUE)
       \/ \E x \in FatRoots : input' = Fat32(2, FALSE, x)
       \/ \E root \in {<<1, FALSE>>, <<2, TRUE>>}, x \in {<<>>, <<File("a", 3, 1)>>} :
             input' = Fat32(root[1], root[2], x)

(***************************************************************************)
(* Amiga floppies: the root is block 2, three more.                        *)
(***************************************************************************)
Block(header, type, words, next, size, named, data, of, count) ==
    [header |-> header, kind |-> type, words |-> words, next |-> next, size |-> size,
     named |-> named, data |-> data, of |-> of, count |-> count]
AdfBlocks ==
    {Block(TRUE, "file", words, next, size, TRUE, FALSE, 0, 0) :
        words \in {<<0, 4>>, <<5, 4>>}, next \in {0, 4}, size \in {2, 4}}
    \cup {Block(TRUE, "folder", words, next, 0, TRUE, FALSE, 0, 0) :
            words \in {<<0, 0>>, <<4, 5>>, <<3, 0>>}, next \in {0, 5}}
    \cup {Block(FALSE, "none", <<0, 0>>, 0, 0, TRUE, TRUE, of, count) :
            of \in {3, 4}, count \in {2, 3}}
    \cup {Block(TRUE, "link", <<0, 0>>, 5, 0, TRUE, FALSE, 0, 0),
          Block(TRUE, "file", <<4, 4>>, 0, 4, TRUE, FALSE, 0, 0),
          Block(TRUE, "file", <<0, 6>>, 0, 0, TRUE, FALSE, 0, 0),
          Block(TRUE, "file", <<0, 0>>, 0, 0, FALSE, FALSE, 0, 0)}
AdfRoots == {<<0, 0>>, <<3, 0>>, <<3, 4>>, <<5, 3>>, <<3, 3>>, <<6, 0>>}
AnalyzeAdf ==
    /\ kind = "adf"
    /\ \E blocks \in [3 .. 5 -> AdfBlocks], ofs \in BOOLEAN :
          input' = [standard |-> TRUE, ofs |-> ofs, labelled |-> TRUE, bootOk |-> TRUE,
                    badBitmaps |-> {},
                    blocks |-> blocks @@
                        (2 :> Block(TRUE, "root", common, 0, 0, TRUE, FALSE, 0, 0))]
AnalyzeAdfFrame ==
    /\ kind = "adf"
    /\ \E standard, labelled, bootOk, sumOk \in BOOLEAN, type \in {"root", "file"},
          bad \in {{}, {3}, {9}} :
          input' = [standard |-> standard, ofs |-> FALSE, labelled |-> labelled, bootOk |-> bootOk,
                    badBitmaps |-> bad,
                    blocks |-> [key \in 2 .. 5 |->
                        Block(key > 2 \/ sumOk, IF key = 2 THEN type ELSE "folder",
                              IF key = 2 THEN common ELSE <<0, 0>>, 0, 0, TRUE, FALSE, 0, 0)]]

(***************************************************************************)
(* ISO volumes of five sectors with directories in three, and archives.    *)
(***************************************************************************)
IsoSectors ==
    {<<>>, <<Padding>>, <<Malformed>>, <<Record(4, 1, FALSE), Padding>>}
    \cup {<<Record(extent, length, TRUE), Padding>> : extent \in {1, 2, 4}, length \in {1, 2}}
    \cup {<<Record(extent, 1, TRUE), Record(next, 1, folder)>> :
            extent \in {1, 2}, next \in {3, 5}, folder \in BOOLEAN}
IsoVolume(descriptors, blockSize, fits, root, sectors) ==
    [size |-> 5, descriptors |-> descriptors, blockSize |-> blockSize, spaceFits |-> fits,
     root |-> root, sectors |-> sectors]
AnalyzeIso ==
    /\ kind = "iso"
    /\ \E s \in [1 .. 2 -> IsoSectors], length \in {1, 2}, third \in {<<>>, <<Padding>>, <<Malformed>>} :
          input' = IsoVolume(<<"primary", "end">>, 1, TRUE, Record(1, length, TRUE),
                             s @@ (3 :> common) @@ (4 :> third) @@ (0 :> <<>>))
AnalyzeIsoFrame ==
    /\ kind = "iso"
    /\ \E n \in 0 .. 3 : \E descriptors \in [1 .. n -> {"primary", "other", "end", "bad"}],
          blockSize \in {0, 1, 2}, fits \in BOOLEAN, length \in {0, 1, 2} :
          input' = IsoVolume(descriptors, blockSize, fits, Record(1, length, TRUE),
                             [i \in 0 .. 4 |-> common])

Members ==
    {{}} \cup {{fault} : fault \in Faults} \cup {{"sum", "crc"}, {"sum", "cut"}, {"method", "cut"}}
AnalyzeLha ==
    /\ kind = "lha"
    /\ \E n \in 0 .. IF common = {"lh0"} THEN 3 ELSE 1 : \E archive \in [1 .. n -> Members], large \in BOOLEAN :
          input' = [traits |-> common, large |-> large, archive |-> archive]

(***************************************************************************)
(* Compound files: four sectors, two entries in each.                      *)
(***************************************************************************)
Entry(type, start, size, left, right, child) ==
    [kind |-> type, start |-> start, size |-> size, left |-> left, right |-> right,
     child |-> child]
\* In the last two a chain leaves the table, and the file.
CfbTables == {<<a, b, c, d>> : a \in {1, Stop}, b \in {0, 2, Stop}, c \in {1, 3, Stop}, d \in {3, Stop}}
             \cup {<<Stop, Stop, 3>>, <<1, Stop, 4, Stop, Stop>>}
CfbRoots ==
    {Unused, Entry("root", 3, 4, Stop, Stop, 2), Entry("root", Stop, 0, Stop, Stop, 3),
     Entry("root", 3, 1, 2, Stop, 4)}
CfbEntries ==
    {Unused, Entry("stream", 2, 3, 3, 1, Stop), Entry("stream", 2, 1, Stop, 2, Stop),
     Entry("stream", 1, 5, Stop, Stop, Stop), Entry("stream", 2, 4, Stop, Stop, Stop),
     Entry("storage", Stop, 0, 3, 4, 2), Entry("storage", Stop, 0, Stop, 4, 3)}
AnalyzeCfb ==
    /\ kind = "cfb"
    /\ \E root \in CfbRoots, x, y, z \in CfbEntries,
          mini \in {<<>>, <<Stop, 0, 1>>, <<1, 2, 0>>} :
          input' = [geometry |-> TRUE, sectors |-> 4, fat |-> common, firstDir |-> 0,
                    firstMini |-> 3, miniCount |-> IF mini = <<>> THEN 0 ELSE 1,
                    entries |-> (0 :> <<root, x>>) @@ (1 :> <<y, z>>)
                                @@ [s \in {2, 3} |-> <<Unused>>],
                    mini |-> [s \in 0 .. 3 |-> mini]]

(***************************************************************************)
(* Processes of scanners, and the objects of a job with the replies.       *)
(***************************************************************************)
ExitCodes == {0, 1, 2, 124}
AnalyzeProcess ==
    /\ kind = "process"
    /\ \E exit \in ExitCodes, late, bwrap, setting \in BOOLEAN,
          out \in {{}, {"blank"}, {"other"}, {"FOUND"}, {"ALERT", "WARNING"}, {"WARNING"}, {"hits"}},
          err \in {{}, {"blank"}, {"bwrap"}, {"bwrap", "other"}, {"ALERT"}} :
          input' = [scanner |-> common,
                    process |-> [exit |-> exit, late |-> late, bwrap |-> bwrap, stdout |-> out,
                                 stderr |-> err],
                    setting |-> setting]

Says(state, exact, records, errors) == Context(state, exact, records, 3, errors, "theirs")
Unknown == Says("COMPLETE", "NO_EXACT_MATCH", <<>>, {})
Known == Says("COMPLETE", "EXACT_MATCH", <<TRUE>>, {})
Replies ==
    {Reply(end, 200, TRUE, TRUE, Unknown) : end \in Ends \ {"answered"}}
    \cup {Reply("answered", status, TRUE, TRUE, Unknown) : status \in {200, 204, 302, 401, 404, 500}}
    \cup {Reply("answered", 200, FALSE, TRUE, Known), Reply("answered", 200, TRUE, FALSE, Known)}
    \cup {Reply("answered", 200, TRUE, TRUE, Says(state, exact, records, {})) :
            state \in {"COMPLETE", "PARTIAL"}, exact \in {"EXACT_MATCH", "NO_EXACT_MATCH"},
            records \in {<<TRUE>>, <<TRUE, FALSE>>, <<FALSE>>}}
    \cup {Reply("answered", 200, TRUE, TRUE, Says("UNAVAILABLE", "ERROR", <<>>, {"RAB_TIMEOUT"}))}
Objects(id) ==
    [id : {id}, hashed : BOOLEAN, ssdeep : BOOLEAN, duration : {0, 1, 2}, reply : Replies]
Brief(id) ==
    [id : {id}, hashed : BOOLEAN, ssdeep : BOOLEAN, duration : {0, 1, 2},
     reply : {Reply("answered", 200, TRUE, TRUE, Known), Reply("timeout", 200, TRUE, TRUE, Unknown)}]
AnalyzeJob ==
    /\ kind = "job"
    /\ \/ input' = <<common>>
       \/ \E x \in Objects(2) : input' = <<common, x>>
       \/ \E x \in Brief(2), y \in Brief(3) : input' = <<common, x, y>>
       \/ \E x \in Brief(2), y \in Brief(3) : input' = <<common, x, y, [y EXCEPT !.id = 4]>>

MCInit ==
    /\ \/ kind = "disk" /\ common \in [rdb : RdbHeaders, signed : {TRUE}]
                                    \cup [rdb : {NoRdb}, signed : BOOLEAN]
       \/ kind = "fat" /\ common \in FatTables
       \/ kind = "adf" /\ common \in AdfRoots
       \/ kind = "iso" /\ common \in IsoSectors
       \/ kind = "lha" /\ common \in SUBSET Traits
       \/ kind = "cfb" /\ common \in CfbTables
       \/ kind = "process" /\ common \in FileScanners \cup SystemScanners
       \/ kind = "job" /\ common \in Objects(1)
    /\ input = "none"
    /\ analyzed = FALSE

\* What is in the reach of AnalyzedInputs is handed on by a step of its.
MCNext ==
    /\ ~analyzed
    /\ \/ /\ \/ AnalyzeRdb \/ AnalyzeMbr \/ AnalyzeIso \/ AnalyzeIsoFrame \/ AnalyzeLha
             \/ AnalyzeCfb \/ AnalyzeProcess \/ AnalyzeJob
          /\ Hand
       \/ /\ AnalyzeFat \/ AnalyzeAdf \/ AnalyzeAdfFrame
          /\ analyzed' = TRUE /\ UNCHANGED kind
    /\ UNCHANGED common
MCSpec == MCInit /\ [][MCNext]_vars

\* FatFindingsAreTrue of every FAT image (structural.py:271-483).
FatVerdictsAreTrue == Given("fat") => FatFindingsAreTrue(input)
\* FatReadersAgree on every FAT image (disk_images.py:45-193).
FatImagesAreReadWhole == Given("fat") => FatReadersAgree(input)
\* AdfReadersAgree on every floppy (disk_images.py:204-302, structural.py:145-269).
FloppiesAreReadAlike == Given("adf") => AdfReadersAgree(input)
=============================================================================
