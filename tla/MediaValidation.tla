--------------------------- MODULE MediaValidation ---------------------------
(***************************************************************************)
(* The structural validator of src/avbox/analyzers/structural.py around    *)
(* the file systems of FatImages, AdfImages and PartitionTables: which     *)
(* format an object is judged as, the directory walk of ISO 9660, the      *)
(* members of an LHA archive, and the result.                              *)
(***************************************************************************)
EXTENDS Integers, Sequences, FiniteSets, SequencesExt

CONSTANTS
    MaxIsoNodes,    \* max_nodes, of records and of members
    MaxMembers

ASSUME MediaAssumption == MaxIsoNodes \in Nat \ {0} /\ MaxMembers \in Nat \ {0}

(***************************************************************************)
(* _validate(): what of its beginning an object shows, and whether it is   *)
(* beyond max_bytes - which only matters for the formats read in one.      *)
(***************************************************************************)
Traits == {"dos", "fat", "rdsk", "cd001", "lh0"}
Format(traits) ==
    IF "dos" \in traits THEN "ADF"
    ELSE IF "fat" \in traits THEN "FAT"
    ELSE IF "rdsk" \in traits THEN "RDB/HDF"
    ELSE IF "cd001" \in traits THEN "ISO9660"
    ELSE IF "lh0" \in traits THEN "LHA" ELSE "unsupported"

\* _result(): every state but VALID comes with an assessment.
Result(state, findings, completeness) ==
    [state |-> state, findings |-> findings, completeness |-> completeness,
     assessed |-> state # "VALID"]
TooLarge == Result("PARTIAL", {"VALIDATION_BYTE_LIMIT"}, "PARTIAL_LIMIT")
Judged(findings) ==
    Result(IF findings \cap {"LHA_ARCHIVE_TRUNCATED", "ISO_TRUNCATED_DESCRIPTOR"} # {} THEN "TRUNCATED"
           ELSE IF findings = {} THEN "VALID" ELSE "DAMAGED", findings, "COMPLETE")

(***************************************************************************)
(* ISO 9660.  A volume is its size in sectors of 2048 bytes, its           *)
(* descriptors from the sixteenth on ("primary", "other", "end", "bad"),   *)
(* of the last primary one the block size (1 is 2048 bytes; 0 is what a    *)
(* blank field gives), whether the space it claims fits, and the record of *)
(* the root directory; and for every sector the records in it, up to the   *)
(* padding if there is some.                                               *)
(***************************************************************************)
Record(extent, length, folder) ==
    [kind |-> "record", extent |-> extent, length |-> length, folder |-> folder]
Padding == [kind |-> "padding", extent |-> 0, length |-> 0, folder |-> FALSE]
Malformed == [kind |-> "malformed", extent |-> 0, length |-> 0, folder |-> FALSE]

Records ==
    [kind : {"record"}, extent : Nat, length : Nat, folder : BOOLEAN] \cup {Padding, Malformed}
Descriptors == {"primary", "other", "end", "bad"}
IsVolume(volume) ==
    /\ volume.size \in Nat /\ volume.blockSize \in Nat /\ volume.spaceFits \in BOOLEAN
    /\ volume.descriptors \in Seq(Descriptors)
    /\ volume.root \in Records
    /\ volume.sectors \in [0 .. volume.size - 1 -> Seq(Records)]

\* _iso(): the descriptors up to the first that is bad or ends them.
DescriptorsRead(volume) ==
    {volume.descriptors[n] : n \in
        {n \in DOMAIN volume.descriptors :
            \A i \in 1 .. n - 1 : volume.descriptors[i] \notin {"bad", "end"}}}

\* A place is where a record begins and how long it is; what is read there is the records of its
\* sectors, one after the other: of a block size other than one, the bytes that a padding byte makes
\* the reader skip up to the next block are taken to hold no record.
Place(record) == <<record.extent, record.length>>
OutOfRange(volume, place) ==
    place[1] * volume.blockSize > volume.size
        \/ place[2] > volume.size - place[1] * volume.blockSize
RowsAt(volume, place) ==
    FoldLeft(LAMBDA rows, sector : rows \o sector, <<>>,
             [i \in 1 .. place[2] |-> volume.sectors[place[1] * volume.blockSize + i - 1]])

Noted(walk, finding) == [walk EXCEPT !.findings = @ \cup {finding}]

\* One record of a directory.  A padding byte sends the reader to the next block, which takes a
\* division by the block size.
ReadRecord(volume, walk, record) ==
    LET counted == [walk EXCEPT !.nodes = @ + 1]
        ranged == IF OutOfRange(volume, Place(record))
                  THEN Noted(counted, "ISO_FILE_EXTENT_OUT_OF_RANGE") ELSE counted
    IN  IF walk.broken \/ walk.raised THEN walk
        ELSE IF record.kind = "padding" THEN [counted EXCEPT !.raised = (volume.blockSize = 0)]
        ELSE IF record.kind = "malformed"
        THEN [Noted(counted, "ISO_DIRECTORY_RECORD_MALFORMED") EXCEPT !.broken = TRUE]
        ELSE IF record.folder THEN [ranged EXCEPT !.pending = Append(@, Place(record))] ELSE ranged
ReadDirectory(volume, walk, place) ==
    FoldLeft(LAMBDA read, record : ReadRecord(volume, read, record), walk, RowsAt(volume, place))

\* _iso_directories(): one turn of the loop reads the last directory that is pending, each place
\* once.  The node limit is looked at between directories.  Every pending directory but the root
\* was counted as a node, so there are no more turns than the limit.
BugLimited(walk) == FALSE
Limited(walk) == walk.pending # <<>> \/ walk.nodes >= MaxIsoNodes
Halted(walk) == walk.raised \/ walk.pending = <<>> \/ walk.nodes >= MaxIsoNodes
WalkOne(volume, walk) ==
    LET place == Last(walk.pending)
        popped == [walk EXCEPT !.pending = Front(@), !.seen = @ \cup {place}, !.broken = FALSE]
    IN  IF Halted(walk) THEN walk
        ELSE IF place \in walk.seen THEN popped
        ELSE IF OutOfRange(volume, place) THEN Noted(popped, "ISO_DIRECTORY_EXTENT_OUT_OF_RANGE")
        ELSE ReadDirectory(volume, popped, place)
IsoWalk(volume) ==
    LET walk[turn \in 0 .. MaxIsoNodes] ==
            IF turn = 0
            THEN [pending |-> <<Place(volume.root)>>, seen |-> {}, nodes |-> 0, findings |-> {},
                  broken |-> FALSE, raised |-> FALSE]
            ELSE WalkOne(volume, walk[turn - 1])
        last == walk[MaxIsoNodes]
    IN  IF ~last.raised /\ Limited(last) THEN Noted(last, "ISO_DIRECTORY_NODE_LIMIT") ELSE last

\* What the validator makes of the volume: an exception leaves it, and its findings are lost.
ValidateIso(volume) ==
    LET read == DescriptorsRead(volume)
        primary == "primary" \in read
        findings ==
            (IF "bad" \in read THEN {"ISO_VOLUME_DESCRIPTOR_INVALID"} ELSE {})
            \cup (IF primary THEN {} ELSE {"ISO_PRIMARY_VOLUME_DESCRIPTOR_MISSING"})
            \cup (IF "end" \in read THEN {} ELSE {"ISO_DESCRIPTOR_TERMINATOR_MISSING"})
            \cup (IF primary /\ volume.blockSize # 1 THEN {"ISO_LOGICAL_BLOCK_SIZE_INVALID"} ELSE {})
            \cup (IF primary /\ ~volume.spaceFits THEN {"ISO_VOLUME_SPACE_OUT_OF_RANGE"} ELSE {})
            \cup (IF primary THEN IsoWalk(volume).findings ELSE {})
    IN  IF primary /\ IsoWalk(volume).raised THEN Result("raised", {}, "COMPLETE")
        ELSE Judged(findings)

\* The directories of a volume, said without a walk: the places that every set has that has the
\* root and with a directory those that its records name.
RowsOfSectors(volume) ==
    UNION {{volume.sectors[s][i] : i \in DOMAIN volume.sectors[s]} : s \in DOMAIN volume.sectors}
PlacesNamed(volume) == {Place(volume.root)} \cup {Place(record) : record \in RowsOfSectors(volume)}
FoldersAt(volume, place) ==
    IF OutOfRange(volume, place) THEN {}
    ELSE {Place(RowsAt(volume, place)[i]) : i \in {k \in DOMAIN RowsAt(volume, place) :
             RowsAt(volume, place)[k].kind = "record" /\ RowsAt(volume, place)[k].folder}}
Directories(volume) ==
    {place \in PlacesNamed(volume) : \A set \in SUBSET PlacesNamed(volume) :
        Place(volume.root) \in set /\ (\A p \in set : FoldersAt(volume, p) \subseteq set)
            => place \in set}

\* The validator calls a volume VALID exactly if its descriptors are in order, every directory
\* that can be reached lies in the image, every record in one is well formed and names bytes of
\* the image, and there are fewer of them than the node limit - however directories lead to each
\* other (structural.py:509-607).  Only a volume whose block size is zero makes the validator
\* raise.  Nothing is said of how much is read: the limit is looked at between directories only,
\* so a single directory is read whole however long it is, where docs/m17-retro-media-validation.md
\* (36-37) says that no count from the media can bypass the node bound.
SizeAt(volume, place) == IF OutOfRange(volume, place) THEN 0 ELSE Len(RowsAt(volume, place))
Nodes(volume, places) == UNION {{place} \X (1 .. SizeAt(volume, place)) : place \in places}
SoundAt(volume, place) ==
    /\ ~OutOfRange(volume, place)
    /\ \A i \in DOMAIN RowsAt(volume, place) :
          /\ RowsAt(volume, place)[i].kind # "malformed"
          /\ ~OutOfRange(volume, Place(RowsAt(volume, place)[i]))
Ordered(descriptors) ==
    \E n \in DOMAIN descriptors :
        /\ descriptors[n] = "end"
        /\ \A i \in 1 .. n - 1 : descriptors[i] \in {"primary", "other"}
        /\ \E i \in 1 .. n - 1 : descriptors[i] = "primary"
IsoIsReadWhole(volume) ==
    LET directories == Directories(volume)
        result == ValidateIso(volume)
    IN  /\ result.state = "raised" => volume.blockSize = 0
        /\ volume.blockSize = 1 =>
              (result.state = "VALID" <=>
                  /\ Ordered(volume.descriptors) /\ volume.spaceFits
                  /\ Cardinality(Nodes(volume, directories)) < MaxIsoNodes
                  /\ \A place \in directories : SoundAt(volume, place))

(***************************************************************************)
(* LHA.  An archive is its members up to the end mark - a header size of   *)
(* zero - or the end of the data, a member the set of what is wrong with   *)
(* it.                                                                     *)
(***************************************************************************)
Faults == {"short", "header", "method", "sum", "no crc", "cut", "crc"}

\* _lha(), one member: the tests in their order; the first of some ends the walk.
ReadMember(walk, member) ==
    LET summed == IF "sum" \in member
                  THEN {"LHA_HEADER_CHECKSUM_MISMATCH"} ELSE {}
        Stop(findings) ==
            [walk EXCEPT !.findings = @ \cup findings, !.stopped = TRUE]
    IN  IF walk.stopped \/ walk.members >= MaxMembers THEN walk
        ELSE IF "short" \in member THEN Stop({"LHA_ARCHIVE_TRUNCATED"})
        ELSE IF "header" \in member THEN Stop({"LHA_HEADER_MALFORMED"})
        ELSE IF "method" \in member THEN Stop({"LHA_METHOD_UNSUPPORTED"})
        ELSE IF "no crc" \in member THEN Stop(summed \cup {"LHA_HEADER_MALFORMED"})
        ELSE IF "cut" \in member THEN Stop(summed \cup {"LHA_ARCHIVE_TRUNCATED"})
        ELSE [walk EXCEPT !.members = @ + 1,
                          !.findings = @ \cup summed \cup (IF "crc" \in member
                                          THEN {"LHA_MEMBER_CRC_MISMATCH"} ELSE {})]
ValidateLha(archive) ==
    Judged(FoldLeft(ReadMember, [members |-> 0, findings |-> {}, stopped |-> FALSE], archive).findings)

\* analyze() of an object that shows these traits and is an archive.
AnalyzeArchive(traits, large, archive) ==
    IF Format(traits) \in {"ADF", "FAT", "LHA"} /\ large THEN TooLarge
    ELSE IF Format(traits) = "LHA" THEN ValidateLha(archive)
    ELSE Result("not judged as LHA", {}, "COMPLETE")

\* An archive is VALID exactly if it was judged as one and all its members up to the limit are
\* without fault; no fault passes for the end of the archive but a header size that was zeroed,
\* which is the end mark.  Members past the limit are not looked at and nothing is said of them
\* (structural.py:94-143, 609-651).
LhaIsReadWhole(traits, large, archive) ==
    AnalyzeArchive(traits, large, archive).state = "VALID"
        <=> /\ traits = {"lh0"} /\ ~large
            /\ \A i \in DOMAIN archive : i <= MaxMembers => archive[i] = {}
=============================================================================
