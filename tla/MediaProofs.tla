----------------------------- MODULE MediaProofs -----------------------------
(***************************************************************************)
(* Theorems about MediaValidation, for any volume and any archive: what    *)
(* the validator calls VALID was read whole and is sound, and what is      *)
(* sound and within the limits it calls VALID.                             *)
(***************************************************************************)
EXTENDS MediaValidation, InductionFacts, FiniteSetTheorems

LEMMA NoFindingIsValid ==
  ASSUME NEW findings
  PROVE  /\ Judged(findings).state = "VALID" <=> findings = {}
         /\ Judged(findings).state # "raised"
  BY DEF Judged, Result

(***************************************************************************)
(* LHA: the members one by one.                                            *)
(***************************************************************************)

LhaFindings ==
    {"LHA_HEADER_CHECKSUM_MISMATCH", "LHA_ARCHIVE_TRUNCATED", "LHA_HEADER_MALFORMED",
     "LHA_METHOD_UNSUPPORTED", "LHA_MEMBER_CRC_MISMATCH"}
LhaWalks == [members : Nat, findings : SUBSET LhaFindings, stopped : BOOLEAN]
FirstMember == [members |-> 0, findings |-> {}, stopped |-> FALSE]

LEMMA MemberIsRead ==
  ASSUME NEW walk \in LhaWalks, NEW member \in SUBSET Faults
  PROVE  /\ ReadMember(walk, member) \in LhaWalks
         /\ walk.findings \subseteq ReadMember(walk, member).findings
         /\ walk.members >= MaxMembers => ReadMember(walk, member) = walk
         /\ ~walk.stopped /\ walk.members < MaxMembers /\ member = {} =>
               ReadMember(walk, member) = [walk EXCEPT !.members = @ + 1]
         /\ ~walk.stopped /\ walk.members < MaxMembers /\ member # {} =>
               ReadMember(walk, member).findings # {}
  <1> DEFINE next == ReadMember(walk, member)
             summed == IF "sum" \in member THEN {"LHA_HEADER_CHECKSUM_MISMATCH"} ELSE {}
             Stop(findings) == [walk EXCEPT !.findings = @ \cup findings, !.stopped = TRUE]
             crc == IF "crc" \in member THEN {"LHA_MEMBER_CRC_MISMATCH"} ELSE {}
             Read == [walk EXCEPT !.members = @ + 1, !.findings = @ \cup (summed \cup crc)]
             Stopping == {"short", "header", "method", "no crc", "cut"}
  <1>1. CASE walk.stopped \/ walk.members >= MaxMembers
    <2>1. next = walk
      BY <1>1 DEF ReadMember
    <2> QED
      BY <1>1, <2>1, MediaAssumption DEF LhaWalks
  <1>2. CASE ~(walk.stopped \/ walk.members >= MaxMembers)
    <2>1. summed \in SUBSET LhaFindings /\ crc \in SUBSET LhaFindings
      BY DEF LhaFindings
    <2>2. CASE member \cap Stopping = {}
      <3>1. next = Read
        <4>1. "short" \notin member /\ "header" \notin member /\ "method" \notin member
                /\ "no crc" \notin member /\ "cut" \notin member
          BY <2>2
        <4>2. walk.findings \cup summed \cup crc = walk.findings \cup (summed \cup crc)
          OBVIOUS
        <4> QED
          BY <1>2, <4>1, <4>2 DEF ReadMember
      <3>2. summed \cup crc = {} <=> member = {}
        BY <2>2 DEF Faults
      <3>3. PICK added \in SUBSET LhaFindings : added = summed \cup crc
        BY <2>1
      <3>4. next = [walk EXCEPT !.members = @ + 1, !.findings = @ \cup added]
        BY <3>1, <3>3
      <3> HIDE DEF next, summed, crc
      <3>5. /\ next \in LhaWalks /\ walk.findings \subseteq next.findings
            /\ added # {} => next.findings # {}
        <4>1. PICK all \in SUBSET LhaFindings : all = walk.findings \cup added
          BY DEF LhaWalks
        <4>2. PICK more \in Nat : more = walk.members + 1
          BY DEF LhaWalks
        <4>3. next = [members |-> more, findings |-> all, stopped |-> walk.stopped]
          BY <3>4, <4>1, <4>2 DEF LhaWalks
        <4>4. walk.stopped \in BOOLEAN
          BY DEF LhaWalks
        <4>5. next \in LhaWalks /\ next.findings = all
          BY <4>3, <4>4 DEF LhaWalks
        <4> QED
          BY <4>1, <4>5
      <3>6. added = {} => next = [walk EXCEPT !.members = @ + 1]
        <4>1. added = {} => walk.findings \cup added = walk.findings
          OBVIOUS
        <4>2. next = [members |-> walk.members + 1, findings |-> walk.findings \cup added,
                      stopped |-> walk.stopped]
          BY <3>4 DEF LhaWalks
        <4> QED
          BY <4>1, <4>2 DEF LhaWalks
      <3>7. ~(walk.members >= MaxMembers)
        BY <1>2
      <3> QED
        BY <3>2, <3>3, <3>5, <3>6, <3>7 DEF next
    <2>3. CASE member \cap Stopping # {}
      <3>1. \E findings \in SUBSET LhaFindings : findings # {} /\ next = Stop(findings)
        BY <1>2, <2>1, <2>3 DEF ReadMember, LhaFindings
      <3>2. PICK findings \in SUBSET LhaFindings : findings # {} /\ next = Stop(findings)
        BY ONLY <3>1
      <3> HIDE DEF next
      <3> QED
        BY <1>2, <2>3, <3>2 DEF LhaWalks, next
    <2> QED
      BY <2>2, <2>3
  <1> QED
    BY <1>1, <1>2

LEMMA MembersAreRead ==
  ASSUME NEW n \in Nat, NEW archive \in [1 .. n -> SUBSET Faults]
  PROVE  \E walk \in [0 .. n -> LhaWalks] :
            /\ walk[0] = FirstMember /\ FoldLeft(ReadMember, FirstMember, archive) = walk[n]
            /\ \A k \in 1 .. n : walk[k] = ReadMember(walk[k - 1], archive[k])
  <1> DEFINE A == LhaWalks
             step == [pair \in A \X (1 .. n) |-> ReadMember(pair[1], archive[pair[2]])]
             fold == CHOOSE f : f = [s \in SUBSET (1 .. n) |->
                        IF s = {} THEN FirstMember
                        ELSE ReadMember(f[s \ {Highest(s)}], archive[Highest(s)])]
  <1>1. FoldLeft(ReadMember, FirstMember, archive) = fold[1 .. n]
    BY DEF FoldLeft, MapThenFoldSet, Max, Highest
  <1>2. step \in [A \X (1 .. n) -> A]
    BY MemberIsRead
  <1>3. FirstMember \in A
    BY DEF FirstMember, LhaWalks
  <1>4. PICK some : Folds(A, FirstMember, step, n, some)
    <2> HIDE DEF A, step
    <2> QED
      BY <1>2, <1>3, FoldExists
  <1>5. some = [s \in SUBSET (1 .. n) |->
                  IF s = {} THEN FirstMember
                  ELSE ReadMember(some[s \ {Highest(s)}], archive[Highest(s)])]
    <2> HIDE DEF A
    <2>1. ASSUME NEW s \in SUBSET (1 .. n), s # {}
          PROVE  some[s] = ReadMember(some[s \ {Highest(s)}], archive[Highest(s)])
      <3>1. Highest(s) \in s
        BY <2>1, HighestIsOne
      <3>2. some[s] = step[<<some[s \ {Highest(s)}], Highest(s)>>]
        BY <1>4, <2>1 DEF Folds, FoldAt
      <3>3. some[s \ {Highest(s)}] \in A /\ Highest(s) \in 1 .. n
        <4> HIDE DEF step
        <4> QED
          BY <1>4, <3>1 DEF Folds
      <3> QED
        BY <3>2, <3>3
    <2> HIDE DEF step
    <2>2. some[{}] = FirstMember
      BY <1>4 DEF Folds, FoldAt
    <2> QED
      BY <1>4, <2>1, <2>2 DEF Folds
  <1>6. fold = [s \in SUBSET (1 .. n) |->
                  IF s = {} THEN FirstMember
                  ELSE ReadMember(fold[s \ {Highest(s)}], archive[Highest(s)])]
    BY <1>5
  <1> HIDE DEF fold
  <1> DEFINE walk == [k \in 0 .. n |-> fold[1 .. k]]
  <1>7. walk[0] = FirstMember
    <2>1. 1 .. 0 = {} /\ {} \in SUBSET (1 .. n)
      OBVIOUS
    <2> QED
      BY <1>6, <2>1
  <1>8. ASSUME NEW k \in 1 .. n PROVE walk[k] = ReadMember(walk[k - 1], archive[k])
    <2>1. /\ 1 .. k \in SUBSET (1 .. n) /\ 1 .. k # {} /\ Highest(1 .. k) = k
          /\ (1 .. k) \ {k} = 1 .. (k - 1)
      BY UpTo
    <2>2. fold[1 .. k] = ReadMember(fold[1 .. (k - 1)], archive[k])
      BY <1>6, <2>1
    <2> QED
      BY <2>2
  <1>9. walk[n] = fold[1 .. n] /\ DOMAIN walk = 0 .. n /\ walk = [k \in 0 .. n |-> walk[k]]
    OBVIOUS
  <1> HIDE DEF walk
  <1> DEFINE S == {k \in Nat : walk[k] \in A}
  <1>10. ASSUME NEW k \in 0 .. n PROVE walk[k] \in A
    <2>1. ASSUME NEW i \in 1 .. k, i - 1 \in S PROVE i \in S
      BY <1>8, <2>1, MemberIsRead
    <2>2. 0 \in S /\ S \in SUBSET Nat /\ k \in Nat
      BY <1>3, <1>7
    <2> HIDE DEF S
    <2>3. k \in S
      BY <2>1, <2>2, InductionUpTo
    <2> QED
      BY <2>3 DEF S
  <1> QED
    BY <1>1, <1>7, <1>8, <1>9, <1>10

\* What is known after k members.
Unharmed(archive, k) == \A i \in 1 .. k : i <= MaxMembers => archive[i] = {}
Weighed(archive, walk, k) ==
    /\ walk.findings = {} <=> Unharmed(archive, k)
    /\ walk.findings = {} =>
          ~walk.stopped /\ walk.members = IF k <= MaxMembers THEN k ELSE MaxMembers

LEMMA WeighedOneMore ==
  ASSUME NEW n \in Nat, NEW archive \in [1 .. n -> SUBSET Faults], NEW k \in Nat, k < n,
         NEW walk \in LhaWalks, Weighed(archive, walk, k)
  PROVE  Weighed(archive, ReadMember(walk, archive[k + 1]), k + 1)
  <1> DEFINE member == archive[k + 1]
  <1>1. member \in SUBSET Faults /\ k + 1 \in 1 .. n
    OBVIOUS
  <1>2. Unharmed(archive, k + 1) <=> Unharmed(archive, k) /\ (k + 1 <= MaxMembers => member = {})
    <2>1. \A i \in 1 .. k + 1 : i \in 1 .. k \/ i = k + 1
      OBVIOUS
    <2> QED
      BY <2>1 DEF Unharmed
  <1>3. PICK next \in LhaWalks : next = ReadMember(walk, member)
    BY <1>1, MemberIsRead
  <1> HIDE DEF member
  <1>4. CASE walk.findings # {}
    <2>1. next.findings # {} /\ ~Unharmed(archive, k)
      BY <1>1, <1>3, <1>4, MemberIsRead DEF Weighed
    <2> QED
      BY <1>2, <1>3, <2>1 DEF Weighed, member
  <1>5. CASE walk.findings = {} /\ k >= MaxMembers
    <2>1. walk.members = MaxMembers /\ ~walk.stopped /\ Unharmed(archive, k)
      BY <1>5, MediaAssumption DEF Weighed
    <2>2. next = walk
      BY <1>1, <1>3, <2>1, MemberIsRead, MediaAssumption
    <2> QED
      BY <1>2, <1>3, <1>5, <2>1, <2>2, MediaAssumption DEF Weighed, member
  <1>6. CASE walk.findings = {} /\ k < MaxMembers
    <2>1. walk.members = k /\ ~walk.stopped /\ Unharmed(archive, k) /\ k + 1 <= MaxMembers
      BY <1>6, MediaAssumption DEF Weighed
    <2>2. CASE member = {}
      <3>1. next = [walk EXCEPT !.members = @ + 1]
        BY <1>1, <1>3, <1>6, <2>1, <2>2, MemberIsRead
      <3>2. next.findings = {} /\ next.members = k + 1 /\ ~next.stopped
        BY <1>6, <2>1, <3>1 DEF LhaWalks
      <3> QED
        BY <1>2, <1>3, <2>1, <2>2, <3>2 DEF Weighed, member
    <2>3. CASE member # {}
      <3>1. next.findings # {}
        BY <1>1, <1>3, <1>6, <2>1, <2>3, MemberIsRead
      <3> QED
        BY <1>2, <1>3, <2>1, <2>3, <3>1 DEF Weighed, member
    <2> QED
      BY <2>2, <2>3
  <1> QED
    BY <1>4, <1>5, <1>6, MediaAssumption

\* An archive is VALID exactly if it is judged as one and its members up to the limit are without
\* fault, for archives of any length (structural.py:94-143, 609-651).
THEOREM EveryArchiveIsReadWhole ==
  ASSUME NEW traits \in SUBSET Traits, NEW large \in BOOLEAN, NEW archive \in Seq(SUBSET Faults)
  PROVE  LhaIsReadWhole(traits, large, archive)
  <1>1. PICK n \in Nat : archive \in [1 .. n -> SUBSET Faults] /\ DOMAIN archive = 1 .. n
    <2>1. Len(archive) \in Nat /\ archive \in [1 .. Len(archive) -> SUBSET Faults]
      OBVIOUS
    <2> QED
      BY <2>1
  <1>2. PICK walk \in [0 .. n -> LhaWalks] :
            /\ walk[0] = FirstMember /\ FoldLeft(ReadMember, FirstMember, archive) = walk[n]
            /\ \A k \in 1 .. n : walk[k] = ReadMember(walk[k - 1], archive[k])
    BY <1>1, MembersAreRead
  <1> DEFINE S == {k \in Nat : Weighed(archive, walk[k], k)}
  <1>3. 0 \in S
    <2>1. Weighed(archive, FirstMember, 0)
      BY MediaAssumption DEF Weighed, FirstMember, Unharmed
    <2> QED
      BY <1>2, <2>1
  <1>4. ASSUME NEW k \in 1 .. n, k - 1 \in S PROVE k \in S
    <2>1. PICK before \in Nat : before = k - 1 /\ k = before + 1 /\ before < n /\ before \in 0 .. n
      OBVIOUS
    <2>2. walk[before] \in LhaWalks /\ walk[k] = ReadMember(walk[before], archive[before + 1])
      BY <1>2, <2>1
    <2>3. Weighed(archive, walk[k], before + 1)
      BY <1>1, <1>4, <2>1, <2>2, WeighedOneMore
    <2> QED
      BY <2>1, <2>3
  <1>5. S \in SUBSET Nat
    OBVIOUS
  <1> HIDE DEF S
  <1>6. n \in S
    BY <1>3, <1>4, <1>5, InductionUpTo
  <1>7. ValidateLha(archive).state = "VALID" <=> Unharmed(archive, n)
    <2>1. walk[n].findings = {} <=> Unharmed(archive, n)
      BY <1>6 DEF S, Weighed
    <2> QED
      BY <1>2, <2>1, NoFindingIsValid DEF ValidateLha, FirstMember
  <1>8. Format(traits) = "LHA" <=> traits = {"lh0"}
    BY DEF Format, Traits
  <1>9. Unharmed(archive, n) <=> \A i \in DOMAIN archive : i <= MaxMembers => archive[i] = {}
    BY <1>1 DEF Unharmed
  <1> QED
    BY <1>7, <1>8, <1>9 DEF LhaIsReadWhole, AnalyzeArchive, TooLarge, Result

(***************************************************************************)
(* ISO 9660: the records at a place, and the directories of a volume.      *)
(***************************************************************************)

Places == Nat \X Nat
Fields == [kind : {"record", "padding", "malformed"}, extent : Nat, length : Nat, folder : BOOLEAN]

LEMMA RecordIs ==
  ASSUME NEW record \in Records
  PROVE  /\ record \in Fields /\ Place(record) \in Places
         /\ record.kind \in {"record", "padding", "malformed"} /\ record.folder \in BOOLEAN
         /\ record.kind = "padding" => Place(record) = <<0, 0>>
  <1>1. CASE record = Padding
    BY <1>1 DEF Padding, Place, Places, Fields
  <1>2. CASE record = Malformed
    BY <1>2 DEF Malformed, Place, Places, Fields
  <1>3. CASE record \in [kind : {"record"}, extent : Nat, length : Nat, folder : BOOLEAN]
    BY <1>3 DEF Place, Places, Fields
  <1> QED
    BY <1>1, <1>2, <1>3 DEF Records

LEMMA RowsAreRecords ==
  ASSUME NEW volume, IsVolume(volume)
  PROVE  /\ RowsOfSectors(volume) \subseteq Records
         /\ \A s \in 0 .. volume.size - 1 : volume.sectors[s] \in Seq(RowsOfSectors(volume))
  <1>1. DOMAIN volume.sectors = 0 .. volume.size - 1
    BY DEF IsVolume
  <1>2. ASSUME NEW s \in 0 .. volume.size - 1
        PROVE  /\ {volume.sectors[s][i] : i \in DOMAIN volume.sectors[s]} \subseteq Records
               /\ volume.sectors[s] \in Seq(RowsOfSectors(volume))
    <2>1. PICK rows \in Seq(Records) : rows = volume.sectors[s]
      BY DEF IsVolume
    <2>2. PICK n \in Nat : n = Len(rows) /\ DOMAIN rows = 1 .. n
      OBVIOUS
    <2>3. \A i \in 1 .. n : rows[i] \in RowsOfSectors(volume)
      BY <1>1, <2>1, <2>2 DEF RowsOfSectors
    <2>4. rows \in [1 .. n -> RowsOfSectors(volume)]
      BY <2>2, <2>3
    <2> QED
      BY <2>1, <2>2, <2>4
  <1> QED
    BY <1>1, <1>2 DEF RowsOfSectors

LEMMA PlaceLies ==
  ASSUME NEW volume, IsVolume(volume), NEW place \in Places, ~OutOfRange(volume, place)
  PROVE  \A i \in 1 .. place[2] : place[1] * volume.blockSize + i - 1 \in 0 .. volume.size - 1
  <1>1. place[1] * volume.blockSize \in Nat /\ place[2] \in Nat /\ volume.size \in Nat
    BY DEF IsVolume, Places
  <1>2. PICK first \in Nat : first = place[1] * volume.blockSize
    BY <1>1
  <1>3. first <= volume.size /\ place[2] <= volume.size - first
    BY <1>1, <1>2 DEF OutOfRange
  <1>4. \A i \in 1 .. place[2] : first + i - 1 \in 0 .. volume.size - 1
    BY <1>1, <1>3
  <1> QED
    BY <1>2, <1>4

LEMMA RowsAtIs ==
  ASSUME NEW volume, IsVolume(volume), NEW place \in Places, ~OutOfRange(volume, place)
  PROVE  RowsAt(volume, place) \in Seq(RowsOfSectors(volume))
  <1>1. PICK n \in Nat : n = place[2]
    BY DEF Places
  <1> DEFINE A == Seq(RowsOfSectors(volume))
             parts == [i \in 1 .. n |-> volume.sectors[place[1] * volume.blockSize + i - 1]]
             step == [pair \in A \X (1 .. n) |-> pair[1] \o parts[pair[2]]]
             fold == CHOOSE f : f = [s \in SUBSET (1 .. n) |->
                        IF s = {} THEN <<>> ELSE f[s \ {Highest(s)}] \o parts[Highest(s)]]
  <1>2. \A i \in 1 .. n : parts[i] \in A
    <2> TAKE i \in 1 .. n
    <2>1. PICK s \in 0 .. volume.size - 1 : s = place[1] * volume.blockSize + i - 1
      BY <1>1, PlaceLies
    <2>2. parts[i] = volume.sectors[s]
      BY <2>1
    <2> QED
      BY <2>2, RowsAreRecords
  <1>3. RowsAt(volume, place) = fold[1 .. n]
    <2>1. DOMAIN parts = 1 .. n
      OBVIOUS
    <2> QED
      BY <1>1, <2>1 DEF RowsAt, FoldLeft, MapThenFoldSet, Max, Highest
  <1> HIDE DEF parts
  <1>4. step \in [A \X (1 .. n) -> A]
    BY <1>2
  <1>5. <<>> \in A
    OBVIOUS
  <1>6. PICK some : Folds(A, <<>>, step, n, some)
    <2> HIDE DEF A, step
    <2> QED
      BY <1>4, <1>5, FoldExists
  <1>7. some = [s \in SUBSET (1 .. n) |->
                  IF s = {} THEN <<>> ELSE some[s \ {Highest(s)}] \o parts[Highest(s)]]
    <2> HIDE DEF A
    <2>1. ASSUME NEW s \in SUBSET (1 .. n), s # {}
          PROVE  some[s] = some[s \ {Highest(s)}] \o parts[Highest(s)]
      <3>1. Highest(s) \in s
        BY <2>1, HighestIsOne
      <3>2. some[s] = step[<<some[s \ {Highest(s)}], Highest(s)>>]
        BY <1>6, <2>1 DEF Folds, FoldAt
      <3>3. some[s \ {Highest(s)}] \in A /\ Highest(s) \in 1 .. n
        <4> HIDE DEF step
        <4> QED
          BY <1>6, <3>1 DEF Folds
      <3> QED
        BY <3>2, <3>3
    <2> HIDE DEF step
    <2>2. some[{}] = <<>>
      BY <1>6 DEF Folds, FoldAt
    <2> QED
      BY <1>6, <2>1, <2>2 DEF Folds
  <1>8. fold = [s \in SUBSET (1 .. n) |->
                  IF s = {} THEN <<>> ELSE fold[s \ {Highest(s)}] \o parts[Highest(s)]]
    BY <1>7
  <1> HIDE DEF fold
  <1> DEFINE S == {k \in Nat : fold[1 .. k] \in A}
  <1>9. 0 \in S
    <2>1. 1 .. 0 = {} /\ {} \in SUBSET (1 .. n)
      OBVIOUS
    <2> QED
      BY <1>5, <1>8, <2>1
  <1>10. ASSUME NEW k \in 1 .. n, k - 1 \in S PROVE k \in S
    <2>1. /\ 1 .. k \in SUBSET (1 .. n) /\ 1 .. k # {} /\ Highest(1 .. k) = k
          /\ (1 .. k) \ {k} = 1 .. (k - 1)
      BY UpTo
    <2>2. fold[1 .. k] = fold[1 .. (k - 1)] \o parts[k]
      BY <1>8, <2>1
    <2>3. PICK before \in A : before = fold[1 .. (k - 1)]
      BY <1>10
    <2>4. parts[k] \in A /\ before \o parts[k] \in A
      BY <1>2
    <2> HIDE DEF A
    <2>5. fold[1 .. k] \in A /\ k \in Nat
      BY <2>2, <2>3, <2>4
    <2> QED
      BY <2>5
  <1>11. S \in SUBSET Nat
    OBVIOUS
  <1> HIDE DEF S
  <1>12. n \in S
    BY <1>9, <1>10, <1>11, InductionUpTo
  <1> QED
    BY <1>3, <1>12 DEF S

\* The rows of a place one by one, and the directories among the first of them.
FoldersOf(rows, k) == {Place(rows[i]) : i \in {i \in 1 .. k : rows[i].kind = "record" /\ rows[i].folder}}
Entries(list) == {list[i] : i \in DOMAIN list}

LEMMA FoldersAtIs ==
  ASSUME NEW volume, IsVolume(volume), NEW place \in Places
  PROVE  /\ FoldersAt(volume, place) \subseteq PlacesNamed(volume)
         /\ ~OutOfRange(volume, place) =>
               FoldersAt(volume, place) = FoldersOf(RowsAt(volume, place), Len(RowsAt(volume, place)))
  <1>1. CASE OutOfRange(volume, place)
    BY <1>1 DEF FoldersAt
  <1>2. CASE ~OutOfRange(volume, place)
    <2>1. PICK rows \in Seq(RowsOfSectors(volume)) : rows = RowsAt(volume, place)
      BY <1>2, RowsAtIs
    <2>2. DOMAIN rows = 1 .. Len(rows) /\ \A i \in DOMAIN rows : rows[i] \in RowsOfSectors(volume)
      OBVIOUS
    <2>3. FoldersAt(volume, place) = FoldersOf(rows, Len(rows))
      BY <1>2, <2>1, <2>2 DEF FoldersAt, FoldersOf
    <2>4. FoldersOf(rows, Len(rows)) \subseteq PlacesNamed(volume)
      BY <2>2 DEF FoldersOf, PlacesNamed
    <2> QED
      BY <2>1, <2>3, <2>4
  <1> QED
    BY <1>1, <1>2

LEMMA NamedArePlaces ==
  ASSUME NEW volume, IsVolume(volume)
  PROVE  PlacesNamed(volume) \subseteq Places
  BY RowsAreRecords, RecordIs DEF PlacesNamed, IsVolume

LEMMA DirectoriesAre ==
  ASSUME NEW volume, IsVolume(volume)
  PROVE  /\ Directories(volume) \subseteq Places /\ Directories(volume) \subseteq PlacesNamed(volume)
         /\ Place(volume.root) \in Directories(volume)
         /\ \A place \in Directories(volume) : FoldersAt(volume, place) \subseteq Directories(volume)
         /\ \A set \in SUBSET Directories(volume) :
               Place(volume.root) \in set /\ (\A place \in set : FoldersAt(volume, place) \subseteq set)
                   => set = Directories(volume)
  <1>1. Directories(volume) \subseteq PlacesNamed(volume)
    BY DEF Directories
  <1>2. Place(volume.root) \in Directories(volume)
    BY DEF Directories, PlacesNamed
  <1>3. ASSUME NEW place \in Directories(volume), NEW inner \in FoldersAt(volume, place)
        PROVE  inner \in Directories(volume)
    <2>1. inner \in PlacesNamed(volume)
      BY <1>1, <1>3, FoldersAtIs, NamedArePlaces
    <2>2. ASSUME NEW set \in SUBSET PlacesNamed(volume), Place(volume.root) \in set,
                 \A p \in set : FoldersAt(volume, p) \subseteq set
          PROVE  inner \in set
      <3>1. place \in set
        BY <2>2 DEF Directories
      <3> QED
        BY <2>2, <3>1
    <2> QED
      BY <2>1, <2>2 DEF Directories
  <1>4. ASSUME NEW set \in SUBSET Directories(volume), Place(volume.root) \in set,
               \A place \in set : FoldersAt(volume, place) \subseteq set
        PROVE  set = Directories(volume)
    <2>1. set \in SUBSET PlacesNamed(volume)
      BY <1>1
    <2> QED
      BY <1>4, <2>1 DEF Directories
  <1> QED
    BY <1>1, <1>2, <1>3, <1>4, NamedArePlaces

(***************************************************************************)
(* One record, and a directory of them.                                    *)
(***************************************************************************)

IsoFindings ==
    {"ISO_FILE_EXTENT_OUT_OF_RANGE", "ISO_DIRECTORY_RECORD_MALFORMED",
     "ISO_DIRECTORY_EXTENT_OUT_OF_RANGE"}
IsoWalks ==
    [pending : Seq(Places), seen : SUBSET Places, nodes : Nat, findings : SUBSET IsoFindings,
     broken : BOOLEAN, raised : BOOLEAN]
IsFolder(record) == record.kind = "record" /\ record.folder
SoundRecord(volume, record) == record.kind # "malformed" /\ ~OutOfRange(volume, Place(record))

\* What a record may do to a walk, and what a sound one does.
Met(volume, record, walk, next) ==
    /\ next.seen = walk.seen /\ walk.findings \subseteq next.findings
    /\ \/ next.nodes = walk.nodes /\ next.pending = walk.pending
       \/ /\ next.nodes = walk.nodes + 1
          /\ next.pending = IF IsFolder(record) THEN Append(walk.pending, Place(record))
                            ELSE walk.pending
       \/ next.nodes = walk.nodes + 1 /\ next.pending = walk.pending
    /\ next.raised => walk.raised \/ volume.blockSize = 0
MetInOrder(volume, record, walk, next) ==
    IF SoundRecord(volume, record)
    THEN /\ next.findings = walk.findings /\ ~next.broken /\ ~next.raised
         /\ next.nodes = walk.nodes + 1
         /\ next.pending = IF IsFolder(record) THEN Append(walk.pending, Place(record))
                           ELSE walk.pending
    ELSE next.findings # {}

LEMMA RecordIsRead ==
  ASSUME NEW volume, IsVolume(volume), NEW record \in Records, NEW walk \in IsoWalks,
         NEW next, next = ReadRecord(volume, walk, record)
  PROVE  /\ next \in IsoWalks /\ Met(volume, record, walk, next)
         /\ volume.blockSize # 0 /\ ~walk.broken /\ ~walk.raised =>
               MetInOrder(volume, record, walk, next)
  <1> DEFINE counted == [walk EXCEPT !.nodes = @ + 1]
             ranged == IF OutOfRange(volume, Place(record))
                       THEN Noted(counted, "ISO_FILE_EXTENT_OUT_OF_RANGE") ELSE counted
  <1>1. PICK place \in Places : place = Place(record)
    BY RecordIs
  <1>6. /\ walk.pending \in Seq(Places) /\ walk.seen \in SUBSET Places /\ walk.nodes \in Nat
        /\ walk.findings \in SUBSET IsoFindings /\ walk.broken \in BOOLEAN /\ walk.raised \in BOOLEAN
        /\ walk = [pending |-> walk.pending, seen |-> walk.seen, nodes |-> walk.nodes,
                   findings |-> walk.findings, broken |-> walk.broken, raised |-> walk.raised]
    BY DEF IsoWalks
  <1>2. PICK more \in Nat : more = walk.nodes + 1
    BY <1>6
  <1>3. PICK longer \in Seq(Places) : longer = Append(walk.pending, place)
    <2>1. PICK list \in Seq(Places) : list = walk.pending
      BY <1>6
    <2>2. Append(list, place) \in Seq(Places)
      OBVIOUS
    <2> QED
      BY <2>1, <2>2
  <1>4. PICK ranging \in SUBSET IsoFindings :
            ranging = IF OutOfRange(volume, place) THEN walk.findings \cup {"ISO_FILE_EXTENT_OUT_OF_RANGE"}
                      ELSE walk.findings
    <2>1. "ISO_FILE_EXTENT_OUT_OF_RANGE" \in IsoFindings
      BY DEF IsoFindings
    <2> QED
      BY <1>6, <2>1
  <1>5. PICK breaking \in SUBSET IsoFindings :
            breaking = walk.findings \cup {"ISO_DIRECTORY_RECORD_MALFORMED"}
    <2>1. "ISO_DIRECTORY_RECORD_MALFORMED" \in IsoFindings
      BY DEF IsoFindings
    <2> QED
      BY <1>6, <2>1
  <1>7. CASE walk.broken \/ walk.raised
    <2>1. next = walk
      BY <1>7 DEF ReadRecord
    <2> QED
      BY <1>7, <2>1 DEF Met
  <1>8. CASE ~(walk.broken \/ walk.raised) /\ record.kind = "padding"
    <2>1. next = [counted EXCEPT !.raised = (volume.blockSize = 0)]
      BY <1>8 DEF ReadRecord
    <2>0. PICK stuck \in BOOLEAN : stuck = (volume.blockSize = 0)
      OBVIOUS
    <2>2. next = [pending |-> walk.pending, seen |-> walk.seen, nodes |-> more,
                  findings |-> walk.findings, broken |-> walk.broken, raised |-> stuck]
      BY <1>2, <1>6, <2>1, <2>0
    <2>3. next \in IsoWalks
      BY <1>6, <2>2 DEF IsoWalks
    <2>4. Place(record) = <<0, 0>> /\ ~OutOfRange(volume, <<0, 0>>) /\ ~IsFolder(record)
      <3>1. volume.size \in Nat /\ volume.blockSize \in Nat /\ 0 * volume.blockSize = 0
        BY DEF IsVolume
      <3> QED
        BY <1>8, <3>1, RecordIs DEF OutOfRange, IsFolder
    <2>5. /\ next.seen = walk.seen /\ next.findings = walk.findings /\ next.nodes = walk.nodes + 1
          /\ next.pending = walk.pending /\ next.broken = walk.broken
          /\ next.raised = stuck
      BY <1>2, <2>2
    <2>6. SoundRecord(volume, record)
      BY <1>8, <2>4 DEF SoundRecord
    <2> QED
      BY <1>8, <2>3, <2>4, <2>5, <2>6, <2>0 DEF Met, MetInOrder
  <1>9. CASE ~(walk.broken \/ walk.raised) /\ record.kind = "malformed"
    <2>1. next = [Noted(counted, "ISO_DIRECTORY_RECORD_MALFORMED") EXCEPT !.broken = TRUE]
      BY <1>9 DEF ReadRecord
    <2>2. next = [pending |-> walk.pending, seen |-> walk.seen, nodes |-> more,
                  findings |-> breaking, broken |-> TRUE, raised |-> walk.raised]
      BY <1>2, <1>5, <1>6, <2>1 DEF Noted
    <2>3. next \in IsoWalks
      BY <1>6, <2>2 DEF IsoWalks
    <2> QED
      BY <1>2, <1>5, <1>9, <2>2, <2>3 DEF Met, MetInOrder, SoundRecord
  <1>10. CASE ~(walk.broken \/ walk.raised) /\ record.kind = "record"
    <2>1. next = IF record.folder THEN [ranged EXCEPT !.pending = Append(@, Place(record))] ELSE ranged
      BY <1>10 DEF ReadRecord
    <2>2. ranged = [pending |-> walk.pending, seen |-> walk.seen, nodes |-> more,
                    findings |-> ranging, broken |-> walk.broken, raised |-> walk.raised]
      BY <1>1, <1>2, <1>4, <1>6 DEF Noted
    <2> HIDE DEF ranged
    <2>3. next = [pending |-> IF record.folder THEN longer ELSE walk.pending,
                  seen |-> walk.seen, nodes |-> more,
                  findings |-> ranging, broken |-> walk.broken, raised |-> walk.raised]
      BY <1>1, <1>3, <2>1, <2>2
    <2>4. next \in IsoWalks
      BY <1>6, <2>3 DEF IsoWalks
    <2>5. IsFolder(record) <=> record.folder
      BY <1>10 DEF IsFolder
    <2>6. /\ next.seen = walk.seen /\ next.findings = ranging /\ next.nodes = walk.nodes + 1
          /\ next.pending = IF IsFolder(record) THEN Append(walk.pending, Place(record))
                            ELSE walk.pending
          /\ next.broken = walk.broken /\ next.raised = walk.raised
      BY <1>1, <1>2, <1>3, <2>3, <2>5
    <2>7. IF SoundRecord(volume, record) THEN ranging = walk.findings
          ELSE walk.findings \subseteq ranging /\ ranging # {}
      BY <1>1, <1>4, <1>10 DEF SoundRecord
    <2>8. walk.findings \subseteq ranging
      BY <1>4
    <2> HIDE DEF ranged, counted
    <2> QED
      BY <1>10, <2>4, <2>6, <2>7, <2>8 DEF Met, MetInOrder
  <1> QED
    BY <1>7, <1>8, <1>9, <1>10, RecordIs

RowsRead(volume, walk, rows) ==
    FoldLeft(LAMBDA read, record : ReadRecord(volume, read, record), walk, rows)
AreRead(volume, walk, rows, n, read) ==
    /\ read \in [0 .. n -> IsoWalks]
    /\ read[0] = walk /\ RowsRead(volume, walk, rows) = read[n]
    /\ \A k \in 1 .. n : read[k] = ReadRecord(volume, read[k - 1], rows[k])

LEMMA RecordsAreRead ==
  ASSUME NEW volume, IsVolume(volume), NEW n \in Nat, NEW rows \in [1 .. n -> Records],
         NEW walk \in IsoWalks
  PROVE  \E read : AreRead(volume, walk, rows, n, read)
  <1> DEFINE A == IsoWalks
             step == [pair \in A \X (1 .. n) |-> ReadRecord(volume, pair[1], rows[pair[2]])]
             fold == CHOOSE f : f = [s \in SUBSET (1 .. n) |->
                        IF s = {} THEN walk
                        ELSE ReadRecord(volume, f[s \ {Highest(s)}], rows[Highest(s)])]
  <1>1. RowsRead(volume, walk, rows) = fold[1 .. n]
    BY DEF RowsRead, FoldLeft, MapThenFoldSet, Max, Highest
  <1>2. step \in [A \X (1 .. n) -> A]
    <2>1. ASSUME NEW pair \in A \X (1 .. n) PROVE ReadRecord(volume, pair[1], rows[pair[2]]) \in A
      <3>1. pair[1] \in IsoWalks /\ rows[pair[2]] \in Records
        OBVIOUS
      <3> QED
        BY <3>1, RecordIsRead
    <2> HIDE DEF A
    <2> QED
      BY <2>1
  <1>3. PICK some : Folds(A, walk, step, n, some)
    <2> HIDE DEF A, step
    <2>1. walk \in A
      BY DEF A
    <2> QED
      BY <1>2, <2>1, FoldExists
  <1>4. some = [s \in SUBSET (1 .. n) |->
                  IF s = {} THEN walk
                  ELSE ReadRecord(volume, some[s \ {Highest(s)}], rows[Highest(s)])]
    <2> HIDE DEF A
    <2>1. ASSUME NEW s \in SUBSET (1 .. n), s # {}
          PROVE  some[s] = ReadRecord(volume, some[s \ {Highest(s)}], rows[Highest(s)])
      <3>1. Highest(s) \in s
        BY <2>1, HighestIsOne
      <3>2. some[s] = step[<<some[s \ {Highest(s)}], Highest(s)>>]
        BY <1>3, <2>1 DEF Folds, FoldAt
      <3>3. some[s \ {Highest(s)}] \in A /\ Highest(s) \in 1 .. n
        <4> HIDE DEF step
        <4> QED
          BY <1>3, <3>1 DEF Folds
      <3> QED
        BY <3>2, <3>3
    <2> HIDE DEF step
    <2>2. some[{}] = walk
      BY <1>3 DEF Folds, FoldAt
    <2> QED
      BY <1>3, <2>1, <2>2 DEF Folds
  <1>5. fold = [s \in SUBSET (1 .. n) |->
                  IF s = {} THEN walk
                  ELSE ReadRecord(volume, fold[s \ {Highest(s)}], rows[Highest(s)])]
    BY <1>4
  <1> HIDE DEF fold
  <1> DEFINE read == [k \in 0 .. n |-> fold[1 .. k]]
  <1>6. read[0] = walk
    <2>1. 1 .. 0 = {} /\ {} \in SUBSET (1 .. n)
      OBVIOUS
    <2> QED
      BY <1>5, <2>1
  <1>7. ASSUME NEW k \in 1 .. n PROVE read[k] = ReadRecord(volume, read[k - 1], rows[k])
    <2>1. /\ 1 .. k \in SUBSET (1 .. n) /\ 1 .. k # {} /\ Highest(1 .. k) = k
          /\ (1 .. k) \ {k} = 1 .. (k - 1)
      BY UpTo
    <2>2. fold[1 .. k] = ReadRecord(volume, fold[1 .. (k - 1)], rows[k])
      BY <1>5, <2>1
    <2> QED
      BY <2>2
  <1>8. read[n] = fold[1 .. n] /\ DOMAIN read = 0 .. n /\ read = [k \in 0 .. n |-> read[k]]
    OBVIOUS
  <1> HIDE DEF read
  <1> DEFINE S == {k \in Nat : read[k] \in A}
  <1>9. ASSUME NEW k \in 0 .. n PROVE read[k] \in A
    <2>1. ASSUME NEW i \in 1 .. k, i - 1 \in S PROVE i \in S
      <3>1. read[i - 1] \in IsoWalks /\ rows[i] \in Records
        BY <2>1
      <3>2. read[i] \in IsoWalks
        BY <1>7, <3>1, RecordIsRead
      <3> QED
        BY <3>2
    <2>2. 0 \in S /\ S \in SUBSET Nat /\ k \in Nat
      BY <1>6
    <2> HIDE DEF S
    <2>3. k \in S
      BY <2>1, <2>2, InductionUpTo
    <2> QED
      BY <2>3 DEF S
  <1>10. read \in [0 .. n -> IsoWalks]
    <2> HIDE DEF A
    <2>1. read \in [0 .. n -> A]
      BY <1>8, <1>9
    <2> QED
      BY <2>1 DEF A
  <1>11. AreRead(volume, walk, rows, n, read)
    BY <1>1, <1>6, <1>7, <1>8, <1>10 DEF AreRead
  <1> QED
    BY <1>11

LEMMA EntriesAre ==
  ASSUME NEW A, NEW list \in Seq(A)
  PROVE  /\ Entries(list) \subseteq A
         /\ \A x \in A : Entries(Append(list, x)) = Entries(list) \cup {x}
         /\ list # <<>> => /\ Front(list) \in Seq(A) /\ Last(list) \in A
                           /\ Len(Front(list)) = Len(list) - 1
                           /\ Entries(list) = Entries(Front(list)) \cup {Last(list)}
  <1>1. PICK n \in Nat : n = Len(list) /\ DOMAIN list = 1 .. n /\ \A i \in 1 .. n : list[i] \in A
    OBVIOUS
  <1>2. ASSUME NEW x \in A PROVE Entries(Append(list, x)) = Entries(list) \cup {x}
    <2>1. PICK longer : longer = Append(list, x)
      OBVIOUS
    <2>2. DOMAIN longer = 1 .. n + 1 /\ longer[n + 1] = x /\ \A i \in 1 .. n : longer[i] = list[i]
      BY <1>1, <2>1
    <2>3. \A i \in 1 .. n + 1 : i \in 1 .. n \/ i = n + 1
      OBVIOUS
    <2>4. n + 1 \in 1 .. n + 1 /\ \A i \in 1 .. n : i \in 1 .. n + 1
      OBVIOUS
    <2>5. Entries(longer) = Entries(list) \cup {x}
      BY <1>1, <2>2, <2>3, <2>4 DEF Entries
    <2> QED
      BY <2>1, <2>5
  <1>3. ASSUME list # <<>>
        PROVE  /\ Front(list) \in Seq(A) /\ Last(list) \in A
               /\ Len(Front(list)) = Len(list) - 1
               /\ Entries(list) = Entries(Front(list)) \cup {Last(list)}
    <2>1. n # 0
      BY <1>1, <1>3
    <2>2. PICK m \in Nat : n = m + 1
      <3>1. n - 1 \in Nat /\ n = (n - 1) + 1
        BY <2>1
      <3> QED
        BY <3>1
    <2>3. PICK front : front = Front(list)
      OBVIOUS
    <2>4. front \in Seq(A) /\ Len(front) = m /\ \A i \in 1 .. m : front[i] = list[i]
      <3>1. Len(list) - 1 = m
        BY <1>1, <2>2
      <3>2. front = SubSeq(list, 1, m)
        BY <2>3, <3>1 DEF Front
      <3> QED
        BY <1>1, <2>2, <3>2
    <2>5. Last(list) = list[m + 1]
      BY <1>1, <2>2 DEF Last
    <2>6. DOMAIN front = 1 .. m /\ DOMAIN list = 1 .. m + 1
      BY <1>1, <2>2, <2>4
    <2>7. m + 1 \in 1 .. m + 1 /\ \A i \in 1 .. m + 1 : i \in 1 .. m \/ i = m + 1
      OBVIOUS
    <2>8. \A i \in 1 .. m : i \in 1 .. m + 1
      OBVIOUS
    <2>9. Entries(list) = Entries(front) \cup {list[m + 1]}
      BY <2>4, <2>6, <2>7, <2>8 DEF Entries
    <2>10. Len(list) - 1 = m /\ list[m + 1] \in A
      BY <1>1, <2>2, <2>7
    <2> QED
      BY <2>3, <2>4, <2>5, <2>9, <2>10
  <1>4. Entries(list) \subseteq A
    BY <1>1 DEF Entries
  <1> QED
    BY <1>2, <1>3, <1>4

LEMMA FoldersOneMore ==
  ASSUME NEW rows, NEW k \in Nat
  PROVE  FoldersOf(rows, k + 1)
            = FoldersOf(rows, k) \cup (IF IsFolder(rows[k + 1]) THEN {Place(rows[k + 1])} ELSE {})
  <1>1. \A i \in 1 .. k + 1 : i \in 1 .. k \/ i = k + 1
    OBVIOUS
  <1>2. k + 1 \in 1 .. k + 1 /\ \A i \in 1 .. k : i \in 1 .. k + 1
    OBVIOUS
  <1> QED
    BY <1>1, <1>2 DEF FoldersOf, IsFolder

\* A directory of which k rows are read, begun at walk.
SoundRows(volume, rows, k) == \A i \in 1 .. k : SoundRecord(volume, rows[i])
Going(volume, walk, rows, k, read) ==
    /\ read.seen = walk.seen /\ walk.findings \subseteq read.findings
    /\ read.nodes <= walk.nodes + k
    /\ Len(read.pending) + walk.nodes <= Len(walk.pending) + read.nodes
    /\ Entries(walk.pending) \subseteq Entries(read.pending)
    /\ Entries(read.pending) \subseteq Entries(walk.pending) \cup FoldersOf(rows, k)
    /\ read.raised => volume.blockSize = 0
InOrderSoFar(volume, walk, rows, k, read) ==
    IF SoundRows(volume, rows, k)
    THEN /\ read.findings = walk.findings /\ ~read.broken /\ ~read.raised
         /\ read.nodes = walk.nodes + k
         /\ FoldersOf(rows, k) \subseteq Entries(read.pending)
    ELSE read.findings # {}

LEMMA GoingOn ==
  ASSUME NEW volume, IsVolume(volume), NEW n \in Nat, NEW rows \in [1 .. n -> Records],
         NEW walk \in IsoWalks, NEW k \in Nat, k < n, NEW read \in IsoWalks,
         Going(volume, walk, rows, k, read),
         volume.blockSize # 0 => InOrderSoFar(volume, walk, rows, k, read),
         NEW next, next = ReadRecord(volume, read, rows[k + 1])
  PROVE  /\ Going(volume, walk, rows, k + 1, next)
         /\ volume.blockSize # 0 => InOrderSoFar(volume, walk, rows, k + 1, next)
  <1>1. PICK record \in Records : record = rows[k + 1]
    <2>1. k + 1 \in 1 .. n
      OBVIOUS
    <2> QED
      BY <2>1
  <1>2. /\ next \in IsoWalks /\ Met(volume, record, read, next)
        /\ volume.blockSize # 0 /\ ~read.broken /\ ~read.raised =>
              MetInOrder(volume, record, read, next)
    BY <1>1, RecordIsRead
  <1>3. PICK folders : folders = IF IsFolder(record) THEN {Place(record)} ELSE {}
    OBVIOUS
  <1>4. FoldersOf(rows, k + 1) = FoldersOf(rows, k) \cup folders
    BY <1>1, <1>3, FoldersOneMore
  <1>5. PICK place \in Places : place = Place(record)
    BY RecordIs
  <1>6. PICK list \in Seq(Places) : list = read.pending
    BY DEF IsoWalks
  <1>7. /\ Entries(Append(list, place)) = Entries(list) \cup {place}
        /\ Len(Append(list, place)) = Len(list) + 1
    <2>1. \A x \in Places : Entries(Append(list, x)) = Entries(list) \cup {x}
      BY EntriesAre
    <2>2. Len(Append(list, place)) = Len(list) + 1
      OBVIOUS
    <2> QED
      BY <2>1, <2>2
  <1>8. /\ read.nodes \in Nat /\ walk.nodes \in Nat /\ next.nodes \in Nat /\ Len(walk.pending) \in Nat
        /\ Len(list) \in Nat
    BY <1>2 DEF IsoWalks
  <1>9. \/ next.nodes = read.nodes /\ next.pending = list
        \/ /\ next.nodes = read.nodes + 1
           /\ next.pending = IF IsFolder(record) THEN Append(list, place) ELSE list
        \/ next.nodes = read.nodes + 1 /\ next.pending = list
    BY <1>2, <1>5, <1>6 DEF Met
  <1>10. next.nodes = read.nodes \/ next.nodes = read.nodes + 1
    BY <1>9
  <1>11. /\ Entries(list) \subseteq Entries(next.pending)
         /\ Entries(next.pending) \subseteq Entries(list) \cup folders
    BY <1>3, <1>5, <1>7, <1>9
  <1>12. Len(next.pending) + read.nodes <= Len(list) + next.nodes
    <2>1. \/ next.nodes = read.nodes /\ Len(next.pending) = Len(list)
          \/ /\ next.nodes = read.nodes + 1
             /\ Len(next.pending) = Len(list) \/ Len(next.pending) = Len(list) + 1
      BY <1>7, <1>9
    <2>2. PICK a, b \in Nat : a = Len(next.pending) /\ b = Len(list)
      BY <1>8, <2>1
    <2>3. \/ next.nodes = read.nodes /\ a = b
          \/ next.nodes = read.nodes + 1 /\ (a = b \/ a = b + 1)
      BY ONLY <2>1, <2>2
    <2>4. PICK e, f \in Nat : e = read.nodes /\ f = next.nodes
      BY <1>8
    <2>5. (f = e /\ a = b) \/ (f = e + 1 /\ (a = b \/ a = b + 1))
      BY ONLY <2>3, <2>4
    <2>6. a + e <= b + f
      BY ONLY <2>5, a \in Nat, b \in Nat, e \in Nat, f \in Nat
    <2> QED
      BY ONLY <2>2, <2>4, <2>6
  <1>13. Going(volume, walk, rows, k + 1, next)
    <2>1. next.seen = walk.seen /\ walk.findings \subseteq next.findings
      BY <1>2 DEF Going, Met
    <2>2. next.raised => volume.blockSize = 0
      BY <1>2 DEF Going, Met
    <2>3. next.nodes <= walk.nodes + (k + 1)
      BY <1>8, <1>10 DEF Going
    <2>4. Len(next.pending) + walk.nodes <= Len(walk.pending) + next.nodes
      <3>1. PICK a \in Nat, b \in Nat, c \in Nat, d \in Nat :
                a = Len(next.pending) /\ b = Len(list) /\ c = Len(walk.pending) /\ d = walk.nodes
        BY <1>2, <1>8 DEF IsoWalks
      <3>2. b + d <= c + read.nodes
        BY <1>6, <3>1 DEF Going
      <3>3. a + read.nodes <= b + next.nodes
        BY <1>12, <3>1
      <3>4. PICK e \in Nat, f \in Nat : e = read.nodes /\ f = next.nodes
        BY <1>8
      <3>5. a + d <= c + f
        <4>1. b + d <= c + e /\ a + e <= b + f
          BY ONLY <3>2, <3>3, <3>4
        <4> QED
          BY ONLY <4>1, a \in Nat, b \in Nat, c \in Nat, d \in Nat, e \in Nat, f \in Nat
      <3> QED
        BY ONLY <3>1, <3>4, <3>5
    <2>5. /\ Entries(walk.pending) \subseteq Entries(next.pending)
          /\ Entries(next.pending) \subseteq Entries(walk.pending) \cup FoldersOf(rows, k + 1)
      BY <1>4, <1>6, <1>11 DEF Going
    <2> QED
      BY <2>1, <2>2, <2>3, <2>4, <2>5 DEF Going
  <1>14. ASSUME volume.blockSize # 0 PROVE InOrderSoFar(volume, walk, rows, k + 1, next)
    <2>1. SoundRows(volume, rows, k + 1) <=> SoundRows(volume, rows, k) /\ SoundRecord(volume, record)
      <3>1. \A i \in 1 .. k + 1 : i \in 1 .. k \/ i = k + 1
        OBVIOUS
      <3>2. k + 1 \in 1 .. k + 1 /\ \A i \in 1 .. k : i \in 1 .. k + 1
        OBVIOUS
      <3> QED
        BY <1>1, <3>1, <3>2 DEF SoundRows
    <2>2. CASE ~SoundRows(volume, rows, k)
      BY <1>2, <1>14, <2>1, <2>2 DEF InOrderSoFar, Met
    <2>3. CASE SoundRows(volume, rows, k)
      <3>1. /\ read.findings = walk.findings /\ ~read.broken /\ ~read.raised
            /\ read.nodes = walk.nodes + k /\ FoldersOf(rows, k) \subseteq Entries(list)
        BY <1>6, <1>14, <2>3 DEF InOrderSoFar
      <3>2. MetInOrder(volume, record, read, next)
        BY <1>2, <1>14, <3>1
      <3>3. CASE SoundRecord(volume, record)
        <4>1. /\ next.findings = walk.findings /\ ~next.broken /\ ~next.raised
              /\ next.nodes = read.nodes + 1
              /\ next.pending = IF IsFolder(record) THEN Append(list, place) ELSE list
          BY <1>5, <1>6, <3>1, <3>2, <3>3 DEF MetInOrder
        <4>2. next.nodes = walk.nodes + (k + 1)
          <5>1. PICK a \in Nat : a = walk.nodes
            BY <1>8
          <5>2. next.nodes = (a + k) + 1
            BY ONLY <3>1, <4>1, <5>1
          <5>3. (a + k) + 1 = a + (k + 1)
            BY ONLY a \in Nat, k \in Nat
          <5> QED
            BY ONLY <5>1, <5>2, <5>3
        <4>3. FoldersOf(rows, k + 1) \subseteq Entries(next.pending)
          BY <1>3, <1>4, <1>5, <1>7, <3>1, <4>1
        <4> QED
          BY <2>1, <2>3, <3>3, <4>1, <4>2, <4>3 DEF InOrderSoFar
      <3>4. CASE ~SoundRecord(volume, record)
        BY <2>1, <3>2, <3>4 DEF InOrderSoFar, MetInOrder
      <3> QED
        BY <3>3, <3>4
    <2> QED
      BY <2>2, <2>3
  <1> QED
    BY <1>13, <1>14

LEMMA DirectoryIsRead ==
  ASSUME NEW volume, IsVolume(volume), NEW place \in Places, ~OutOfRange(volume, place),
         NEW walk \in IsoWalks, ~walk.broken, ~walk.raised,
         NEW read, read = ReadDirectory(volume, walk, place)
  PROVE  /\ read \in IsoWalks
         /\ Going(volume, walk, RowsAt(volume, place), SizeAt(volume, place), read)
         /\ volume.blockSize # 0 =>
               InOrderSoFar(volume, walk, RowsAt(volume, place), SizeAt(volume, place), read)
  <1>1. PICK rows \in Seq(Records) : rows = RowsAt(volume, place)
    BY RowsAtIs, RowsAreRecords
  <1>2. PICK n \in Nat : n = Len(rows) /\ rows \in [1 .. n -> Records]
    OBVIOUS
  <1>11. PICK reads : AreRead(volume, walk, rows, n, reads)
    BY <1>2, RecordsAreRead
  <1>3. /\ reads \in [0 .. n -> IsoWalks]
        /\ reads[0] = walk /\ RowsRead(volume, walk, rows) = reads[n]
        /\ \A k \in 1 .. n : reads[k] = ReadRecord(volume, reads[k - 1], rows[k])
    BY <1>11 DEF AreRead
  <1>4. read = reads[n] /\ SizeAt(volume, place) = n
    BY <1>1, <1>2, <1>3 DEF ReadDirectory, RowsRead, SizeAt
  <1> DEFINE S == {k \in Nat : /\ Going(volume, walk, rows, k, reads[k])
                               /\ volume.blockSize # 0 => InOrderSoFar(volume, walk, rows, k, reads[k])}
  <1>5. 0 \in S
    <2>1. walk.nodes \in Nat /\ Len(walk.pending) \in Nat /\ FoldersOf(rows, 0) = {}
      BY DEF IsoWalks, FoldersOf
    <2>2. Going(volume, walk, rows, 0, walk)
      BY <2>1 DEF Going
    <2>3. InOrderSoFar(volume, walk, rows, 0, walk)
      BY <2>1 DEF InOrderSoFar, SoundRows
    <2> QED
      BY <1>3, <2>2, <2>3
  <1>6. ASSUME NEW k \in 1 .. n, k - 1 \in S PROVE k \in S
    <2>1. PICK before \in Nat : before = k - 1 /\ k = before + 1 /\ before < n /\ before \in 0 .. n
      OBVIOUS
    <2>2. reads[before] \in IsoWalks /\ reads[k] = ReadRecord(volume, reads[before], rows[before + 1])
      BY <1>3, <2>1
    <2>3. /\ Going(volume, walk, rows, before, reads[before])
          /\ volume.blockSize # 0 => InOrderSoFar(volume, walk, rows, before, reads[before])
      BY <1>6, <2>1
    <2>4. /\ Going(volume, walk, rows, before + 1, reads[k])
          /\ volume.blockSize # 0 => InOrderSoFar(volume, walk, rows, before + 1, reads[k])
      BY <1>2, <2>1, <2>2, <2>3, GoingOn
    <2> QED
      BY <2>1, <2>4
  <1>7. S \in SUBSET Nat
    OBVIOUS
  <1> HIDE DEF S
  <1>8. n \in S
    BY <1>5, <1>6, <1>7, InductionUpTo
  <1>9. /\ Going(volume, walk, rows, n, reads[n])
        /\ volume.blockSize # 0 => InOrderSoFar(volume, walk, rows, n, reads[n])
    BY <1>8 DEF S
  <1>10. reads[n] \in IsoWalks
    BY <1>3
  <1> QED
    BY <1>1, <1>4, <1>9, <1>10

(***************************************************************************)
(* One turn of the walk.                                                   *)
(***************************************************************************)

LEMMA SizeAtIs ==
  ASSUME NEW volume, IsVolume(volume), NEW place \in Places
  PROVE  /\ SizeAt(volume, place) \in Nat
         /\ SoundAt(volume, place) <=>
               ~OutOfRange(volume, place) /\ SoundRows(volume, RowsAt(volume, place), SizeAt(volume, place))
  <1>1. CASE OutOfRange(volume, place)
    BY <1>1 DEF SizeAt, SoundAt
  <1>2. CASE ~OutOfRange(volume, place)
    <2>1. PICK rows \in Seq(RowsOfSectors(volume)) : rows = RowsAt(volume, place)
      BY <1>2, RowsAtIs
    <2>2. DOMAIN rows = 1 .. Len(rows) /\ Len(rows) \in Nat
      OBVIOUS
    <2>3. SizeAt(volume, place) = Len(rows)
      BY <1>2, <2>1 DEF SizeAt
    <2> QED
      BY <1>2, <2>1, <2>2, <2>3 DEF SoundAt, SoundRows, SoundRecord
  <1> QED
    BY <1>1, <1>2

\* What a turn that reads a place makes of the walk, and of one in order.
Popped(walk) ==
    [walk EXCEPT !.pending = Front(@), !.seen = @ \cup {Last(walk.pending)}, !.broken = FALSE]
Stepped(volume, place, walk, next) ==
    /\ next.seen = walk.seen \cup {place} /\ walk.findings \subseteq next.findings
    /\ next.nodes <= walk.nodes + SizeAt(volume, place)
    /\ Len(next.pending) + walk.nodes + 1 <= Len(walk.pending) + next.nodes
    /\ Entries(walk.pending) \subseteq Entries(next.pending) \cup {place}
    /\ Entries(next.pending) \subseteq Entries(walk.pending) \cup FoldersAt(volume, place)
    /\ next.raised => volume.blockSize = 0
SteppedInOrder(volume, place, walk, next) ==
    IF place \in walk.seen THEN next.findings = walk.findings /\ next.nodes = walk.nodes
    ELSE IF SoundAt(volume, place)
    THEN /\ next.findings = walk.findings /\ next.nodes = walk.nodes + SizeAt(volume, place)
         /\ FoldersAt(volume, place) \subseteq Entries(next.pending)
    ELSE next.findings # {}

LEMMA PoppedIs ==
  ASSUME NEW walk \in IsoWalks, ~Halted(walk)
  PROVE  /\ Popped(walk) \in IsoWalks /\ Last(walk.pending) \in Places
         /\ Popped(walk).seen = walk.seen \cup {Last(walk.pending)}
         /\ Popped(walk).nodes = walk.nodes /\ Popped(walk).findings = walk.findings
         /\ ~Popped(walk).broken /\ ~Popped(walk).raised
         /\ Len(Popped(walk).pending) = Len(walk.pending) - 1
         /\ Entries(walk.pending) = Entries(Popped(walk).pending) \cup {Last(walk.pending)}
  <1>1. PICK list \in Seq(Places) : list = walk.pending
    BY DEF IsoWalks
  <1>2. list # <<>> /\ ~walk.raised
    BY <1>1 DEF Halted
  <1>3. /\ Front(list) \in Seq(Places) /\ Last(list) \in Places /\ Len(Front(list)) = Len(list) - 1
        /\ Entries(list) = Entries(Front(list)) \cup {Last(list)}
    BY <1>2, EntriesAre
  <1>4. PICK front \in Seq(Places), last \in Places : front = Front(list) /\ last = Last(list)
    BY <1>3
  <1>5. PICK seen \in SUBSET Places : seen = walk.seen \cup {last}
    BY DEF IsoWalks
  <1>6. /\ walk.nodes \in Nat /\ walk.findings \in SUBSET IsoFindings /\ walk.raised \in BOOLEAN
        /\ walk = [pending |-> walk.pending, seen |-> walk.seen, nodes |-> walk.nodes,
                   findings |-> walk.findings, broken |-> walk.broken, raised |-> walk.raised]
    BY DEF IsoWalks
  <1>7. Popped(walk) = [pending |-> front, seen |-> seen, nodes |-> walk.nodes,
                        findings |-> walk.findings, broken |-> FALSE, raised |-> walk.raised]
    <2>1. Front(walk.pending) = front /\ walk.seen \cup {Last(walk.pending)} = seen
      BY <1>1, <1>4, <1>5
    <2>2. Popped(walk) = [walk EXCEPT !.pending = front, !.seen = seen, !.broken = FALSE]
      BY <2>1 DEF Popped
    <2> QED
      BY <2>2 DEF IsoWalks
  <1>8. Popped(walk) \in IsoWalks
    BY <1>6, <1>7 DEF IsoWalks
  <1>9. /\ Popped(walk).pending = front /\ Popped(walk).seen = seen
        /\ Popped(walk).nodes = walk.nodes /\ Popped(walk).findings = walk.findings
        /\ Popped(walk).broken = FALSE /\ Popped(walk).raised = walk.raised
    BY <1>7
  <1> QED
    BY <1>1, <1>2, <1>3, <1>4, <1>5, <1>8, <1>9

LEMMA IsoTurnIs ==
  ASSUME NEW volume, IsVolume(volume), NEW walk \in IsoWalks, NEW next, next = WalkOne(volume, walk)
  PROVE  /\ next \in IsoWalks
         /\ Halted(walk) => next = walk
         /\ ~Halted(walk) =>
               /\ Stepped(volume, Last(walk.pending), walk, next)
               /\ volume.blockSize # 0 => SteppedInOrder(volume, Last(walk.pending), walk, next)
  <1>1. CASE Halted(walk)
    BY <1>1 DEF WalkOne
  <1>2. CASE ~Halted(walk)
    <2>1. PICK popped \in IsoWalks : popped = Popped(walk)
      BY <1>2, PoppedIs
    <2>2. PICK place \in Places : place = Last(walk.pending)
      BY <1>2, PoppedIs
    <2>3. /\ popped.seen = walk.seen \cup {place} /\ popped.nodes = walk.nodes
          /\ popped.findings = walk.findings /\ ~popped.broken /\ ~popped.raised
          /\ Len(popped.pending) = Len(walk.pending) - 1
          /\ Entries(walk.pending) = Entries(popped.pending) \cup {place}
      BY <1>2, <2>1, <2>2, PoppedIs
    <2>4. next = IF place \in walk.seen THEN popped
                 ELSE IF OutOfRange(volume, place)
                 THEN Noted(popped, "ISO_DIRECTORY_EXTENT_OUT_OF_RANGE")
                 ELSE ReadDirectory(volume, popped, place)
      BY <1>2, <2>1, <2>2 DEF WalkOne, Popped
    <2>5. /\ Len(popped.pending) \in Nat /\ Len(walk.pending) \in Nat /\ walk.nodes \in Nat
          /\ SizeAt(volume, place) \in Nat /\ SizeAt(volume, place) + 0 = SizeAt(volume, place)
      BY SizeAtIs DEF IsoWalks
    <2>6. Len(popped.pending) + walk.nodes + 1 <= Len(walk.pending) + popped.nodes
      BY <2>3, <2>5
    <2>7. CASE place \in walk.seen
      <3>1. next = popped
        BY <2>4, <2>7
      <3>2. next.nodes <= walk.nodes + SizeAt(volume, place)
        BY <2>3, <2>5, <3>1
      <3>3. Stepped(volume, place, walk, next)
        BY <2>3, <2>6, <3>1, <3>2 DEF Stepped
      <3>4. SteppedInOrder(volume, place, walk, next)
        BY <2>3, <2>7, <3>1 DEF SteppedInOrder
      <3> QED
        BY <1>2, <2>2, <3>1, <3>3, <3>4
    <2>8. CASE place \notin walk.seen /\ OutOfRange(volume, place)
      <3>1. PICK findings \in SUBSET IsoFindings :
               findings = walk.findings \cup {"ISO_DIRECTORY_EXTENT_OUT_OF_RANGE"}
        <4>1. "ISO_DIRECTORY_EXTENT_OUT_OF_RANGE" \in IsoFindings /\ walk.findings \in SUBSET IsoFindings
          BY DEF IsoFindings, IsoWalks
        <4> QED
          BY <4>1
      <3>2. next = [popped EXCEPT !.findings = findings]
        BY <2>3, <2>4, <2>8, <3>1 DEF Noted
      <3>3. /\ next \in IsoWalks /\ next.findings = findings /\ next.seen = popped.seen
            /\ next.nodes = popped.nodes /\ next.pending = popped.pending /\ next.raised = popped.raised
        BY <3>2 DEF IsoWalks
      <3>4. next.nodes <= walk.nodes + SizeAt(volume, place)
        BY <2>3, <2>5, <3>3
      <3>5. Stepped(volume, place, walk, next)
        BY <2>3, <2>6, <3>1, <3>3, <3>4 DEF Stepped
      <3>6. SteppedInOrder(volume, place, walk, next)
        BY <2>8, <3>1, <3>3 DEF SteppedInOrder, SoundAt
      <3> QED
        BY <1>2, <2>2, <3>3, <3>5, <3>6
    <2>9. CASE place \notin walk.seen /\ ~OutOfRange(volume, place)
      <3> DEFINE rows == RowsAt(volume, place)
                 n == SizeAt(volume, place)
      <3>1. rows = RowsAt(volume, place) /\ n = SizeAt(volume, place)
        OBVIOUS
      <3> HIDE DEF rows, n
      <3>2. /\ next \in IsoWalks /\ Going(volume, popped, rows, n, next)
            /\ volume.blockSize # 0 => InOrderSoFar(volume, popped, rows, n, next)
        <4>1. next = ReadDirectory(volume, popped, place)
          BY <2>4, <2>9
        <4> QED
          BY <2>3, <2>9, <3>1, <4>1, DirectoryIsRead
      <3>3. FoldersAt(volume, place) = FoldersOf(rows, n)
        BY <2>9, <3>1, FoldersAtIs DEF SizeAt
      <3>4. Len(next.pending) + walk.nodes + 1 <= Len(walk.pending) + next.nodes
        <4>1. Len(next.pending) + popped.nodes <= Len(popped.pending) + next.nodes
          BY <3>2 DEF Going
        <4>2. PICK a \in Nat, b \in Nat, c \in Nat, d \in Nat :
                 /\ a = Len(next.pending) /\ b = Len(popped.pending) /\ c = Len(walk.pending)
                 /\ d = next.nodes
          BY <2>5, <3>2 DEF IsoWalks
        <4>3. a + walk.nodes <= b + d /\ b = c - 1
          BY <2>3, <4>1, <4>2
        <4>4. a + walk.nodes + 1 <= c + d
          BY <2>5, <4>3
        <4> QED
          BY <4>2, <4>4
      <3>5. Stepped(volume, place, walk, next)
        BY <2>3, <3>1, <3>2, <3>3, <3>4 DEF Stepped, Going
      <3>6. ASSUME volume.blockSize # 0 PROVE SteppedInOrder(volume, place, walk, next)
        <4>1. SoundAt(volume, place) <=> SoundRows(volume, rows, n)
          BY <2>9, <3>1, SizeAtIs
        <4>2. InOrderSoFar(volume, popped, rows, n, next)
          BY <3>2, <3>6
        <4> QED
          BY <2>3, <2>9, <3>1, <3>3, <4>1, <4>2 DEF SteppedInOrder, InOrderSoFar
      <3> QED
        BY <1>2, <2>2, <3>2, <3>5, <3>6
    <2> QED
      BY <2>7, <2>8, <2>9
  <1> QED
    BY <1>1, <1>2

FirstTurn(volume) ==
    [pending |-> <<Place(volume.root)>>, seen |-> {}, nodes |-> 0, findings |-> {},
     broken |-> FALSE, raised |-> FALSE]
Turns(volume, walk) ==
    /\ walk \in [0 .. MaxIsoNodes -> IsoWalks] /\ walk[0] = FirstTurn(volume)
    /\ \A turn \in 1 .. MaxIsoNodes : walk[turn] = WalkOne(volume, walk[turn - 1])
Finished(last) ==
    IF ~last.raised /\ Limited(last) THEN Noted(last, "ISO_DIRECTORY_NODE_LIMIT") ELSE last

LEMMA FirstTurnIs ==
  ASSUME NEW volume, IsVolume(volume)
  PROVE  /\ FirstTurn(volume) \in IsoWalks
         /\ Entries(FirstTurn(volume).pending) = {Place(volume.root)}
         /\ Len(FirstTurn(volume).pending) = 1
  <1>1. PICK place \in Places : place = Place(volume.root)
    BY RecordIs DEF IsVolume
  <1>2. PICK list \in Seq(Places) : list = <<place>>
    <2>1. <<place>> \in Seq(Places)
      OBVIOUS
    <2> QED
      BY <2>1
  <1>3. Len(list) = 1 /\ DOMAIN list = {1} /\ list[1] = place
    BY <1>2
  <1>4. FirstTurn(volume) = [pending |-> list, seen |-> {}, nodes |-> 0, findings |-> {},
                             broken |-> FALSE, raised |-> FALSE]
    BY <1>1, <1>2 DEF FirstTurn
  <1>5. FirstTurn(volume) \in IsoWalks /\ FirstTurn(volume).pending = list
    BY <1>4 DEF IsoWalks
  <1>6. Entries(list) = {place}
    BY <1>3 DEF Entries
  <1> QED
    BY <1>1, <1>3, <1>5, <1>6

LEMMA IsoWalkIs ==
  ASSUME NEW volume, IsVolume(volume)
  PROVE  \E walk : Turns(volume, walk) /\ IsoWalk(volume) = Finished(walk[MaxIsoNodes])
  <1> DEFINE A == IsoWalks
             step == [walk \in A |-> WalkOne(volume, walk)]
             walk == CHOOSE w : w = [turn \in 0 .. MaxIsoNodes |->
                        IF turn = 0 THEN FirstTurn(volume) ELSE WalkOne(volume, w[turn - 1])]
  <1>1. IsoWalk(volume) = Finished(walk[MaxIsoNodes])
    BY DEF IsoWalk, FirstTurn, Finished
  <1>2. PICK n \in Nat : n = MaxIsoNodes
    BY MediaAssumption
  <1>3. FirstTurn(volume) \in A
    BY FirstTurnIs
  <1>4. step \in [A -> A]
    BY IsoTurnIs
  <1>5. PICK some : Iterates(A, FirstTurn(volume), step, n, some)
    <2> HIDE DEF step, A
    <2> QED
      BY <1>3, <1>4, IterationExists
  <1>6. some = [turn \in 0 .. n |-> IF turn = 0 THEN FirstTurn(volume) ELSE WalkOne(volume, some[turn - 1])]
    <2>1. ASSUME NEW turn \in 0 .. n, turn # 0 PROVE step[some[turn - 1]] = WalkOne(volume, some[turn - 1])
      <3>1. some[turn - 1] \in A
        <4> HIDE DEF A, step
        <4>1. some \in [0 .. n -> A]
          BY <1>5 DEF Iterates
        <4>2. turn - 1 \in 0 .. n
          BY <2>1
        <4> QED
          BY <4>1, <4>2
      <3> QED
        BY <3>1
    <2> HIDE DEF step
    <2> QED
      BY <1>5, <2>1 DEF Iterates
  <1>7. walk = [turn \in 0 .. n |-> IF turn = 0 THEN FirstTurn(volume) ELSE WalkOne(volume, walk[turn - 1])]
    BY <1>2, <1>6
  <1> HIDE DEF walk
  <1> DEFINE S == {k \in Nat : walk[k] \in A}
  <1>8. \A k \in 1 .. n : walk[k] = WalkOne(volume, walk[k - 1])
    BY <1>7
  <1>9. walk[0] = FirstTurn(volume)
    BY <1>7
  <1>10. \A k \in 0 .. n : walk[k] \in A
    <2> SUFFICES ASSUME NEW k \in 0 .. n PROVE walk[k] \in A
      OBVIOUS
    <2>1. ASSUME NEW i \in 1 .. k, i - 1 \in S PROVE i \in S
      <3>1. walk[i - 1] \in IsoWalks /\ walk[i] = WalkOne(volume, walk[i - 1])
        BY <1>8, <2>1
      <3>2. walk[i] \in IsoWalks
        BY <3>1, IsoTurnIs
      <3> QED
        BY <3>2
    <2>2. 0 \in S /\ S \in SUBSET Nat /\ k \in Nat
      BY <1>3, <1>9
    <2> HIDE DEF S
    <2>3. k \in S
      BY <2>1, <2>2, InductionUpTo
    <2> QED
      BY <2>3 DEF S
  <1>11. walk \in [0 .. n -> A]
    <2>1. DOMAIN walk = 0 .. n /\ walk = [k \in 0 .. n |-> walk[k]]
      BY <1>7
    <2> QED
      BY <1>10, <2>1
  <1>12. Turns(volume, walk)
    BY <1>2, <1>8, <1>9, <1>11 DEF Turns
  <1> QED
    BY <1>1, <1>12

(***************************************************************************)
(* The nodes of some places, and that those of a volume are finite.        *)
(***************************************************************************)

LEMMA NodesOneMore ==
  ASSUME NEW volume, IsVolume(volume), NEW places \in SUBSET Places, NEW place \in Places,
         place \notin places, IsFiniteSet(Nodes(volume, places))
  PROVE  /\ IsFiniteSet(Nodes(volume, places \cup {place}))
         /\ Cardinality(Nodes(volume, places \cup {place}))
               = Cardinality(Nodes(volume, places)) + SizeAt(volume, place)
  <1>1. PICK n \in Nat : n = SizeAt(volume, place)
    BY SizeAtIs
  <1> DEFINE old == Nodes(volume, places)
             new == {place} \X (1 .. n)
  <1>2. Nodes(volume, places \cup {place}) = old \cup new
    BY <1>1 DEF Nodes
  <1>3. old \cap new = {}
    BY DEF Nodes
  <1>4. IsFiniteSet({place}) /\ Cardinality({place}) = 1
    BY FS_Singleton
  <1>5. IsFiniteSet(1 .. n) /\ Cardinality(1 .. n) = n
    <2>1. 1 \in Int /\ n \in Int
      OBVIOUS
    <2>2. IsFiniteSet(1 .. n) /\ Cardinality(1 .. n) = IF 1 > n THEN 0 ELSE n - 1 + 1
      BY ONLY <2>1, FS_Interval
    <2> QED
      BY <2>2
  <1>6. IsFiniteSet(new) /\ Cardinality(new) = Cardinality({place}) * Cardinality(1 .. n)
    <2>1. IsFiniteSet({place}) /\ IsFiniteSet(1 .. n)
      BY <1>4, <1>5
    <2> QED
      BY ONLY <2>1, FS_Product
  <1>7. Cardinality(new) = n
    BY <1>4, <1>5, <1>6
  <1> HIDE DEF old, new
  <1>8. IsFiniteSet(old)
    BY DEF old
  <1>9. /\ IsFiniteSet(old \cup new)
        /\ Cardinality(old \cup new) = Cardinality(old) + Cardinality(new) - Cardinality(old \cap new)
    BY ONLY <1>6, <1>8, FS_Union
  <1>10. Cardinality(old \cap new) = 0 /\ Cardinality(old) \in Nat
    BY <1>3, <1>8, FS_EmptySet, FS_CardinalityType
  <1>11. Cardinality(old \cup new) = Cardinality(old) + n
    <2>1. PICK card \in Nat : card = Cardinality(old)
      BY <1>10
    <2>2. Cardinality(old \cup new) = card + n - 0
      BY <1>7, <1>9, <1>10, <2>1
    <2> QED
      BY <2>1, <2>2
  <1>12. IsFiniteSet(old \cup new)
    BY <1>9
  <1> QED
    BY <1>1, <1>2, <1>11, <1>12 DEF old

LEMMA ImageIsFinite ==
  ASSUME NEW S, IsFiniteSet(S), NEW f, NEW T, T = {f[x] : x \in S}
  PROVE  IsFiniteSet(T)
  <1> DEFINE g == [x \in S |-> f[x]]
  <1>1. g \in Surjection(S, T)
    BY DEF Surjection
  <1> HIDE DEF g
  <1> QED
    BY <1>1, FS_Surjection

LEMMA IntervalIsFinite ==
  ASSUME NEW n \in Nat
  PROVE  IsFiniteSet(1 .. n) /\ IsFiniteSet(0 .. n - 1)
  <1>1. 1 \in Int /\ n \in Int /\ 0 \in Int /\ n - 1 \in Int
    OBVIOUS
  <1>2. IsFiniteSet(1 .. n)
    BY ONLY <1>1, FS_Interval
  <1>3. IsFiniteSet(0 .. n - 1)
    <2>1. PICK m \in Int : m = n - 1
      BY <1>1
    <2>2. IsFiniteSet(0 .. m)
      BY ONLY <1>1, FS_Interval
    <2> QED
      BY <2>1, <2>2
  <1> QED
    BY <1>2, <1>3

LEMMA NamedAreFinite ==
  ASSUME NEW volume, IsVolume(volume)
  PROVE  IsFiniteSet(PlacesNamed(volume))
  <1>1. DOMAIN volume.sectors = 0 .. volume.size - 1 /\ volume.size \in Nat
    BY DEF IsVolume
  <1> DEFINE sets == [s \in DOMAIN volume.sectors |->
                        {volume.sectors[s][i] : i \in DOMAIN volume.sectors[s]}]
             parts == {sets[s] : s \in DOMAIN volume.sectors}
             places == [record \in RowsOfSectors(volume) |-> Place(record)]
             named == {places[record] : record \in RowsOfSectors(volume)}
  <1>2. IsFiniteSet(DOMAIN volume.sectors)
    BY <1>1, IntervalIsFinite
  <1>3. IsFiniteSet(parts)
    <2> HIDE DEF sets
    <2> QED
      BY <1>2, ImageIsFinite
  <1>4. ASSUME NEW set \in parts PROVE IsFiniteSet(set)
    <2>1. PICK s \in DOMAIN volume.sectors :
              set = {volume.sectors[s][i] : i \in DOMAIN volume.sectors[s]}
      BY <1>4
    <2>2. PICK rows \in Seq(Records) : rows = volume.sectors[s]
      BY <1>1, <2>1 DEF IsVolume
    <2>3. PICK n \in Nat : DOMAIN rows = 1 .. n
      OBVIOUS
    <2>4. IsFiniteSet(DOMAIN rows)
      BY <2>3, IntervalIsFinite
    <2> QED
      BY <2>1, <2>2, <2>4, ImageIsFinite
  <1>5. RowsOfSectors(volume) = UNION parts
    <2>1. parts = {{volume.sectors[s][i] : i \in DOMAIN volume.sectors[s]} : s \in DOMAIN volume.sectors}
      OBVIOUS
    <2> HIDE DEF parts
    <2> QED
      BY <2>1 DEF RowsOfSectors
  <1> HIDE DEF parts
  <1>6. IsFiniteSet(RowsOfSectors(volume))
    BY <1>3, <1>4, <1>5, FS_UNION
  <1>7. IsFiniteSet(named)
    <2> HIDE DEF places
    <2> QED
      BY <1>6, ImageIsFinite
  <1>8. PlacesNamed(volume) = named \cup {Place(volume.root)}
    BY DEF PlacesNamed
  <1> HIDE DEF named
  <1> QED
    BY <1>7, <1>8, FS_AddElement

LEMMA NodesAreFinite ==
  ASSUME NEW volume, IsVolume(volume)
  PROVE  /\ IsFiniteSet(Nodes(volume, Directories(volume)))
         /\ \A places \in SUBSET Directories(volume) :
               Cardinality(Nodes(volume, places)) <= Cardinality(Nodes(volume, Directories(volume)))
  <1>1. IsFiniteSet(Directories(volume))
    BY NamedAreFinite, DirectoriesAre, FS_Subset
  <1> DEFINE sets == [place \in Directories(volume) |-> {place} \X (1 .. SizeAt(volume, place))]
             parts == {sets[place] : place \in Directories(volume)}
  <1>2. IsFiniteSet(parts)
    <2> HIDE DEF sets
    <2> QED
      BY <1>1, ImageIsFinite
  <1>3. ASSUME NEW set \in parts PROVE IsFiniteSet(set)
    <2>1. PICK place \in Directories(volume) : set = {place} \X (1 .. SizeAt(volume, place))
      BY <1>3
    <2>2. PICK n \in Nat : n = SizeAt(volume, place)
      BY DirectoriesAre, SizeAtIs
    <2>3. IsFiniteSet({place}) /\ IsFiniteSet(1 .. SizeAt(volume, place))
      BY <2>2, IntervalIsFinite, FS_Singleton
    <2> QED
      BY ONLY <2>1, <2>3, FS_Product
  <1>4. Nodes(volume, Directories(volume)) = UNION parts
    BY DEF Nodes
  <1> HIDE DEF parts
  <1>5. IsFiniteSet(Nodes(volume, Directories(volume)))
    BY <1>2, <1>3, <1>4, FS_UNION
  <1>6. ASSUME NEW places \in SUBSET Directories(volume)
        PROVE  Cardinality(Nodes(volume, places)) <= Cardinality(Nodes(volume, Directories(volume)))
    <2>1. Nodes(volume, places) \in SUBSET Nodes(volume, Directories(volume))
      BY DEF Nodes
    <2> QED
      BY ONLY <1>5, <2>1, FS_Subset
  <1> QED
    BY <1>5, <1>6

(***************************************************************************)
(* The invariant of the walk: what is pending and seen are directories of  *)
(* the volume, the turns are no more than the nodes, and as long as there  *)
(* is no finding everything seen is sound and counted and what it names is *)
(* pending or seen.                                                        *)
(***************************************************************************)

OnTheWay(volume, walk) ==
    /\ Entries(walk.pending) \subseteq Directories(volume) /\ walk.seen \subseteq Directories(volume)
    /\ Place(volume.root) \in Entries(walk.pending) \cup walk.seen
    /\ walk.raised => volume.blockSize = 0
InTurns(volume, walk, turn) ==
    Halted(walk) \/ turn + Len(walk.pending) <= 1 + walk.nodes
Counted(volume, walk) ==
    /\ IsFiniteSet(Nodes(volume, walk.seen))
    /\ volume.blockSize # 0 /\ walk.findings = {} =>
          /\ \A place \in walk.seen : /\ SoundAt(volume, place)
                                      /\ FoldersAt(volume, place) \subseteq Entries(walk.pending) \cup walk.seen
          /\ walk.nodes = Cardinality(Nodes(volume, walk.seen))
AllSound(volume) == \A place \in Directories(volume) : SoundAt(volume, place)
Underway(volume, walk, turn) ==
    /\ OnTheWay(volume, walk) /\ InTurns(volume, walk, turn) /\ Counted(volume, walk)
    /\ volume.blockSize # 0 /\ AllSound(volume) => walk.findings = {}

LEMMA AtFirst ==
  ASSUME NEW volume, IsVolume(volume)
  PROVE  Underway(volume, FirstTurn(volume), 0)
  <1> DEFINE walk == FirstTurn(volume)
  <1>1. /\ Entries(walk.pending) = {Place(volume.root)} /\ Len(walk.pending) = 1
        /\ walk.seen = {} /\ walk.nodes = 0 /\ walk.findings = {} /\ ~walk.raised
    BY FirstTurnIs DEF FirstTurn
  <1>2. Nodes(volume, walk.seen) = {}
    BY <1>1 DEF Nodes
  <1>3. SizeAt(volume, Place(volume.root)) \in Nat
    BY DirectoriesAre, SizeAtIs
  <1> HIDE DEF walk
  <1>4. OnTheWay(volume, walk)
    BY <1>1, DirectoriesAre DEF OnTheWay
  <1>5. InTurns(volume, walk, 0)
    BY <1>1, <1>3, DirectoriesAre, MediaAssumption DEF InTurns
  <1>6. Counted(volume, walk)
    BY <1>1, <1>2, FS_EmptySet DEF Counted
  <1> QED
    BY <1>1, <1>4, <1>5, <1>6 DEF Underway, walk

LEMMA OneTurnOn ==
  ASSUME NEW volume, IsVolume(volume), NEW walk \in IsoWalks, NEW turn \in Nat,
         Underway(volume, walk, turn), NEW next, next = WalkOne(volume, walk)
  PROVE  Underway(volume, next, turn + 1)
  <1>1. CASE Halted(walk)
    <2>1. next = walk
      BY <1>1, IsoTurnIs
    <2> QED
      BY <1>1, <2>1 DEF Underway, InTurns
  <1>2. CASE ~Halted(walk)
    <2>1. PICK place \in Places : place = Last(walk.pending) /\ place \in Entries(walk.pending)
      BY <1>2, PoppedIs
    <2>2. /\ next \in IsoWalks /\ Stepped(volume, place, walk, next)
          /\ volume.blockSize # 0 => SteppedInOrder(volume, place, walk, next)
      BY <1>2, <2>1, IsoTurnIs
    <2>3. place \in Directories(volume) /\ FoldersAt(volume, place) \subseteq Directories(volume)
      BY <2>1, DirectoriesAre DEF Underway, OnTheWay
    <2>4. OnTheWay(volume, next)
      BY <2>2, <2>3 DEF Underway, OnTheWay, Stepped
    <2>5. InTurns(volume, next, turn + 1)
      <3>1. walk.nodes \in Nat /\ next.nodes \in Nat
        BY <2>2 DEF IsoWalks
      <3>2. PICK before \in Nat, after \in Nat : before = Len(walk.pending) /\ after = Len(next.pending)
        BY <2>2 DEF IsoWalks
      <3>3. turn + before <= 1 + walk.nodes /\ after + walk.nodes + 1 <= before + next.nodes
        BY <1>2, <2>2, <3>2 DEF Underway, InTurns, Stepped
      <3>4. turn + 1 + after <= 1 + next.nodes
        BY <3>1, <3>3
      <3> QED
        BY <3>2, <3>4 DEF InTurns
    <2>6. walk.findings \subseteq next.findings /\ next.seen = walk.seen \cup {place}
      BY <2>2 DEF Stepped
    <2>7. CASE place \in walk.seen
      <3>1. next.seen = walk.seen
        BY <2>6, <2>7
      <3>2. ASSUME volume.blockSize # 0 PROVE next.findings = walk.findings /\ next.nodes = walk.nodes
        BY <2>2, <2>7, <3>2 DEF SteppedInOrder
      <3>3. Entries(walk.pending) \cup walk.seen \subseteq Entries(next.pending) \cup next.seen
        BY <2>2, <2>7, <3>1 DEF Stepped
      <3>4. Counted(volume, next)
        BY <3>1, <3>2, <3>3 DEF Underway, Counted
      <3> QED
        BY <2>4, <2>5, <3>2, <3>4 DEF Underway
    <2>8. CASE place \notin walk.seen
      <3>1. walk.seen \in SUBSET Places /\ IsFiniteSet(Nodes(volume, walk.seen))
        BY DEF IsoWalks, Underway, Counted
      <3>2. /\ IsFiniteSet(Nodes(volume, next.seen))
            /\ Cardinality(Nodes(volume, next.seen))
                  = Cardinality(Nodes(volume, walk.seen)) + SizeAt(volume, place)
        BY <2>6, <2>8, <3>1, NodesOneMore
      <3>3. ASSUME volume.blockSize # 0
            PROVE  IF SoundAt(volume, place)
                   THEN /\ next.findings = walk.findings
                        /\ next.nodes = walk.nodes + SizeAt(volume, place)
                        /\ FoldersAt(volume, place) \subseteq Entries(next.pending)
                   ELSE next.findings # {}
        BY <2>2, <2>8, <3>3 DEF SteppedInOrder
      <3>4. Entries(walk.pending) \cup walk.seen \subseteq Entries(next.pending) \cup next.seen
        BY <2>2, <2>6 DEF Stepped
      <3>5. ASSUME volume.blockSize # 0, next.findings = {}
            PROVE  /\ \A p \in next.seen : /\ SoundAt(volume, p)
                                           /\ FoldersAt(volume, p) \subseteq Entries(next.pending) \cup next.seen
                   /\ next.nodes = Cardinality(Nodes(volume, next.seen))
        <4>1. /\ walk.findings = {} /\ SoundAt(volume, place)
              /\ next.nodes = walk.nodes + SizeAt(volume, place)
              /\ FoldersAt(volume, place) \subseteq Entries(next.pending)
          BY <2>6, <3>3, <3>5
        <4>2. /\ \A p \in walk.seen : /\ SoundAt(volume, p)
                                      /\ FoldersAt(volume, p) \subseteq Entries(walk.pending) \cup walk.seen
              /\ walk.nodes = Cardinality(Nodes(volume, walk.seen))
          BY <3>5, <4>1 DEF Underway, Counted
        <4> QED
          BY <2>6, <3>2, <3>4, <4>1, <4>2
      <3>6. Counted(volume, next)
        BY <3>2, <3>5 DEF Counted
      <3>7. volume.blockSize # 0 /\ AllSound(volume) => next.findings = {}
        BY <2>3, <3>3 DEF Underway, AllSound
      <3> QED
        BY <2>4, <2>5, <3>6, <3>7 DEF Underway
    <2> QED
      BY <2>7, <2>8
  <1> QED
    BY <1>1, <1>2

LEMMA AtLast ==
  ASSUME NEW volume, IsVolume(volume)
  PROVE  \E last \in IsoWalks : /\ IsoWalk(volume) = Finished(last) /\ Halted(last)
                                /\ Underway(volume, last, MaxIsoNodes)
  <1>1. PICK walk : Turns(volume, walk) /\ IsoWalk(volume) = Finished(walk[MaxIsoNodes])
    BY IsoWalkIs
  <1>2. PICK n \in Nat : n = MaxIsoNodes
    BY MediaAssumption
  <1>3. /\ walk \in [0 .. n -> IsoWalks] /\ walk[0] = FirstTurn(volume)
        /\ \A turn \in 1 .. n : walk[turn] = WalkOne(volume, walk[turn - 1])
    BY <1>1, <1>2 DEF Turns
  <1> DEFINE S == {turn \in Nat : Underway(volume, walk[turn], turn)}
  <1>4. 0 \in S
    BY <1>3, AtFirst
  <1>5. ASSUME NEW turn \in 1 .. n, turn - 1 \in S PROVE turn \in S
    <2>1. PICK before \in Nat : before = turn - 1 /\ turn = before + 1 /\ before \in 0 .. n
      OBVIOUS
    <2>2. walk[before] \in IsoWalks /\ walk[turn] = WalkOne(volume, walk[before])
      BY <1>3, <2>1
    <2>3. Underway(volume, walk[turn], before + 1)
      BY <1>5, <2>1, <2>2, OneTurnOn
    <2> QED
      BY <2>1, <2>3
  <1>6. S \in SUBSET Nat
    OBVIOUS
  <1> HIDE DEF S
  <1>7. n \in S
    BY <1>4, <1>5, <1>6, InductionUpTo
  <1>8. PICK last \in IsoWalks : last = walk[n] /\ Underway(volume, last, n)
    BY <1>3, <1>7 DEF S
  <1>9. Halted(last)
    <2> SUFFICES ASSUME ~Halted(last) PROVE FALSE
      OBVIOUS
    <2>1. last.pending # <<>> /\ ~(last.nodes >= MaxIsoNodes)
      BY DEF Halted
    <2>2. PICK list \in Seq(Places) : list = last.pending
      BY DEF IsoWalks
    <2>3. Len(list) \in Nat /\ Len(list) # 0
      BY <2>1, <2>2
    <2>4. n + Len(list) <= 1 + last.nodes /\ last.nodes \in Nat
      BY <1>8, <2>2 DEF Underway, InTurns, IsoWalks
    <2>5. last.nodes >= n
      BY <2>3, <2>4
    <2> QED
      BY <1>2, <2>1, <2>5
  <1> QED
    BY <1>1, <1>2, <1>8, <1>9

\* What the walk makes of a volume whose blocks are not empty.
LEMMA WalkIsTrue ==
  ASSUME NEW volume, IsVolume(volume)
  PROVE  /\ IsoWalk(volume).raised => volume.blockSize = 0
         /\ volume.blockSize # 0 =>
               (IsoWalk(volume).findings = {} <=>
                  /\ Cardinality(Nodes(volume, Directories(volume))) < MaxIsoNodes
                  /\ AllSound(volume))
  <1>1. PICK last \in IsoWalks : /\ IsoWalk(volume) = Finished(last) /\ Halted(last)
                                 /\ Underway(volume, last, MaxIsoNodes)
    BY AtLast
  <1>2. /\ IsoWalk(volume).raised = last.raised /\ IsoWalk(volume).nodes = last.nodes
        /\ IsoWalk(volume).findings = {} <=> last.findings = {} /\ (last.raised \/ ~Limited(last))
    <2>1. CASE ~last.raised /\ Limited(last)
      <3>1. IsoWalk(volume) = Noted(last, "ISO_DIRECTORY_NODE_LIMIT")
        BY <1>1, <2>1 DEF Finished
      <3>2. /\ IsoWalk(volume).raised = last.raised /\ IsoWalk(volume).nodes = last.nodes
            /\ IsoWalk(volume).findings = last.findings \cup {"ISO_DIRECTORY_NODE_LIMIT"}
        BY <3>1 DEF Noted, IsoWalks
      <3> QED
        BY <2>1, <3>2
    <2>2. CASE ~(~last.raised /\ Limited(last))
      BY <1>1, <2>2 DEF Finished
    <2> QED
      BY <2>1, <2>2
  <1>3. last.nodes \in Nat
    BY DEF IsoWalks
  <1>4. ASSUME volume.blockSize # 0, last.findings = {}, ~Limited(last)
        PROVE  /\ Cardinality(Nodes(volume, Directories(volume))) < MaxIsoNodes
               /\ AllSound(volume)
    <2>1. last.pending = <<>> /\ last.nodes < MaxIsoNodes
      BY <1>3, <1>4, MediaAssumption DEF Limited
    <2>2. Entries(last.pending) = {}
      BY <2>1 DEF Entries
    <2>3. /\ last.seen \in SUBSET Directories(volume) /\ Place(volume.root) \in last.seen
          /\ \A place \in last.seen : SoundAt(volume, place) /\ FoldersAt(volume, place) \subseteq last.seen
          /\ last.nodes = Cardinality(Nodes(volume, last.seen))
      BY <1>1, <1>4, <2>2 DEF Underway, OnTheWay, Counted
    <2>4. last.seen = Directories(volume)
      BY <2>3, DirectoriesAre
    <2> QED
      BY <2>1, <2>3, <2>4 DEF AllSound
  <1>5. ASSUME volume.blockSize # 0, AllSound(volume),
               Cardinality(Nodes(volume, Directories(volume))) < MaxIsoNodes
        PROVE  last.findings = {} /\ ~Limited(last)
    <2>1. last.findings = {} /\ ~last.raised
      BY <1>1, <1>5 DEF Underway, OnTheWay
    <2>2. last.nodes = Cardinality(Nodes(volume, last.seen)) /\ last.seen \in SUBSET Directories(volume)
      BY <1>1, <1>5, <2>1 DEF Underway, OnTheWay, Counted
    <2>3. PICK total \in Nat : total = Cardinality(Nodes(volume, Directories(volume)))
      BY NodesAreFinite, FS_CardinalityType
    <2>4. last.nodes <= total
      BY <2>2, <2>3, NodesAreFinite
    <2>5. ~(last.nodes >= MaxIsoNodes)
      BY <1>3, <1>5, <2>3, <2>4, MediaAssumption
    <2> QED
      BY <1>1, <2>1, <2>5 DEF Halted, Limited
  <1>6. last.raised => volume.blockSize = 0
    BY <1>1 DEF Underway, OnTheWay
  <1> QED
    BY <1>2, <1>4, <1>5, <1>6

LEMMA OrderedIs ==
  ASSUME NEW volume, IsVolume(volume)
  PROVE  Ordered(volume.descriptors) <=>
            /\ "bad" \notin DescriptorsRead(volume) /\ "primary" \in DescriptorsRead(volume)
            /\ "end" \in DescriptorsRead(volume)
  <1>1. PICK list \in Seq(Descriptors) : list = volume.descriptors
    BY DEF IsVolume
  <1>2. PICK n \in Nat : n = Len(list) /\ DOMAIN list = 1 .. n /\ \A i \in 1 .. n : list[i] \in Descriptors
    OBVIOUS
  <1> DEFINE Clear(k) == \A i \in 1 .. k - 1 : list[i] \notin {"bad", "end"}
  <1>3. DescriptorsRead(volume) = {list[k] : k \in {k \in 1 .. n : Clear(k)}}
    BY <1>1, <1>2 DEF DescriptorsRead
  <1>4. \A i, k \in 1 .. n : i < k => i \in 1 .. k - 1
    OBVIOUS
  <1>5. ASSUME Ordered(list)
        PROVE  /\ "bad" \notin DescriptorsRead(volume) /\ "primary" \in DescriptorsRead(volume)
               /\ "end" \in DescriptorsRead(volume)
    <2>1. PICK last \in 1 .. n :
             /\ list[last] = "end" /\ \A i \in 1 .. last - 1 : list[i] \in {"primary", "other"}
             /\ \E i \in 1 .. last - 1 : list[i] = "primary"
      BY <1>2, <1>5 DEF Ordered
    <2>2. Clear(last)
      BY <2>1
    <2>3. ASSUME NEW k \in 1 .. n, Clear(k) PROVE k \in 1 .. last - 1 \/ k = last
      <3>1. ~(last < k)
        BY <1>4, <2>1, <2>3
      <3> QED
        BY <3>1
    <2>4. ASSUME NEW i \in 1 .. last - 1 PROVE i \in 1 .. n /\ Clear(i)
      <3>1. i \in 1 .. n /\ \A j \in 1 .. i - 1 : j \in 1 .. last - 1
        OBVIOUS
      <3> QED
        BY <2>2, <3>1
    <2> QED
      BY <1>3, <2>1, <2>2, <2>3, <2>4
  <1>6. ASSUME "bad" \notin DescriptorsRead(volume), "primary" \in DescriptorsRead(volume),
               "end" \in DescriptorsRead(volume)
        PROVE  Ordered(list)
    <2>1. PICK last \in 1 .. n : list[last] = "end" /\ Clear(last)
      BY <1>3, <1>6
    <2>2. PICK first \in 1 .. n : list[first] = "primary" /\ Clear(first)
      BY <1>3, <1>6
    <2>3. first \in 1 .. last - 1
      <3>1. ~(last < first)
        BY <1>4, <2>1, <2>2
      <3>2. last # first
        BY <2>1, <2>2
      <3> QED
        BY <3>1, <3>2
    <2>4. \A i \in 1 .. last - 1 : list[i] \in {"primary", "other"}
      <3>1. \A i \in 1 .. last - 1 : i \in 1 .. n
        OBVIOUS
      <3> QED
        BY <1>2, <2>1, <3>1 DEF Descriptors
    <2> QED
      BY <1>2, <2>1, <2>2, <2>3, <2>4 DEF Ordered
  <1> QED
    BY <1>1, <1>5, <1>6

\* The validator calls a volume VALID exactly if it is in order, sound and within the node limit,
\* however its directories lead to each other; only an empty block size makes it raise
\* (structural.py:509-607).
THEOREM EveryVolumeIsReadWhole ==
  ASSUME NEW volume, IsVolume(volume)
  PROVE  IsoIsReadWhole(volume)
  <1> DEFINE read == DescriptorsRead(volume)
             result == ValidateIso(volume)
             walk == IsoWalk(volume)
  <1>1. /\ walk.raised => volume.blockSize = 0
        /\ volume.blockSize # 0 =>
              (walk.findings = {} <=> /\ Cardinality(Nodes(volume, Directories(volume))) < MaxIsoNodes
                                      /\ AllSound(volume))
    BY WalkIsTrue
  <1>2. Ordered(volume.descriptors) <=> "bad" \notin read /\ "primary" \in read /\ "end" \in read
    BY OrderedIs
  <1> DEFINE findings ==
            (IF "bad" \in read THEN {"ISO_VOLUME_DESCRIPTOR_INVALID"} ELSE {})
            \cup (IF "primary" \in read THEN {} ELSE {"ISO_PRIMARY_VOLUME_DESCRIPTOR_MISSING"})
            \cup (IF "end" \in read THEN {} ELSE {"ISO_DESCRIPTOR_TERMINATOR_MISSING"})
            \cup (IF "primary" \in read /\ volume.blockSize # 1 THEN {"ISO_LOGICAL_BLOCK_SIZE_INVALID"} ELSE {})
            \cup (IF "primary" \in read /\ ~volume.spaceFits THEN {"ISO_VOLUME_SPACE_OUT_OF_RANGE"} ELSE {})
            \cup (IF "primary" \in read THEN walk.findings ELSE {})
  <1>3. result = IF "primary" \in read /\ walk.raised THEN Result("raised", {}, "COMPLETE")
                 ELSE Judged(findings)
    BY DEF ValidateIso
  <1>4. findings = {} <=> /\ "bad" \notin read /\ "primary" \in read /\ "end" \in read
                          /\ volume.blockSize = 1 /\ volume.spaceFits /\ walk.findings = {}
    <2> HIDE DEF read, walk
    <2> QED
      OBVIOUS
  <1> HIDE DEF findings, read, walk
  <1>5. result.state = "raised" => volume.blockSize = 0
    <2>1. CASE "primary" \in read /\ walk.raised
      BY <1>1, <2>1
    <2>2. CASE ~("primary" \in read /\ walk.raised)
      BY <1>3, <2>2, NoFindingIsValid
    <2> QED
      BY <2>1, <2>2
  <1>6. ASSUME volume.blockSize = 1
        PROVE  result.state = "VALID" <=>
                  /\ Ordered(volume.descriptors) /\ volume.spaceFits
                  /\ Cardinality(Nodes(volume, Directories(volume))) < MaxIsoNodes
                  /\ AllSound(volume)
    <2>1. ~walk.raised /\ volume.blockSize # 0
      BY <1>1, <1>6
    <2>2. result = Judged(findings)
      BY <1>3, <2>1
    <2>3. result.state = "VALID" <=> findings = {}
      BY <2>2, NoFindingIsValid
    <2> QED
      BY <1>1, <1>2, <1>4, <1>6, <2>1, <2>3
  <1> QED
    BY <1>1, <1>5, <1>6 DEF IsoIsReadWhole, AllSound, result, walk
=============================================================================
