---------------------------- MODULE CompoundFiles ----------------------------
(***************************************************************************)
(* The compound file of an old office document, as _parse_cfb of           *)
(* src/avbox/analyzers/document.py reads it: sectors linked by an          *)
(* allocation table, in them a directory of storages and streams that is   *)
(* a tree of sibling and child links, and a second table over the small    *)
(* sectors of the root's own stream.                                       *)
(*                                                                         *)
(* A file is                                                               *)
(*   geometry   whether its version, sector sizes and the list of the      *)
(*              allocation table's own sectors are what the parser takes   *)
(*   sectors    how many sectors it has, 0 .. sectors - 1                  *)
(*   fat        the table: a sequence, of sector 0 first; Stop ends a      *)
(*              chain.  It may be longer or shorter than the file          *)
(*   firstDir, firstMini, miniCount                                        *)
(*   entries    for a sector, the directory entries in it                  *)
(*   mini       for a sector, the part of the small table in it            *)
(* Sizes are in small sectors, FullSector of which make a sector.          *)
(***************************************************************************)
EXTENDS Integers, Sequences, FiniteSets, SequencesExt

CONSTANTS
    MaxComponents,  \* max_document_components
    MaxStream,      \* max_document_parser_bytes
    MiniCutoff,     \* streams below it are in the root's own stream
    FullSector

ASSUME CompoundAssumption ==
    /\ MaxComponents \in Nat \ {0} /\ MaxStream \in Nat /\ MiniCutoff \in Nat
    /\ FullSector \in Nat \ {0}

Stop == -1          \* 0xFFFFFFFA and up
Links == Nat \cup {Stop}
Unused == [kind |-> "unused", start |-> Stop, size |-> 0, left |-> Stop, right |-> Stop,
           child |-> Stop]
DirectoryEntries == [kind : {"unused", "root", "storage", "stream", "other"}, start : Links, size : Nat,
            left : Links, right : Links, child : Links]
IsCompound(file) ==
    /\ file.geometry \in BOOLEAN /\ file.sectors \in Nat /\ file.fat \in Seq(Links)
    /\ file.firstDir \in Links /\ file.firstMini \in Links /\ file.miniCount \in Nat
    /\ file.entries \in [0 .. file.sectors - 1 -> Seq(DirectoryEntries)]
    /\ file.mini \in [0 .. file.sectors - 1 -> Seq(Links)]

Unread == [ok |-> FALSE, list |-> <<>>]
Joined(parts) == FoldLeft(LAMBDA all, part : all \o part, <<>>, parts)

\* chain(): a sector met twice, one beyond the table, and one too many end the parser.  A turn
\* that does not end it adds to the list, so there are no more than the limit and one.
BugChainRefused(current, table, limit, list) ==
    current \in Range(list) \/ current >= Len(table) \/ Len(list) > limit
ChainRefused(current, table, limit, list) ==
    current \in Range(list) \/ current >= Len(table) \/ Len(list) >= limit
ChainTurn(table, limit, walk) ==
    IF ~walk.ok \/ walk.current = Stop THEN walk
    ELSE IF ChainRefused(walk.current, table, limit, walk.list)
    THEN [walk EXCEPT !.ok = FALSE, !.list = <<>>]
    ELSE [walk EXCEPT !.list = Append(@, walk.current), !.current = table[walk.current + 1]]
AllocationChain(start, table, limit) ==
    LET walk[turn \in 0 .. limit + 1] ==
            IF turn = 0 THEN [ok |-> TRUE, list |-> <<>>, current |-> start]
            ELSE ChainTurn(table, limit, walk[turn - 1])
    IN  walk[limit + 1]

\* A chain of sectors of the file: sector() refuses one outside it.
Sectors(file, start, limit) ==
    LET chain == AllocationChain(start, file.fat, limit)
    IN  IF chain.ok /\ \A i \in DOMAIN chain.list : chain.list[i] < file.sectors THEN chain
        ELSE Unread

\* The entries in use, with the number of their slot; the first root entry is the root.
Slots(file, list) == Joined([i \in DOMAIN list |-> file.entries[list[i]]])
InUse(slots) == {id \in DOMAIN slots : slots[id].kind # "unused"}
Roots(slots) == {id \in InUse(slots) : slots[id].kind = "root"}
RootOf(slots) == IF Roots(slots) = {} THEN Stop ELSE Min(Roots(slots))

\* assign_tree(): left siblings, the entry, what a storage holds, right siblings; an entry that
\* was seen is not entered again.  The calls still to be made are a stack, the next one last; an
\* entry that gets a path adds three to it.
AssignTurn(slots, walk) ==
    LET id == Last(walk.calls)
        below == IF slots[id].kind = "storage" THEN slots[id].child ELSE Stop
    IN  IF walk.calls = <<>> THEN walk
        ELSE IF id \in Range(walk.placed) \/ id \notin InUse(slots)
        THEN [walk EXCEPT !.calls = Front(@)]
        ELSE [calls |-> Front(walk.calls) \o <<slots[id].right, below, slots[id].left>>,
              placed |-> Append(walk.placed, id)]
\* Those that get a path, as they are met.
AssignTree(slots, first) ==
    LET walk[turn \in 0 .. 3 * Len(slots) + 1] ==
            IF turn = 0 THEN [calls |-> <<first>>, placed |-> <<>>]
            ELSE AssignTurn(slots, walk[turn - 1])
    IN  walk[3 * Len(slots) + 1].placed

SmallTable(file) ==
    LET chain == Sectors(file, file.firstMini, file.miniCount)
    IN  IF file.miniCount = 0 \/ file.firstMini = Stop THEN [ok |-> TRUE, list |-> <<>>]
        ELSE IF ~chain.ok THEN Unread
        ELSE [ok |-> TRUE, list |-> Joined([i \in DOMAIN chain.list |-> file.mini[chain.list[i]]])]

\* A stream's bytes are the small sectors they are in; those of sector s are <<s, 1>> and on.
Whole(list) == Joined([i \in DOMAIN list |-> [k \in 1 .. FullSector |-> <<list[i], k>>]])
Cut(bytes, size) == [k \in 1 .. Min({Len(bytes), size}) |-> bytes[k]]
OwnStream(file, slots) ==
    LET root == slots[RootOf(slots)]
        chain == Sectors(file, root.start, MaxComponents)
    IN  IF RootOf(slots) = Stop \/ root.size = 0 \/ root.start = Stop THEN [ok |-> TRUE, list |-> <<>>]
        ELSE IF chain.ok THEN [ok |-> TRUE, list |-> Cut(Whole(chain.list), root.size)] ELSE Unread

\* The stream of one entry: what is beyond the root's own stream is left out in silence, and so is
\* what a chain is too short for.
SmallSectors(own, list) ==
    FoldLeft(LAMBDA bytes, m : IF m < Len(own) THEN Append(bytes, own[m + 1]) ELSE bytes, <<>>, list)
Stream(file, entry, small, own) ==
    LET mini == AllocationChain(entry.start, small, MaxComponents)
        chain == Sectors(file, entry.start, MaxComponents)
        Taken(read, bytes) ==
            IF read.ok THEN [ok |-> TRUE, list |-> Cut(bytes, entry.size)] ELSE Unread
    IN  IF entry.kind # "stream" \/ entry.size = 0 \/ entry.size > MaxStream
        THEN [ok |-> TRUE, list |-> <<>>]
        ELSE IF entry.size < MiniCutoff /\ small # <<>> /\ own # <<>>
        THEN Taken(mini, SmallSectors(own, mini.list))
        ELSE IF entry.start = Stop THEN [ok |-> TRUE, list |-> <<>>]
        ELSE Taken(chain, Whole(chain.list))

\* _parse_cfb(): any fault is a DocumentError and ends it.
ParseCfb(file) ==
    LET directory == Sectors(file, file.firstDir, MaxComponents)
        slots == Slots(file, directory.list)
        root == RootOf(slots)
        small == SmallTable(file)
        own == OwnStream(file, slots)
        streams == [id \in InUse(slots) |-> Stream(file, slots[id], small.list, own.list)]
        ok == /\ file.geometry
              /\ directory.ok /\ Cardinality(InUse(slots)) <= MaxComponents
              /\ small.ok /\ own.ok /\ \A id \in InUse(slots) : streams[id].ok
    IN  [outcome |-> IF ok THEN "parsed" ELSE "refused",
         slots |-> slots,
         placed |-> IF root = Stop THEN <<>> ELSE AssignTree(slots, slots[root].child),
         data |-> [id \in InUse(slots) |-> streams[id].list]]

\* A chain without a walk: the sectors that are in every set that has the first one and with a
\* sector of the table the one it leads to.  It is sound if the end mark is one of them.
ChainOf(table, start) ==
    LET all == {start} \cup Range(table)
        closed == {set \in SUBSET all : /\ start \in set
                                        /\ \A s \in set : s \in 0 .. Len(table) - 1 => table[s + 1] \in set}
    IN  {s \in all : \A set \in closed : s \in set}
SoundChain(table, start, limit) ==
    /\ Stop \in ChainOf(table, start) /\ Cardinality(ChainOf(table, start)) <= limit + 1
    /\ \A s \in ChainOf(table, start) : s < Len(table)
InFile(file, start) == \A s \in ChainOf(file.fat, start) : s < file.sectors

\* The entries in use that a tree of links leads to, in the same way.
LinksOf(slots, id) ==
    {slots[id].left, slots[id].right} \cup (IF slots[id].kind = "storage" THEN {slots[id].child} ELSE {})
LinkedEntries(slots, first) ==
    LET used == InUse(slots)
        closed == {set \in SUBSET used : /\ {first} \cap used \subseteq set
                                         /\ \A id \in set : LinksOf(slots, id) \cap used \subseteq set}
    IN  {id \in used : \A set \in closed : id \in set}

\* A compound file is read or it is refused: when it is read, every stream of its directory that
\* the limits allow has a chain that ends in the file and no more bytes than it says, and of
\* those not in the small table it has as many as its chain holds; an entry has a place in the
\* hierarchy, and one only, if the links lead to it from the root, whatever cycles the links
\* make; and it is refused if the directory's chain or that of a large stream is cyclic, leaves
\* the table or the file, or is too long (document.py:389-502).
ReadOrRefused(file, parsed) ==
    LET slots == parsed.slots
        root == RootOf(slots)
        Good(start) == SoundChain(file.fat, start, MaxComponents) /\ InFile(file, start)
        streams == {id \in InUse(slots) : slots[id].kind = "stream" /\ slots[id].size \in 1 .. MaxStream}
        large == {id \in streams : slots[id].size >= MiniCutoff}
    IN  /\ parsed.outcome = "parsed" =>
              /\ Good(file.firstDir)
              /\ \A id \in large :
                    /\ Good(slots[id].start)
                    /\ LET held == FullSector * Cardinality(ChainOf(file.fat, slots[id].start) \ {Stop})
                       IN  Len(parsed.data[id]) = Min({slots[id].size, held})
              /\ \A id \in streams : /\ Len(parsed.data[id]) <= slots[id].size
                                     /\ Cardinality(Range(parsed.data[id])) = Len(parsed.data[id])
              /\ root # Stop =>
                    /\ Cardinality(Range(parsed.placed)) = Len(parsed.placed)
                    /\ Range(parsed.placed) = LinkedEntries(slots, slots[root].child)
        /\ file.geometry /\ parsed.outcome = "refused" /\ Good(file.firstDir) =>
              \/ Cardinality(InUse(slots)) > MaxComponents
              \/ \E id \in streams : slots[id].start # Stop /\ ~Good(slots[id].start)
              \/ ~SmallTable(file).ok \/ ~OwnStream(file, slots).ok
              \/ \E id \in streams \ large :
                    ~SoundChain(SmallTable(file).list, slots[id].start, MaxComponents)
CompoundIsReadOrRefused(file) == \A parsed \in {ParseCfb(file)} : ReadOrRefused(file, parsed)
=============================================================================
