------------------------ MODULE ContainerRecursion ------------------------
(***************************************************************************)
(* The recursive container analysis of src/avbox/analyzers/containers.py:  *)
(* one job walks a tree of containers depth first, materialises members as *)
(* child files, has each of them scanned, and goes into those that are     *)
(* containers themselves, within one set of budgets for the whole job.     *)
(*                                                                         *)
(* Objects are contents.  The same content may occur at many places of the *)
(* tree, and inside itself.  The Python call stack of _process_object and  *)
(* _child is the variable stack, top first.                                *)
(*                                                                         *)
(* An operator BugX is the definition X after it with a mistake; README.md *)
(* says which property each mistake breaks.                                *)
(***************************************************************************)
EXTENDS Naturals, Sequences, FiniteSets, SequencesExt

CONSTANTS
    Objects,                \* contents
    Root,                   \* the submitted one
    Contents,               \* what the objects may hold: a set of functions
    MaxRecursionDepth,      \* the ExtractionBudget, from settings.runtime
    MaxChildrenPerObject,
    MaxTotalChildren,
    MaxSingleChildBytes,
    MaxTotalExtractedBytes,
    MaxExpansionRatio,
    MaxPartitionBytes,
    MaxTotalPartitionBytes

\* What _process_object takes an object for.  _kind() recognises all but "plain" and
\* "document": a PDF, CFB or RTF file, whose children only parse_document knows.
Forms == {"plain", "document", "package", "archive", "disk", "stream", "corrupt",
          "unsupported", "unopenable"}
Recognised == Forms \ {"plain", "document"}

\* What the walk does with a member: take it; skip it with an event (unsafe name, link,
\* encrypted, declared too large) or without one (a directory); never see it, as the
\* parser of the listing drops its row (a 7z block without a size, an LHA row that is not
\* [generic], a FAT entry with an empty or dotted long name); or fail on it, with an
\* exception process() catches or with another one.
Traits == {"taken", "refused", "ignored", "unlisted", "unreadable", "undecodable"}

Members == [object : Objects, trait : Traits]

Completeness == {"COMPLETE", "PARTIAL_LIMIT", "PARTIAL_ERROR", "PARTIAL_UNSUPPORTED"}

\* The content of an object: its form, its size, whether a parser reports damage, how
\* complete a document's parser says it was, and the members in order.
ContentType == [form : Forms, bytes : Nat, damaged : BOOLEAN, partial : Completeness,
                members : Seq(Members)]

\* Documents and partitions are read from bytes already at hand; only the loops over
\* archive members skip one, and only decoding can fail in an unexpected way.
TraitsOf(form) ==
    CASE form \in {"document", "package"} -> {"taken"}
      [] form = "disk" -> {"taken", "unreadable"}
      [] form = "stream" -> {"taken", "unreadable", "undecodable"}
      [] OTHER -> Traits

WellFormed(o) ==
    /\ o \in ContentType
    /\ \A i \in DOMAIN o.members : o.members[i].trait \in TraitsOf(o.form)
    /\ o.form = "plain" => o.members = <<>>
    /\ o.form = "stream" => Len(o.members) = 1
    /\ o.form \in {"document", "package"} => ~o.damaged
    /\ o.form \notin {"document", "package"} => o.partial = "COMPLETE"

ASSUME RootAssumption == Root \in Objects
ASSUME ContentsAssumption ==
    \A c \in Contents :
        /\ c \in [Objects -> ContentType]
        /\ \A o \in Objects : WellFormed(c[o])
ASSUME BudgetAssumption ==
    /\ MaxRecursionDepth \in Nat /\ MaxChildrenPerObject \in Nat \ {0}
    /\ MaxTotalChildren \in Nat \ {0} /\ MaxSingleChildBytes \in Nat \ {0}
    /\ MaxTotalExtractedBytes \in Nat \ {0} /\ MaxExpansionRatio \in Nat \ {0}
    /\ MaxPartitionBytes \in Nat \ {0} /\ MaxTotalPartitionBytes \in Nat \ {0}

VARIABLES
    content,        \* what each object holds
    stack,          \* the containers being processed, innermost first
    late,           \* max_extraction_time_seconds have passed
    discovered,     \* ExtractionUsage: children_discovered
    materialized,   \* children_materialized
    extracted,      \* total_extracted_bytes
    partitioned,    \* materialized_partition_bytes
    events,         \* limit_events
    completeness,   \* job.completeness
    derived,        \* job.derived_objects
    files,          \* child-<n> files in the derived directory
    outcome         \* of process()

vars == <<content, stack, late, discovered, materialized, extracted, partitioned, events,
          completeness, derived, files, outcome>>

\* A call of _process_object on the object of node `node` of the tree, 0 for the root
\* and n for derived[n]: the next member, 0 before the object is opened, and the
\* partition bytes its caller charges when it returns.
Frame(node, depth, charge) == [node |-> node, depth |-> depth, next |-> 0, charge |-> charge]

BugObjectOf(node) == IF node = 0 THEN Root ELSE derived[Len(derived)].object
ObjectOf(node) == IF node = 0 THEN Root ELSE derived[node].object

Top == Head(stack)
Parent == content[ObjectOf(Top.node)]

Init ==
    /\ content \in Contents
    /\ stack = <<Frame(0, 0, 0)>>
    /\ late = FALSE
    /\ discovered = 0 /\ materialized = 0 /\ extracted = 0 /\ partitioned = 0
    /\ events = {} /\ completeness = "COMPLETE"
    /\ derived = <<>> /\ files = {}
    /\ outcome = "walking"

-----------------------------------------------------------------------------
(* Leaving: an object is done with, or an exception ends the whole walk.      *)

\* process() ends: a limit turns COMPLETE into PARTIAL_LIMIT, and the derived
\* directory is removed.  `c` and `e` are completeness and events by then.
Verdict(c, e) == IF e # {} /\ c = "COMPLETE" THEN "PARTIAL_LIMIT" ELSE c


\* _process_object returns to the loop of its caller, or to process().
Return(c, e) ==
    /\ events' = e
    /\ stack' = Tail(stack)
    /\ partitioned' = partitioned + Top.charge
    /\ IF Tail(stack) = <<>>
       THEN /\ outcome' = "done"
            /\ completeness' = Verdict(c, e)
            /\ files' = {}
       ELSE /\ completeness' = c
            /\ UNCHANGED <<outcome, files>>

\* OSError, EOFError, TarError and BadZipFile end the walk early; any other exception,
\* an LZMAError say, leaves process() and with it fails the job.
Abort(caught) ==
    /\ stack' = <<>>
    /\ outcome' = IF caught THEN "done" ELSE "raised"
    /\ completeness' = IF caught THEN "PARTIAL_ERROR" ELSE completeness
    /\ files' = {}
    /\ UNCHANGED <<content, late, partitioned, events, derived>>

\* The loop goes on to the next member; `left` is what became of the child's file.
Skip(e, left) ==
    /\ events' = events \cup e
    /\ files' = files \cup left
    /\ stack' = <<[Top EXCEPT !.next = @ + 1]>> \o Tail(stack)
    /\ UNCHANGED <<content, late, materialized, extracted, partitioned, completeness, derived,
                   outcome>>

-----------------------------------------------------------------------------
(* _process_object up to its loop.                                           *)

Opening == outcome = "walking" /\ Top.next = 0

\* Out of time, or the root of a job that may not recurse at all.
TurnAway ==
    /\ Opening
    /\ late \/ Top.depth >= MaxRecursionDepth
    /\ Return(completeness, IF late THEN events \cup {"EXTRACTION_TIME_LIMIT"} ELSE events)
    /\ UNCHANGED <<content, late, discovered, materialized, extracted, derived>>

\* What parsing alone says about completeness.
ParseVerdict ==
    CASE Parent.damaged -> "PARTIAL_ERROR"
      [] completeness = "COMPLETE" -> Parent.partial
      [] OTHER -> completeness

\* Nothing to enumerate: an ordinary file, or a handler that gives up.
OpenLeaf ==
    /\ Opening
    /\ ~late /\ Top.depth < MaxRecursionDepth
    /\ \/ Parent.form = "plain" /\ Return(ParseVerdict, events)
       \/ /\ Parent.form = "corrupt"
          /\ Return("PARTIAL_ERROR", events \cup {"CORRUPT_CONTAINER"})
       \/ /\ Parent.form = "unsupported"
          /\ Return("PARTIAL_UNSUPPORTED", events \cup {"EXTRACTION_UNAVAILABLE"})
    /\ UNCHANGED <<content, late, discovered, materialized, extracted, derived>>

\* A ZIP or TAR file whose directory cannot be read ends the walk, wherever it lies;
\* zipfile has exceptions for it that process() does not catch (NotImplementedError).
FailToOpen ==
    /\ Opening
    /\ ~late /\ Top.depth < MaxRecursionDepth
    /\ Parent.form = "unopenable"
    /\ \E caught \in BOOLEAN : Abort(caught)
    /\ UNCHANGED <<discovered, materialized, extracted>>

\* Partitions are capped by the table parser, a stream holds one member.
Capped == Parent.form \in {"document", "package", "archive"}

\* The places of the members that the listing of an object has.
Listed(o) == {i \in DOMAIN o.members : o.members[i].trait # "unlisted"}

TooMany == Capped /\ Cardinality(Listed(Parent)) > MaxChildrenPerObject

OpenContainer ==
    /\ Opening
    /\ ~late /\ Top.depth < MaxRecursionDepth
    /\ Parent.form \in {"document", "package", "archive", "disk", "stream"}
    /\ completeness' = ParseVerdict
    /\ events' = IF TooMany THEN events \cup {"CHILD_COUNT_LIMIT"} ELSE events
    /\ stack' = <<[Top EXCEPT !.next = 1]>> \o Tail(stack)
    /\ UNCHANGED <<content, late, discovered, materialized, extracted, partitioned, derived,
                   files, outcome>>

-----------------------------------------------------------------------------
(* The loop over the members.                                                *)

\* The loop covers the first MaxChildrenPerObject members of the listing.
InReach == Capped => Cardinality({i \in Listed(Parent) : i < Top.next}) < MaxChildrenPerObject

Member == Parent.members[Top.next]
Child == content[Member.object]

BugCanStartChild == materialized <= MaxTotalChildren
CanStartChild == materialized < MaxTotalChildren

BugPartitionFits == Child.bytes <= MaxPartitionBytes
PartitionFits ==
    /\ Child.bytes <= MaxPartitionBytes
    /\ partitioned + Child.bytes <= MaxTotalPartitionBytes

\* The limits _materialize meets while it copies the member, the file it began being
\* unlinked again.  An empty member meets none.
MaterializeLimits ==
    {e \in {"EXTRACTION_TIME_LIMIT", "CHILD_SIZE_LIMIT", "EXTRACTION_BYTE_BUDGET_EXHAUSTED",
            "EXPANSION_RATIO_LIMIT"} :
        /\ Child.bytes > 0
        /\ e = "EXTRACTION_TIME_LIMIT" => late
        /\ e = "CHILD_SIZE_LIMIT" => Child.bytes > MaxSingleChildBytes
        /\ e = "EXTRACTION_BYTE_BUDGET_EXHAUSTED" =>
               extracted + Child.bytes > MaxTotalExtractedBytes
        /\ e = "EXPANSION_RATIO_LIMIT" =>
               Parent.bytes > 0 /\ Child.bytes > MaxExpansionRatio * Parent.bytes}

\* The file a limit leaves behind: the next child is to be opened under the same name,
\* with "xb".
BugLeftByMaterialize == {materialized}
LeftByMaterialize == {}

InLoop ==
    /\ outcome = "walking"
    /\ Top.next \in DOMAIN Parent.members
    /\ InReach

\* The loop is over.
EndLoop ==
    /\ outcome = "walking"
    /\ Top.next > 0 /\ ~InLoop
    /\ Return(completeness, events)
    /\ UNCHANGED <<content, late, discovered, materialized, extracted, derived>>

\* The job has all the children it may have, or the disk all its partition bytes: the
\* loop breaks.
Break ==
    /\ InLoop
    /\ Member.trait # "unlisted"
    /\ discovered' = discovered + 1
    /\ \/ /\ ~CanStartChild
          /\ Return(completeness, events \cup {"TOTAL_CHILD_COUNT_LIMIT"})
       \/ /\ CanStartChild
          /\ Parent.form = "disk"
          /\ Child.bytes <= MaxPartitionBytes
          /\ ~PartitionFits
          /\ Return(completeness, events \cup {"TOTAL_PARTITION_MATERIALIZATION_LIMIT"})
    /\ UNCHANGED <<content, late, materialized, extracted, derived>>

\* A member the listing does not have: it leaves no event and is not even counted.
Overlook ==
    /\ InLoop
    /\ Member.trait = "unlisted"
    /\ Skip({}, {})
    /\ UNCHANGED discovered

\* The member is passed over.  A member that cannot be read to its end may meet a limit
\* first; a tool run out of time fails on any member it is asked for.
PassOver ==
    /\ InLoop
    /\ CanStartChild
    /\ discovered' = discovered + 1
    /\ \/ Member.trait = "refused" /\ Skip({"MEMBER_REFUSED"}, {})
       \/ Member.trait = "ignored" /\ Skip({}, {})
       \/ /\ Parent.form = "disk"
          /\ Child.bytes > MaxPartitionBytes
          /\ Skip({"PARTITION_MATERIALIZATION_LIMIT"}, {})
       \/ /\ late /\ Parent.form = "archive"
          /\ Member.trait \in {"taken", "unreadable", "undecodable"}
          /\ Skip({"MEMBER_EXTRACTION_FAILURE"}, {})
       \/ /\ Member.trait \in {"taken", "unreadable", "undecodable"}
          /\ Parent.form = "disk" => PartitionFits
          /\ \E e \in MaterializeLimits : Skip({e}, LeftByMaterialize)

\* Reading the member or writing its file fails.  Or what comes when the file is written
\* and counted does: its hash or the clean-up of its job with an OSError, which process()
\* catches, or the job store with an exception it does not.
Fail ==
    /\ InLoop
    /\ CanStartChild
    /\ Parent.form = "disk" => PartitionFits
    /\ discovered' = discovered + 1
    /\ \/ /\ \/ Member.trait \in {"taken", "unreadable"} /\ Abort(TRUE)
             \/ Member.trait = "undecodable" /\ Abort(FALSE)
          /\ UNCHANGED <<materialized, extracted>>
       \/ /\ Member.trait = "taken"
          /\ MaterializeLimits = {}
          /\ \E caught \in BOOLEAN : Abort(caught)
          /\ materialized' = materialized + 1
          /\ extracted' = extracted + Child.bytes

\* A container at the depth limit is reported, not opened.
BugDepthEvents(depth) == {}
DepthEvents(depth) ==
    IF depth >= MaxRecursionDepth /\ Child.form \in Recognised
    THEN {"RECURSION_LIMIT_REACHED"} ELSE {}

BugTooDeep(depth) == depth > MaxRecursionDepth
TooDeep(depth) == depth >= MaxRecursionDepth

\* What a child adds to materialized_partition_bytes.
BugCharge == Child.bytes
Charge == IF Parent.form = "disk" THEN Child.bytes ELSE 0

\* _child: the member becomes the file child-<n>, is scanned, is appended to the
\* derived objects, and is gone into unless it lies at the depth limit.  A partition
\* is charged to the partition budget when all of this has returned.
TakeMember ==
    /\ InLoop
    /\ CanStartChild
    /\ Member.trait = "taken"
    /\ MaterializeLimits = {}
    /\ Parent.form = "disk" => PartitionFits
    /\ discovered' = discovered + 1
    /\ files' = files \cup {materialized}
    /\ materialized' = materialized + 1
    /\ extracted' = extracted + Child.bytes
    /\ derived' = Append(derived,
                         [object |-> Member.object, parent |-> Top.node,
                          index |-> Top.next, depth |-> Top.depth + 1])
    /\ events' = events \cup DepthEvents(Top.depth + 1)
    /\ LET rest == <<[Top EXCEPT !.next = @ + 1]>> \o Tail(stack)
       IN  IF TooDeep(Top.depth + 1)
           THEN stack' = rest /\ partitioned' = partitioned + Charge
           ELSE /\ stack' = <<Frame(Len(derived) + 1, Top.depth + 1, Charge)>> \o rest
                /\ UNCHANGED partitioned
    /\ UNCHANGED <<content, late, completeness, outcome>>

\* Time passes.
Expire ==
    /\ outcome = "walking"
    /\ ~late
    /\ late' = TRUE
    /\ UNCHANGED <<content, stack, discovered, materialized, extracted, partitioned, events,
                   completeness, derived, files, outcome>>

\* process() has returned or raised.
Ended == outcome # "walking" /\ UNCHANGED vars

Next ==
    \/ TurnAway \/ OpenLeaf \/ FailToOpen \/ OpenContainer \/ EndLoop \/ Break \/ Overlook
    \/ PassOver \/ Fail \/ TakeMember \/ Expire \/ Ended

Spec == Init /\ [][Next]_vars

-----------------------------------------------------------------------------
(* Properties.                                                               *)

Nodes == 0..Len(derived)
DepthOf(node) == IF node = 0 THEN 0 ELSE derived[node].depth
Bytes(d) == content[d.object].bytes
ParentOf(d) == content[IF d.parent = 0 THEN Root ELSE derived[d.parent].object]

Total(numbers) == FoldLeft(LAMBDA sum, number : sum + number, 0, numbers)

\* Every variable keeps its type; the calls of _process_object nest no deeper than the
\* recursion depth, whatever contains itself.
TypeOK ==
    /\ content \in [Objects -> ContentType]
    /\ stack \in Seq([node : Nat, depth : Nat, next : Nat, charge : Nat])
    /\ Len(stack) <= IF MaxRecursionDepth = 0 THEN 1 ELSE MaxRecursionDepth
    /\ \A i \in DOMAIN stack : stack[i].node \in Nodes
    /\ late \in BOOLEAN
    /\ discovered \in Nat /\ materialized \in Nat
    /\ extracted \in Nat /\ partitioned \in Nat
    /\ completeness \in Completeness
    /\ derived \in Seq([object : Objects, parent : Nat, index : Nat, depth : Nat])
    /\ files \subseteq Nat
    /\ outcome \in {"walking", "done", "raised"}
    /\ outcome = "walking" <=> stack # <<>>

\* "The counters are global to the recursive job, not reset for each level"
\* (docs/m14-container-recursion.md): however members nest, repeat or contain
\* themselves, the job stays within its number of children and of bytes, and each child
\* within the depth, size and expansion limits.
BudgetsHold ==
    /\ materialized <= MaxTotalChildren /\ Len(derived) <= MaxTotalChildren
    /\ extracted <= MaxTotalExtractedBytes
    /\ \A n \in DOMAIN derived :
          /\ derived[n].depth <= MaxRecursionDepth
          /\ Bytes(derived[n]) <= MaxSingleChildBytes
          /\ ParentOf(derived[n]).bytes > 0 =>
                Bytes(derived[n]) <= MaxExpansionRatio * ParentOf(derived[n]).bytes

\* The bytes of each child, of each that is a partition, and what each call's caller charges.
ChildBytes == [n \in DOMAIN derived |-> Bytes(derived[n])]
PartitionBytes ==
    [n \in DOMAIN derived |->
        IF ParentOf(derived[n]).form = "disk" THEN Bytes(derived[n]) ELSE 0]
Charges == [i \in DOMAIN stack |-> stack[i].charge]

\* The usage counters the budgets are checked against are those of the derived objects,
\* up to the partitions whose walk is not over.  A job whose walk an exception ended may
\* have counted one child more, which was written but not recorded, and no other job.
UsageIsTrue ==
    /\ \/ materialized = Len(derived) /\ extracted = Total(ChildBytes)
       \/ /\ materialized = Len(derived) + 1 /\ extracted >= Total(ChildBytes)
          /\ outcome = "raised" \/ (outcome = "done" /\ completeness = "PARTIAL_ERROR")
    /\ outcome = "walking" => partitioned + Total(Charges) = Total(PartitionBytes)
    /\ discovered >= materialized

\* "512 MiB job-total partition limits" (docs/m14c-partitioned-images.md): all the
\* partitions of the job together, those inside partitions included.
PartitionBudgetHolds == Total(PartitionBytes) <= MaxTotalPartitionBytes

\* The graph a client reads is true: each derived object hangs below the object that
\* holds it, at the member it came from, one level deeper, and is there once.
EdgesAreTrue ==
    /\ \A n \in DOMAIN derived :
          /\ derived[n].parent \in 0..(n - 1)
          /\ derived[n].index \in DOMAIN ParentOf(derived[n]).members
          /\ derived[n].object = ParentOf(derived[n]).members[derived[n].index].object
          /\ derived[n].depth = DepthOf(derived[n].parent) + 1
    /\ \A m, n \in DOMAIN derived :
          derived[m].parent = derived[n].parent /\ derived[m].index = derived[n].index => m = n

\* Where a job may be COMPLETE although an object it holds was never opened: a document
\* at the depth limit, where _kind() does not know it for a container, and a root, if the
\* depth limit is 0.  The code says nothing of either; docs/m14-container-recursion.md
\* promises RECURSION_LIMIT_REACHED and PARTIAL_LIMIT.
LeftUnopened(node) ==
    /\ DepthOf(node) >= MaxRecursionDepth
    /\ node = 0 \/ content[ObjectOf(node)].form = "document"

\* A job is COMPLETE only if every member of every object it holds was taken, but for
\* directories and for what the code loses without a word: the members that a listing
\* parser dropped, and the objects LeftUnopened tells of.  Nothing else is lost so: no
\* limit, no refusal, no error at any depth leaves the job COMPLETE.
CompleteMeansWhole ==
    (outcome = "done" /\ completeness = "COMPLETE") =>
        \A node \in Nodes :
            LET o == content[ObjectOf(node)]
            IN  \/ \A i \in DOMAIN o.members :
                      \/ o.members[i].trait \in {"ignored", "unlisted"}
                      \/ \E n \in DOMAIN derived : derived[n].parent = node /\ derived[n].index = i
                \/ LeftUnopened(node)

\* One file per derived object and no other while the walk lasts, although children are
\* abandoned half written and numbered anew, so that no child meets the file of another;
\* and none when it is over, from whatever depth.
ChildFilesMatch ==
    files = IF outcome = "walking" THEN {n - 1 : n \in DOMAIN derived} ELSE {}
===========================================================================
