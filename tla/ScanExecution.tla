--------------------------- MODULE ScanExecution ---------------------------
(***************************************************************************)
(* ScanService.execute_queued of src/avbox/application/scanning.py with    *)
(* the quarantine it admits to (src/avbox/preservation/service.py): jobs   *)
(* go through their requested analyzers and scanners, aggregate verdicts,  *)
(* have their derived objects scanned as jobs of their own, check that the *)
(* source did not change, and end in quarantine or not.                    *)
(*                                                                         *)
(* Jobs of different workers interleave; a derived job runs inside the     *)
(* container walk of its parent.  They share the adapter objects, the      *)
(* scanner_runtime table, the quarantine and its .incoming copies.         *)
(*                                                                         *)
(* An operator BugX is the definition X after it with a mistake; README.md *)
(* says which property each mistake breaks.                                *)
(***************************************************************************)
EXTENDS Naturals, Sequences, SequencesExt, JobStates

CONSTANTS
    Jobs,           \* submitted and derived ones
    Nil,            \* no job
    Parent,         \* the job whose container a derived job comes from, or Nil
    Digest,         \* the content hash of a job's object
    Workloads,      \* functions from jobs submitted beside each other to the requested names
    Scanners,       \* ScanService.adapters
    Analyzers,      \* ScanService.generic_analyzers
    CanReport,      \* the verdicts a scanner may come to
    Reported,       \* the results an analyzer may return
    Rewritable,     \* jobs whose source other programs may write to
    MaxCrashes      \* bound of the crash counter

Positive == {"MALICIOUS", "PUA", "SUSPICIOUS"}
Verdicts == Positive \cup {"CLEAN", "ERROR", "UNSUPPORTED", "NOT_SCANNED", "UNKNOWN"}
Special == {"container", "rab-correlation"}
Partial == {"partial_unsupported", "partial_limit", "partial_error"}
Natives == Partial \cup {"complete", "not_applicable", "corrupt", "unsupported_limit"}
Copies == {"none", "part", "whole", "other"}
Rows == {"ABSENT", "NOT_INSTALLED", "PROBED", "QUALIFIED", "DEGRADED"}

\* What some job is asked for.
Names == UNION {UNION {ToSet(load[j]) : j \in DOMAIN load} : load \in Workloads}

\* A job, with its thread: where that is, the place of the name it is at, and the row it has read.
ScanJob ==
    [status : Status,
     pc : {"idle", "loop", "probed", "prepare", "scanning", "scanned", "container", "verify",
           "admit", "open", "copy", "replace", "finally", "done", "lost", "dead"},
     at : Nat, previous : Rows,
     results : Seq([scanner : Scanners, verdict : Verdicts, ref : Jobs \cup {Nil},
                    qualified : BOOLEAN]),
     analyzed : SUBSET [name : Analyzers, native : Natives, erring : BOOLEAN],
     requested : Seq(Names), errors : SUBSET (Names \cup {"exception"}),
     completeness : {"COMPLETE", "PARTIAL_LIMIT", "PARTIAL_UNSUPPORTED", "PARTIAL_ERROR"},
     verdict : Verdicts, derived : SUBSET Jobs]

ASSUME JobsAssumption ==
    /\ Nil \notin Jobs
    /\ Parent \in [Jobs -> Jobs \cup {Nil}]
    /\ \A j \in Jobs : Parent[j] # Nil => Parent[Parent[j]] = Nil
    /\ \A load \in Workloads :
          /\ DOMAIN load \subseteq {j \in Jobs : Parent[j] = Nil}
          /\ \A j \in DOMAIN load : load[j] \in Seq(Names)
ASSUME NamesAssumption ==
    /\ Scanners \cap Analyzers = {}
    /\ Special \cap (Scanners \cup Analyzers) = {}
    /\ CanReport \in [Scanners -> SUBSET Verdicts]
    /\ Reported \in [Analyzers -> SUBSET [native : Natives, erring : BOOLEAN, row : Rows]]
    /\ MaxCrashes \in Nat

VARIABLES
    job,            \* the ScanJob objects and where their threads are
    runtime,        \* the scanner_runtime table
    active,         \* _active_job_id of the adapter objects
    staged,         \* staging/<job>/<scanner> directories
    incoming,       \* the .incoming file of each digest
    quarantine,     \* the file of each digest
    intact,         \* the sources that still are what was submitted
    earned,         \* scanners that once ran without an error
    crashes

vars == <<job, runtime, active, staged, incoming, quarantine, intact, earned, crashes>>
files == <<staged, incoming, quarantine>>
tables == <<runtime, active, earned>>

Derived(j) == {c \in Jobs : Parent[c] = j}

\* scan_file() or create_queued() made the submitted jobs; a derived one is made when the walk
\* of its parent gets to it.
Init ==
    /\ \E load \in Workloads :
       job = [j \in Jobs |->
                 [status |-> IF j \in DOMAIN load THEN "QUEUED" ELSE "CREATED", pc |-> "idle",
                  requested |-> IF j \in DOMAIN load THEN load[j] ELSE <<>>, at |-> 1, previous |-> "ABSENT", results |-> <<>>, analyzed |-> {},
                  errors |-> {}, completeness |-> "COMPLETE", verdict |-> "NOT_SCANNED",
                  derived |-> {}]]
    /\ runtime = [s \in Scanners \cup Analyzers |-> "ABSENT"]
    /\ active = [s \in Scanners |-> Nil]
    /\ staged = {}
    /\ incoming = [d \in {Digest[j] : j \in Jobs} |-> "none"]
    /\ quarantine = incoming
    /\ intact = Jobs
    /\ earned = {}
    /\ crashes = 0

At(j, pc) == job[j].pc = pc
Name(j) == job[j].requested[job[j].at]
Working(j, set) == At(j, "loop") /\ job[j].at <= Len(job[j].requested) /\ Name(j) \in set

Update(j, new) == job' = [job EXCEPT ![j] = new]
Goto(j, pc) == Update(j, [job[j] EXCEPT !.pc = pc])
Advance(j, new) == Update(j, [new EXCEPT !.at = @ + 1, !.pc = "loop"])

\* The except clause around the whole execution.
Raise(j) ==
    Update(j, [job[j] EXCEPT !.errors = @ \cup {"exception"}, !.status = "FAILED",
                             !.pc = "finally"])

\* aggregate_verdict(): matches win, errors prevent an all-clean claim.
Precedence ==
    <<"MALICIOUS", "PUA", "SUSPICIOUS", "ERROR", "CLEAN", "UNKNOWN", "UNSUPPORTED", "NOT_SCANNED">>
First(verdicts) ==
    LET present == {i \in DOMAIN Precedence : Precedence[i] \in verdicts \cup {"NOT_SCANNED"}}
    IN  Precedence[CHOOSE i \in present : \A k \in present : i <= k]
BugAggregate(verdicts) ==
    IF {"ERROR", "CLEAN"} \subseteq verdicts THEN First(verdicts \ {"ERROR"}) ELSE First(verdicts)
Aggregate(verdicts) ==
    IF First(verdicts) = "ERROR" /\ verdicts # {"ERROR"} THEN "UNKNOWN" ELSE First(verdicts)

VerdictsOf(j) == {result.verdict : result \in ToSet(job[j].results)}
AllVerdictsOf(j) == VerdictsOf(j) \cup UNION {VerdictsOf(c) : c \in job[j].derived}

----------------------------------------------------------------------------
(* The loop over the requested names. *)

\* A submitted job is started by its worker.
Start(j) ==
    /\ job[j].status = "QUEUED"
    /\ Update(j, [job[j] EXCEPT !.status = "RUNNING", !.pc = "loop"])
    /\ UNCHANGED <<tables, files, intact, crashes>>

\* A list without one of the names in it.
Without(names, out) ==
    LET kept[n \in 0 .. Len(names)] ==
            IF n = 0 THEN <<>>
            ELSE IF names[n] = out THEN kept[n - 1]
            ELSE Append(kept[n - 1], names[n])
    IN  kept[Len(names)]

\* A derived job is created and executed by the walk of its parent, and asked for all that the
\* parent was asked for but the walk.
StartDerived(j) ==
    /\ Parent[j] # Nil /\ job[j].status = "CREATED"
    /\ At(Parent[j], "container")
    /\ \A c \in Derived(Parent[j]) : job[c].pc \in {"idle", "done"}
    /\ Update(j, [job[j] EXCEPT
          !.requested = Without(job[Parent[j]].requested, "container"),
          !.status = "RUNNING", !.pc = "loop"])
    /\ UNCHANGED <<tables, files, intact, crashes>>

PassOver(j) ==
    /\ Working(j, Special)
    /\ Advance(j, job[j])
    /\ UNCHANGED <<tables, files, intact, crashes>>

\* DocumentAnalyzer.analyze() and ExecutableAnalyzer.analyze(): an object beyond the parser's limit
\* is not parsed; the parser finds nothing of its kind, raises, or returns what it has, of a
\* document perhaps marked partial, of an executable partial if there are errors.
Analyzed(native, erring) == [native |-> native, erring |-> erring, row |-> "QUALIFIED"]
NotParsed ==
    {Analyzed("unsupported_limit", TRUE), Analyzed("corrupt", TRUE),
     Analyzed("not_applicable", FALSE)}
DocumentResults ==
    NotParsed \cup {Analyzed(mark, erring) : mark \in Partial \cup {"complete"}, erring \in BOOLEAN}
ExecutableResults ==
    NotParsed \cup {Analyzed("partial_unsupported", TRUE), Analyzed("complete", FALSE)}

\* What a returned result says of the whole job.
BugCompleteness(name, result, before) ==
    IF name = "document" /\ result.erring THEN "PARTIAL_ERROR" ELSE before
Completeness(name, result, before) ==
    LET partial == name = "document" /\ result.native \in Partial
    IN  CASE partial /\ result.native = "partial_unsupported" -> "PARTIAL_UNSUPPORTED"
          [] partial /\ result.native = "partial_limit" -> "PARTIAL_LIMIT"
          [] partial /\ result.native = "partial_error" -> "PARTIAL_ERROR"
          [] ~partial /\ name \in {"document", "executable"} /\ result.erring ->
                IF result.native \in {"partial_limit", "unsupported_limit"} THEN "PARTIAL_LIMIT"
                ELSE "PARTIAL_ERROR"
          [] OTHER -> before

\* A generic analyzer returns a result and its row is saved, or either raises: a clause of its
\* own catches that, and what was done before stays.
Analyze(j) ==
    /\ Working(j, Analyzers)
    /\ \/ /\ Advance(j, [job[j] EXCEPT !.errors = @ \cup {Name(j)}])
          /\ UNCHANGED runtime
       \/ \E result \in Reported[Name(j)], saved \in BOOLEAN :
            /\ Advance(j, [job[j] EXCEPT
                  !.analyzed = @ \cup {[name |-> Name(j), native |-> result.native,
                                        erring |-> result.erring]},
                  !.errors = IF result.erring \/ ~saved THEN @ \cup {Name(j)} ELSE @,
                  !.completeness = Completeness(Name(j), result, @)])
            /\ runtime' = IF saved THEN [runtime EXCEPT ![Name(j)] = result.row] ELSE runtime
    /\ UNCHANGED <<active, earned, files, intact, crashes>>

\* A name nobody answers to, or a scanner whose probe finds it absent or degraded.
BugSkipped(j) == job[j]
Skipped(j) == [job[j] EXCEPT !.errors = @ \cup {Name(j)}]
Refuse(j) ==
    /\ Working(j, {Name(j)} \ (Analyzers \cup Special))
    /\ Advance(j, Skipped(j))
    /\ UNCHANGED <<tables, files, intact, crashes>>

\* The probe succeeds and the row of the scanner is read.
Probe(j) ==
    /\ Working(j, Scanners)
    /\ Update(j, [job[j] EXCEPT !.previous = runtime[Name(j)], !.pc = "probed"])
    /\ UNCHANGED <<tables, files, intact, crashes>>

\* The row is written back: QUALIFIED if it was that when it was read.
BugProbedRow(j) == IF job[j].previous = "ABSENT" THEN "PROBED" ELSE "QUALIFIED"
ProbedRow(j) == IF job[j].previous = "QUALIFIED" THEN "QUALIFIED" ELSE "PROBED"
SaveProbe(j) ==
    /\ At(j, "probed")
    /\ runtime' = [runtime EXCEPT ![Name(j)] = ProbedRow(j)]
    /\ Goto(j, "prepare")
    /\ UNCHANGED <<active, earned, files, intact, crashes>>

\* prepare() copies the object into a directory of its own, and run_prepared() notes the job in
\* the adapter object all workers share.
Prepare(j) ==
    /\ At(j, "prepare")
    /\ staged' = staged \cup {<<j, Name(j)>>}
    /\ active' = [active EXCEPT ![Name(j)] = j]
    /\ Goto(j, "scanning")
    /\ UNCHANGED <<runtime, earned, incoming, quarantine, intact, crashes>>

\* The command has ended; normalize() names the raw output after the job noted in the adapter.
Scan(j) ==
    /\ At(j, "scanning")
    /\ \E verdict \in CanReport[Name(j)] :
        /\ Update(j, [job[j] EXCEPT
              !.results = Append(@, [scanner |-> Name(j), verdict |-> verdict,
                                     ref |-> active[Name(j)],
                                     qualified |-> job[j].previous = "QUALIFIED"]),
              !.pc = "scanned"])
        /\ earned' = IF verdict = "ERROR" THEN earned ELSE earned \cup {Name(j)}
    /\ UNCHANGED <<runtime, active, files, intact, crashes>>

ScannedRow(j) == IF Last(job[j].results).verdict = "ERROR" THEN "DEGRADED" ELSE "QUALIFIED"
SaveScan(j) ==
    /\ At(j, "scanned")
    /\ runtime' = [runtime EXCEPT ![Name(j)] = ScannedRow(j)]
    /\ staged' = staged \ {<<j, Name(j)>>}
    /\ Advance(j, job[j])
    /\ UNCHANGED <<active, earned, incoming, quarantine, intact, crashes>>

\* Whatever of a scanner's turn raises is caught by nobody but the whole execution: the probe,
\* its row, prepare(), which may leave its directory behind, the command or its normalisation,
\* the second row, cleanup().
ScannerRaises(j) ==
    /\ \/ Working(j, Scanners) \/ At(j, "probed") \/ At(j, "scanning") \/ At(j, "scanned")
       \/ At(j, "prepare")
    /\ staged' \in IF At(j, "prepare") THEN {staged, staged \cup {<<j, Name(j)>>}}
                   ELSE {staged, staged \ {<<j, Name(j)>>}}
    /\ Raise(j)
    /\ UNCHANGED <<tables, incoming, quarantine, intact, crashes>>

EndLoop(j) ==
    /\ At(j, "loop") /\ job[j].at > Len(job[j].requested)
    /\ Update(j, [job[j] EXCEPT
          !.verdict = Aggregate(VerdictsOf(j)),
          !.pc = IF "container" \in ToSet(job[j].requested) THEN "container" ELSE "verify"])
    /\ UNCHANGED <<tables, files, intact, crashes>>

----------------------------------------------------------------------------
(* Container walk, verification and quarantine. *)

\* execute_queued() of a derived object has returned to the walk.
BugWalkOver(j) == TRUE
WalkOver(j) == \A c \in Derived(j) : job[c].pc \in {"idle", "done", "lost"}

\* The walk is over: with all it could take, cut by a limit, with something it cannot unpack, or
\* damaged, in the end by an OSError that process() catches, as a derived job's clean-up may raise.
BugHeard(j) == VerdictsOf(j)
Heard(j) == AllVerdictsOf(j)
EndContainer(j) ==
    /\ At(j, "container") /\ WalkOver(j)
    /\ \E end \in {"whole", "limit", "unsupported", "damaged"} :
        /\ (\E c \in Derived(j) : At(c, "lost")) => end = "damaged"
        /\ Update(j, [job[j] EXCEPT
              !.completeness = CASE end = "damaged" -> "PARTIAL_ERROR"
                                 [] end = "unsupported" -> "PARTIAL_UNSUPPORTED"
                                 [] end = "limit" /\ @ = "COMPLETE" -> "PARTIAL_LIMIT"
                                 [] OTHER -> @,
              !.verdict = Aggregate(Heard(j)), !.pc = "verify"])
    /\ UNCHANGED <<tables, files, intact, crashes>>

\* The walk, the correlation of the results or the hash of the source raises.
LaterStepRaises(j) ==
    /\ At(j, "verify") \/ (At(j, "container") /\ WalkOver(j))
    /\ Raise(j)
    /\ UNCHANGED <<tables, files, intact, crashes>>

\* The source is hashed again; a positive verdict goes on to admit().
Verify(j) ==
    /\ At(j, "verify")
    /\ IF j \notin intact THEN Raise(j)
       ELSE IF job[j].verdict \in Positive THEN Goto(j, "admit")
       ELSE Update(j, [job[j] EXCEPT !.status = "COMPLETE", !.pc = "finally"])
    /\ UNCHANGED <<tables, files, intact, crashes>>

Quarantined(j) == Update(j, [job[j] EXCEPT !.status = "QUARANTINED", !.pc = "finally"])

\* admit(): the digest is there already, or it is copied to an .incoming file opened exclusively.
Look(j) ==
    /\ At(j, "admit")
    /\ IF quarantine[Digest[j]] # "none" THEN Quarantined(j) ELSE Goto(j, "open")
    /\ UNCHANGED <<tables, files, intact, crashes>>

BugOpenIncoming(j) ==
    /\ At(j, "open")
    /\ Goto(j, "copy") /\ incoming' = [incoming EXCEPT ![Digest[j]] = "part"]
    /\ UNCHANGED <<tables, staged, quarantine, intact, crashes>>
OpenIncoming(j) ==
    /\ At(j, "open")
    /\ IF incoming[Digest[j]] # "none"
       THEN Raise(j) /\ UNCHANGED incoming
       ELSE Goto(j, "copy") /\ incoming' = [incoming EXCEPT ![Digest[j]] = "part"]
    /\ UNCHANGED <<tables, staged, quarantine, intact, crashes>>

Copy(j) ==
    /\ At(j, "copy")
    /\ incoming' = [incoming EXCEPT ![Digest[j]] = IF j \in intact THEN "whole" ELSE "other"]
    /\ Goto(j, "replace")
    /\ UNCHANGED <<tables, staged, quarantine, intact, crashes>>

Replace(j) ==
    /\ At(j, "replace")
    /\ quarantine' = [quarantine EXCEPT ![Digest[j]] = incoming[Digest[j]]]
    /\ incoming' = [incoming EXCEPT ![Digest[j]] = "none"]
    /\ Quarantined(j)
    /\ UNCHANGED <<tables, staged, intact, crashes>>

\* A full disk, or any other OSError of admit(): the .incoming file stays.
AdmitRaises(j) ==
    /\ job[j].pc \in {"admit", "open", "copy", "replace"}
    /\ Raise(j)
    /\ UNCHANGED <<tables, files, intact, crashes>>

\* The finally clause removes the job's staging directory.  A derived job then is an object of
\* its parent, unless the removal raised an OSError.
BugLeftStaged(j) == staged
LeftStaged(j) == {dir \in staged : dir[1] # j}
Finish(j) ==
    /\ At(j, "finally")
    /\ job' = [k \in Jobs |->
                  CASE k = j -> [job[k] EXCEPT !.pc = "done"]
                    [] k = Parent[j] -> [job[k] EXCEPT !.derived = @ \cup {j}]
                    [] OTHER -> job[k]]
    /\ staged' = LeftStaged(j)
    /\ UNCHANGED <<tables, incoming, quarantine, intact, crashes>>
FinishRaises(j) ==
    /\ At(j, "finally")
    /\ Goto(j, "lost")
    /\ staged' \in {staged, LeftStaged(j)}
    /\ UNCHANGED <<tables, incoming, quarantine, intact, crashes>>

----------------------------------------------------------------------------
(* Other programs, and the end of the process. *)

Rewrite(j) ==
    /\ j \in Rewritable \cap intact /\ job[j].status = "RUNNING"
    /\ intact' = intact \ {j}
    /\ UNCHANGED <<job, tables, files, crashes>>

Busy(j) == job[j].pc \notin {"idle", "done", "lost", "dead"}

\* Running jobs are never taken up again; files and rows stay; the adapters are new objects.
Crash ==
    /\ crashes < MaxCrashes
    /\ \E j \in Jobs : Busy(j)
    /\ crashes' = crashes + 1
    /\ job' = [j \in Jobs |-> IF Busy(j) THEN [job[j] EXCEPT !.pc = "dead"] ELSE job[j]]
    /\ active' = [s \in Scanners |-> Nil]
    /\ UNCHANGED <<runtime, earned, files, intact>>

Step(j) ==
    \/ Start(j) \/ StartDerived(j) \/ PassOver(j) \/ Analyze(j) \/ Refuse(j) \/ Probe(j) \/ SaveProbe(j)
    \/ Prepare(j) \/ Scan(j) \/ SaveScan(j) \/ ScannerRaises(j) \/ EndLoop(j)
    \/ EndContainer(j) \/ LaterStepRaises(j) \/ Verify(j)
    \/ Look(j) \/ OpenIncoming(j) \/ Copy(j) \/ Replace(j) \/ AdmitRaises(j)
    \/ Finish(j) \/ FinishRaises(j)

AllDone ==
    /\ \A j \in Jobs : ~Busy(j) /\ job[j].status # "QUEUED"
    /\ UNCHANGED vars

Next == (\E j \in Jobs : Step(j) \/ Rewrite(j)) \/ Crash \/ AllDone
Spec == Init /\ [][Next]_vars

----------------------------------------------------------------------------
Ended(j) == job[j].status \in Finished

\* Types; at most one thread is at work for a submitted job and what derives from it.
TypeOK ==
    /\ job \in [Jobs -> ScanJob]
    /\ runtime \in [Scanners \cup Analyzers -> Rows]
    /\ active \in [Scanners -> Jobs \cup {Nil}]
    /\ staged \subseteq Jobs \X Scanners
    /\ incoming \in [{Digest[j] : j \in Jobs} -> Copies]
    /\ quarantine \in [{Digest[j] : j \in Jobs} -> Copies]
    /\ intact \subseteq Jobs /\ earned \subseteq Scanners /\ crashes \in 0 .. MaxCrashes
    /\ \A c \in Jobs : Parent[c] # Nil /\ job[c].pc \notin {"idle", "done", "lost", "dead"} =>
          /\ At(Parent[c], "container")
          /\ \A d \in Derived(Parent[c]) \ {c} : job[d].pc \in {"idle", "done"}

\* What the walk and the loop found is acted on, however many steps later: a job that ends
\* COMPLETE has no positive result, of its own or of a derived object; one that ends QUARANTINED
\* has one, and its bytes are in quarantine (scanning.py:206-224).
VerdictIsActedOn ==
    \A j \in Jobs :
        /\ job[j].status = "COMPLETE" => AllVerdictsOf(j) \cap Positive = {}
        /\ job[j].status = "QUARANTINED" =>
              AllVerdictsOf(j) \cap Positive # {} /\ quarantine[Digest[j]] # "none"

\* A requested scanner is accounted for by a result that is neither an error nor positive, or it
\* is among the errors of the job, as one that was refused; an analyzer by what it returned.
Accounted(j, name) ==
    \/ name \in job[j].errors
    \/ \E result \in ToSet(job[j].results) :
          result.scanner = name /\ result.verdict \notin Positive \cup {"ERROR"}
    \/ \E result \in job[j].analyzed : result.name = name

\* "Errors prevent an all-clean claim" (scanning.py:26), of results: a finished job is CLEAN only
\* if some scanner said so, no result of it or of a derived object is an error or positive, and
\* every scanner asked for, by it and by each derived job that did not fail, is accounted for.
\* What left no result does not prevent the claim: a scanner that was refused, here or there, and
\* a derived job that FAILED when one raised (scanning.py:177) are in the errors alone.
CleanIsEarned ==
    \A j \in Jobs : job[j].status = "COMPLETE" /\ job[j].verdict = "CLEAN" =>
        /\ "CLEAN" \in AllVerdictsOf(j)
        /\ \A d \in {j} \cup job[j].derived :
              /\ VerdictsOf(d) \cap (Positive \cup {"ERROR"}) = {}
              /\ job[d].status \in {"COMPLETE", "QUARANTINED"} =>
                    \A name \in ToSet(job[d].requested) \ Special : Accounted(d, name)

\* Every requested name of a job that was not FAILED left a result or an error: absent, degraded
\* and unknown scanners and raising analyzers do not vanish (scanning.py:109-160).
NothingSkippedSilently ==
    \A j \in Jobs : job[j].status \in {"COMPLETE", "QUARANTINED"} =>
        \A name \in ToSet(job[j].requested) \ Special :
            \/ name \in job[j].errors
            \/ \E result \in ToSet(job[j].results) : result.scanner = name
            \/ \E result \in job[j].analyzed : result.name = name

\* A job is COMPLETE in the sense of completeness only if no document or executable analyzer
\* reported errors and no document was partial, whatever came after it (scanning.py:117-134,
\* containers.py:114-118).
PartialIsSaid ==
    \A j \in Jobs : Ended(j) /\ job[j].completeness = "COMPLETE" =>
        \A result \in job[j].analyzed :
            /\ result.name \in {"document", "executable"} => ~result.erring
            /\ result.name = "document" => result.native \notin Partial

\* What lies in quarantine is never half a copy, and is what its name says unless another program
\* rewrote a source of that digest after the verification (preservation/service.py:34-40).
QuarantineIsWhole ==
    \A d \in DOMAIN quarantine :
        /\ quarantine[d] # "part"
        /\ quarantine[d] = "other" => \E j \in Rewritable \ intact : Digest[j] = d

\* A job that ended leaves nothing in staging, whichever step of it raised, unless the removal
\* itself did (scanning.py:204-231).
StagingIsTransient ==
    \A dir \in staged : ~At(dir[1], "done")

\* QUALIFIED, in a row or in a result, means that the scanner once ran without an error, however
\* the reads and writes of two workers interleave (scanning.py:161-203).
QualificationIsEarned ==
    /\ \A s \in Scanners : runtime[s] = "QUALIFIED" => s \in earned
    /\ \A j \in Jobs : \A result \in ToSet(job[j].results) :
          result.qualified => result.scanner \in earned

\* "MALICIOUS/SUSPICIOUS/PUA: copy to immutable quarantine CAS" (docs/m11-rab-protocol.md:27): a
\* job that ended with a positive result has its bytes in quarantine.
PositiveIsQuarantined ==
    \A j \in Jobs : At(j, "done") /\ VerdictsOf(j) \cap Positive # {} =>
        quarantine[Digest[j]] # "none"

\* "Exact process/output attribution" (docs/scanner-adapters.md:9): the raw output a result refers
\* to is filed under the job of the result.
RawOutputIsOwn ==
    \A j \in Jobs : \A result \in ToSet(job[j].results) : result.ref = j
=============================================================================
