------------------------ MODULE ScanExecutionProofs ------------------------
(***************************************************************************)
(* Theorems about ScanExecution, for any jobs, scanners and analyzers,     *)
(* any requests and any interleaving of the workers, with a raising step   *)
(* or a crash at any point.                                                *)
(***************************************************************************)
EXTENDS ScanExecution, InductionFacts

(***************************************************************************)
(* What the recursive function of Without computes, and its type.          *)
(***************************************************************************)

\* The value at n of the function Without computes, from the function itself.
Keep(names, out, kept, n) ==
    IF n = 0 THEN <<>>
    ELSE IF names[n] = out THEN kept[n - 1]
    ELSE Append(kept[n - 1], names[n])

Keeps(names, out, n, kept) == kept = [i \in 0 .. n |-> Keep(names, out, kept, i)]

\* It exists, as it does up to any point.
LEMMA KeptExists ==
  ASSUME NEW names, NEW out, NEW n \in Nat
  PROVE  \E kept : Keeps(names, out, n, kept)
  <1> DEFINE Upto(m) == \E kept : Keeps(names, out, m, kept)
             S == {m \in Nat : Upto(m)}
  <1>1. 0 \in S
    <2>1. Upto(0)
      <3> DEFINE kept == [i \in 0 .. 0 |-> <<>>]
      <3>1. kept = [i \in 0 .. 0 |-> Keep(names, out, kept, i)]
        BY DEF Keep
      <3> QED
        BY <3>1 DEF Keeps
    <2> QED
      BY <2>1
  <1>2. ASSUME NEW m \in Nat, m \in S PROVE m + 1 \in S
    <2>1. PICK kept : kept = [i \in 0 .. m |-> Keep(names, out, kept, i)]
      BY <1>2 DEF Keeps
    <2> DEFINE more == [i \in 0 .. m + 1 |->
                           IF i <= m THEN kept[i] ELSE Keep(names, out, kept, i)]
    <2>2. \A i \in 0 .. m + 1 : more[i] = Keep(names, out, kept, i)
      BY <2>1
    <2>3. \A i \in 0 .. m + 1 : Keep(names, out, kept, i) = Keep(names, out, more, i)
      BY DEF Keep
    <2>4. more = [i \in 0 .. m + 1 |-> Keep(names, out, more, i)]
      BY <2>2, <2>3
    <2> HIDE DEF more
    <2>5. Upto(m + 1)
      BY <2>4 DEF Keeps
    <2> QED
      BY <2>5
  <1> HIDE DEF S
  <1>3. n \in S
    BY <1>1, <1>2, Induction
  <1> QED
    BY <1>3 DEF S

LEMMA WithoutType ==
  ASSUME NEW T, NEW names \in Seq(T), NEW out
  PROVE  Without(names, out) \in Seq(T)
  <1> DEFINE kept == CHOOSE f : Keeps(names, out, Len(names), f)
             S == {m \in Nat : m <= Len(names) => kept[m] \in Seq(T)}
  <1>1. kept = [i \in 0 .. Len(names) |-> Keep(names, out, kept, i)]
    <2>1. \E f : Keeps(names, out, Len(names), f)
      <3>1. Len(names) \in Nat
        OBVIOUS
      <3> QED
        BY <3>1, KeptExists
    <2>2. Keeps(names, out, Len(names), kept)
      BY <2>1
    <2> QED
      BY <2>2 DEF Keeps
  <1> HIDE DEF kept
  <1>2. 0 \in S
    BY <1>1 DEF Keep
  <1>3. ASSUME NEW m \in Nat, m \in S PROVE m + 1 \in S
    <2> SUFFICES ASSUME m + 1 <= Len(names) PROVE kept[m + 1] \in Seq(T)
      OBVIOUS
    <2>1. kept[m + 1] = Keep(names, out, kept, m + 1)
      BY <1>1
    <2>2. kept[m] \in Seq(T) /\ names[m + 1] \in T
      BY <1>3
    <2> QED
      BY <2>1, <2>2 DEF Keep
  <1> HIDE DEF S
  <1>4. Len(names) \in S
    BY <1>2, <1>3, Induction
  <1>5. kept[Len(names)] \in Seq(T)
    BY <1>4 DEF S
  <1> QED
    BY <1>5 DEF Without, Keep, Keeps, kept

\* Where a job is in its turn of a scanner, after its loop, and in admit().
Turn == {"probed", "prepare", "scanning", "scanned"}
Admitting == {"admit", "open", "copy", "replace"}
Later == {"container", "verify"} \cup Admitting
AtWork == {"loop"} \cup Turn \cup Later
Over == {"finally", "done", "lost"}

\* The status goes with the place, and what a scanner's turn is about is a requested scanner.
Staged(j, r) ==
    /\ r.status \in {"CREATED", "QUEUED"} <=> r.pc = "idle"
    /\ r.pc \in AtWork => r.status = "RUNNING"
    /\ r.pc \in Over => r.status \in Finished
    /\ r.status = "QUEUED" => Parent[j] = Nil
    /\ r.at >= 1
    /\ r.pc = "idle" => r.at = 1 /\ r.results = <<>>
    /\ r.pc \in Turn => r.at \in 1 .. Len(r.requested) /\ r.requested[r.at] \in Scanners
    /\ r.pc = "scanned" =>
          r.results # <<>> /\ r.results[Len(r.results)].scanner = r.requested[r.at]

JobsFit == job \in [Jobs -> ScanJob] /\ \A j \in Jobs : Staged(j, job[j])

\* The walk runs one derived job at a time.
Resting == {"idle", "done", "lost", "dead"}
WalkOrder ==
    \A c \in Jobs : Parent[c] # Nil /\ job[c].pc \notin Resting =>
        /\ At(Parent[c], "container")
        /\ \A d \in Derived(Parent[c]) \ {c} : job[d].pc \in {"idle", "done"}

TableTypes ==
    /\ runtime \in [Scanners \cup Analyzers -> Rows]
    /\ active \in [Scanners -> Jobs \cup {Nil}]
    /\ earned \subseteq Scanners
FileTypes ==
    /\ staged \subseteq Jobs \X Scanners
    /\ incoming \in [{Digest[j] : j \in Jobs} -> Copies]
    /\ quarantine \in [{Digest[j] : j \in Jobs} -> Copies]
RestTypes == intact \subseteq Jobs /\ crashes \in 0 .. MaxCrashes

TypeInv == JobsFit /\ WalkOrder /\ TableTypes /\ FileTypes /\ RestTypes

LEMMA TypeInvIsEnough == TypeInv => TypeOK
  BY DEF TypeInv, TypeOK, JobsFit, WalkOrder, Resting, TableTypes, FileTypes, RestTypes

LEMMA JobFits == ASSUME TypeInv, NEW j \in Jobs PROVE job[j] \in ScanJob /\ Staged(j, job[j])
  BY DEF TypeInv, JobsFit

\* A thread at work that goes on, or ends with no derived job at work, keeps all this.
LEMMA Updated ==
  ASSUME JobsFit, NEW j \in Jobs, NEW r \in ScanJob, Staged(j, r), Update(j, r)
  PROVE  /\ JobsFit' /\ job'[j] = r
         /\ \A k \in Jobs \ {j} : job'[k] = job[k]
  BY DEF JobsFit, Update

LEMMA Worked ==
  ASSUME TypeInv, NEW j \in Jobs, NEW r \in ScanJob, Staged(j, r), Update(j, r),
         job[j].pc \notin Resting, At(j, "container") => WalkOver(j)
  PROVE  JobsFit' /\ WalkOrder'
  <1>1. JobsFit' /\ job'[j] = r /\ \A k \in Jobs \ {j} : job'[k] = job[k]
    BY Updated DEF TypeInv
  <1>2. ASSUME NEW c \in Jobs, Parent[c] # Nil, job'[c].pc \notin Resting
        PROVE  /\ Parent[c] # j /\ At(Parent[c], "container") /\ Parent[c] \in Jobs
               /\ \A d \in Derived(Parent[c]) \ {c} : d # j /\ job[d].pc \in {"idle", "done"}
    <2>1. job[c].pc \notin Resting
      BY <1>1, <1>2
    <2>2. /\ At(Parent[c], "container") /\ Parent[c] \in Jobs
          /\ \A d \in Derived(Parent[c]) \ {c} : d # j /\ job[d].pc \in {"idle", "done"}
      BY <1>2, <2>1, JobsAssumption DEF TypeInv, WalkOrder, Resting
    <2>3. Parent[c] # j
      BY <2>1, <2>2 DEF WalkOver, Derived, Resting
    <2> QED
      BY <2>2, <2>3
  <1>3. WalkOrder'
    BY <1>1, <1>2, JobsAssumption DEF WalkOrder, At, Derived
  <1> QED
    BY <1>1, <1>3

-----------------------------------------------------------------------------
(* What aggregate_verdict() makes of a set of verdicts.                      *)

LEMMA FirstIsThere ==
  ASSUME NEW verdicts \in SUBSET Verdicts
  PROVE  \E i \in 1 .. 8 :
            /\ First(verdicts) = Precedence[i]
            /\ Precedence[i] \in verdicts \cup {"NOT_SCANNED"}
            /\ \A k \in 1 .. 8 : k < i => Precedence[k] \notin verdicts \cup {"NOT_SCANNED"}
  <1> DEFINE present == {i \in DOMAIN Precedence : Precedence[i] \in verdicts \cup {"NOT_SCANNED"}}
             Least(i) == \A k \in present : i <= k
  <1>1. DOMAIN Precedence = 1 .. 8 /\ Precedence[8] = "NOT_SCANNED"
    BY DEF Precedence
  <1>2. present \subseteq 1 .. 8 /\ 8 \in present
    BY <1>1
  <1>3. \E i \in present : Least(i)
    <2> HIDE DEF present
    <2> SUFFICES ASSUME \A i \in present : ~Least(i) PROVE FALSE
      OBVIOUS
    <2>1. \A i \in present : \E k \in present : k < i
      BY <1>2
    <2>2. 1 \notin present
      BY <1>2, <2>1
    <2>3. 2 \notin present
      BY <1>2, <2>1, <2>2
    <2>4. 3 \notin present
      BY <1>2, <2>1, <2>2, <2>3
    <2>5. 4 \notin present
      BY <1>2, <2>1, <2>2, <2>3, <2>4
    <2>6. 5 \notin present
      BY <1>2, <2>1, <2>2, <2>3, <2>4, <2>5
    <2>7. 6 \notin present
      BY <1>2, <2>1, <2>2, <2>3, <2>4, <2>5, <2>6
    <2>8. 7 \notin present
      BY <1>2, <2>1, <2>2, <2>3, <2>4, <2>5, <2>6, <2>7
    <2> QED
      BY <1>2, <2>1, <2>2, <2>3, <2>4, <2>5, <2>6, <2>7, <2>8
  <1> DEFINE i == CHOOSE i \in present : Least(i)
  <1>4. i \in present /\ Least(i)
    BY <1>3
  <1>5. First(verdicts) = Precedence[i]
    BY DEF First
  <1> HIDE DEF i
  <1> QED
    BY <1>1, <1>2, <1>4, <1>5

LEMMA AggregateIs ==
  ASSUME NEW verdicts \in SUBSET Verdicts
  PROVE  /\ Aggregate(verdicts) \in Verdicts
         /\ Aggregate(verdicts) \in Positive <=> verdicts \cap Positive # {}
         /\ Aggregate(verdicts) = "CLEAN" =>
               "CLEAN" \in verdicts /\ verdicts \cap (Positive \cup {"ERROR"}) = {}
  <1>1. PICK i \in 1 .. 8 :
            /\ First(verdicts) = Precedence[i]
            /\ Precedence[i] \in verdicts \cup {"NOT_SCANNED"}
            /\ \A k \in 1 .. 8 : k < i => Precedence[k] \notin verdicts \cup {"NOT_SCANNED"}
    BY FirstIsThere
  <1>2. /\ Precedence[1] = "MALICIOUS" /\ Precedence[2] = "PUA" /\ Precedence[3] = "SUSPICIOUS"
        /\ Precedence[4] = "ERROR" /\ Precedence[5] = "CLEAN" /\ Precedence[6] = "UNKNOWN"
        /\ Precedence[7] = "UNSUPPORTED" /\ Precedence[8] = "NOT_SCANNED"
    BY DEF Precedence
  <1>3. First(verdicts) \in Verdicts
    BY <1>1, <1>2 DEF Verdicts, Positive
  <1>4. First(verdicts) \in Positive <=> verdicts \cap Positive # {}
    BY <1>1, <1>2 DEF Positive
  <1>5. First(verdicts) = "CLEAN" =>
            "CLEAN" \in verdicts /\ verdicts \cap (Positive \cup {"ERROR"}) = {}
    <2> SUFFICES ASSUME First(verdicts) = "CLEAN"
                 PROVE  "CLEAN" \in verdicts /\ verdicts \cap (Positive \cup {"ERROR"}) = {}
      OBVIOUS
    <2>1. i = 5
      BY <1>1, <1>2
    <2>2. \A k \in 1 .. 4 : Precedence[k] \notin verdicts
      BY <1>1, <2>1
    <2>3. /\ Precedence[1] \notin verdicts /\ Precedence[2] \notin verdicts
          /\ Precedence[3] \notin verdicts /\ Precedence[4] \notin verdicts
      BY <2>2
    <2> QED
      BY <1>1, <1>2, <2>1, <2>3 DEF Positive
  <1> QED
    BY <1>3, <1>4, <1>5 DEF Aggregate, Verdicts, Positive

-----------------------------------------------------------------------------
(* Every step keeps the types.                                               *)

\* A job at work fails, or goes on to another place.
LEMMA RaisedFits ==
  ASSUME TypeInv, NEW j \in Jobs, job[j].pc \in AtWork, At(j, "container") => WalkOver(j),
         Raise(j)
  PROVE  JobsFit' /\ WalkOrder'
  <1> DEFINE r == [job[j] EXCEPT !.errors = @ \cup {"exception"}, !.status = "FAILED",
                                 !.pc = "finally"]
  <1>0. job[j] \in ScanJob /\ Staged(j, job[j])
    BY JobFits
  <1>1. r \in ScanJob
    BY <1>0 DEF ScanJob, Status
  <1>2. Staged(j, r)
    BY <1>0 DEF ScanJob, Staged, Finished, AtWork, Turn, Later, Over, Admitting
  <1>3. Update(j, r)
    BY DEF Raise
  <1> HIDE DEF r
  <1> QED
    BY <1>1, <1>2, <1>3, Worked DEF AtWork, Turn, Later, Admitting, Resting

LEMMA GoneFits ==
  ASSUME TypeInv, NEW j \in Jobs, job[j].pc \in AtWork, At(j, "container") => WalkOver(j),
         NEW to \in AtWork, to \in Turn => to # "scanned" /\ job[j].pc \in Turn, Goto(j, to)
  PROVE  JobsFit' /\ WalkOrder'
  <1> DEFINE r == [job[j] EXCEPT !.pc = to]
  <1>0. job[j] \in ScanJob /\ Staged(j, job[j])
    BY JobFits
  <1>1. r \in ScanJob
    BY <1>0 DEF ScanJob, AtWork, Turn, Later, Admitting
  <1>2. Staged(j, r)
    BY <1>0 DEF ScanJob, Staged, Finished, AtWork, Turn, Later, Over, Admitting
  <1>3. Update(j, r)
    BY DEF Goto
  <1> HIDE DEF r
  <1> QED
    BY <1>1, <1>2, <1>3, Worked DEF AtWork, Turn, Later, Admitting, Resting

\* A job in its loop goes on to the next name.
LEMMA AdvancedFits ==
  ASSUME TypeInv, NEW j \in Jobs, job[j].pc \in {"loop"} \cup Turn,
         NEW new \in ScanJob, new.status = "RUNNING", new.at = job[j].at, Advance(j, new)
  PROVE  JobsFit' /\ WalkOrder'
  <1> DEFINE r == [new EXCEPT !.at = @ + 1, !.pc = "loop"]
  <1>0. job[j] \in ScanJob /\ Staged(j, job[j])
    BY JobFits
  <1>1. r \in ScanJob
    <2>1. new.at + 1 \in Nat
      BY DEF ScanJob
    <2> QED
      BY <2>1 DEF ScanJob
  <1>2. Staged(j, r)
    BY <1>0 DEF ScanJob, Staged, Finished, AtWork, Turn, Later, Over, Admitting
  <1>3. Update(j, r)
    BY DEF Advance
  <1> HIDE DEF r
  <1> QED
    BY <1>1, <1>2, <1>3, Worked DEF Turn, Resting, At

LEMMA StartTypeInv ==
  ASSUME TypeInv, NEW j \in Jobs, Start(j) \/ StartDerived(j)
  PROVE  TypeInv'
  <1> USE DEF tables, files
  <1>0. job[j] \in ScanJob /\ Staged(j, job[j])
    BY JobFits
  <1>1. PICK asked \in Seq(Names) :
            Update(j, [job[j] EXCEPT !.requested = asked, !.status = "RUNNING", !.pc = "loop"])
    <2>1. CASE Start(j)
      <3>1. [job[j] EXCEPT !.requested = job[j].requested, !.status = "RUNNING", !.pc = "loop"]
              = [job[j] EXCEPT !.status = "RUNNING", !.pc = "loop"]
        BY <1>0 DEF ScanJob
      <3>2. job[j].requested \in Seq(Names)
        BY <1>0 DEF ScanJob
      <3> QED
        BY <2>1, <3>1, <3>2 DEF Start
    <2>2. CASE StartDerived(j)
      <3>1. Parent[j] \in Jobs
        BY <2>2, JobsAssumption DEF StartDerived
      <3>2. job[Parent[j]].requested \in Seq(Names)
        BY <3>1, JobFits DEF ScanJob
      <3>3. Without(job[Parent[j]].requested, "container") \in Seq(Names)
        BY <3>2, WithoutType
      <3> QED
        BY <2>2, <3>3 DEF StartDerived
    <2> QED
      BY <2>1, <2>2
  <1> DEFINE r == [job[j] EXCEPT !.requested = asked, !.status = "RUNNING", !.pc = "loop"]
  <1>2. r \in ScanJob
    BY <1>0 DEF ScanJob, Status
  <1>3. job[j].pc = "idle"
    BY <1>0 DEF Start, StartDerived, Staged
  <1>4. Staged(j, r)
    BY <1>0, <1>3 DEF ScanJob, Staged, Finished, AtWork, Turn, Later, Over, Admitting
  <1>5. r.pc = "loop"
    BY <1>0 DEF ScanJob
  <1>6. Update(j, r)
    BY <1>1
  <1> HIDE DEF r
  <1>7. JobsFit' /\ job'[j] = r /\ \A k \in Jobs \ {j} : job'[k] = job[k]
    BY <1>2, <1>4, <1>6, Updated DEF TypeInv
  <1>8. WalkOrder'
    <2> SUFFICES ASSUME NEW c \in Jobs, Parent[c] # Nil, job'[c].pc \notin Resting
                 PROVE  /\ At(Parent[c], "container")'
                        /\ \A d \in Derived(Parent[c]) \ {c} : job'[d].pc \in {"idle", "done"}
      BY DEF WalkOrder, Derived
    <2>1. Parent[c] \in Jobs /\ Parent[Parent[c]] = Nil
      BY JobsAssumption
    <2>2. CASE c = j
      <3>1. StartDerived(j)
        BY <1>0, <2>2 DEF Start, Staged
      <3>2. /\ Parent[c] # j /\ At(Parent[c], "container")
            /\ \A d \in Derived(Parent[c]) : job[d].pc \in {"idle", "done"}
        BY <1>3, <2>1, <2>2, <3>1 DEF StartDerived, At
      <3> QED
        BY <1>7, <2>1, <2>2, <3>2 DEF At, Derived
    <2>3. CASE c # j
      <3>1. /\ At(Parent[c], "container")
            /\ \A d \in Derived(Parent[c]) \ {c} : job[d].pc \in {"idle", "done"}
        BY <1>7, <2>3 DEF TypeInv, WalkOrder
      <3>2. Parent[c] # j
        BY <1>3, <3>1 DEF At
      <3>3. j \notin Derived(Parent[c])
        <4> SUFFICES ASSUME Parent[j] = Parent[c] PROVE FALSE
          BY DEF Derived
        <4>1. StartDerived(j)
          BY <1>0 DEF Start, Staged
        <4>2. job[c].pc \in {"idle", "done"}
          BY <4>1 DEF StartDerived, Derived
        <4> QED
          BY <1>7, <2>3, <4>2 DEF Resting
      <3> QED
        BY <1>7, <2>1, <3>1, <3>2, <3>3 DEF At, Derived
    <2> QED
      BY <2>2, <2>3
  <1>9. UNCHANGED <<runtime, active, earned, staged, incoming, quarantine, intact, crashes>>
    BY DEF Start, StartDerived
  <1> QED
    BY <1>7, <1>8, <1>9 DEF TypeInv, TableTypes, FileTypes, RestTypes

\* The name a job looks at.
LEMMA NameFits ==
  ASSUME TypeInv, NEW j \in Jobs, NEW set, Working(j, set)
  PROVE  /\ At(j, "loop") /\ job[j].status = "RUNNING"
         /\ job[j].at \in 1 .. Len(job[j].requested) /\ Name(j) \in Names \cap set
  <1>1. job[j] \in ScanJob /\ Staged(j, job[j])
    BY JobFits
  <1>2. job[j].requested \in Seq(Names) /\ job[j].at \in Nat
    BY <1>1 DEF ScanJob
  <1> QED
    BY <1>1, <1>2 DEF Working, At, Name, Staged, AtWork

LEMMA TurnFits ==
  ASSUME TypeInv, NEW j \in Jobs, job[j].pc \in Turn
  PROVE  /\ job[j].status = "RUNNING" /\ job[j].at \in 1 .. Len(job[j].requested)
         /\ Name(j) \in Scanners
  BY JobFits DEF Staged, AtWork, Name

\* A scanner result, and the results of a job.
Result == [scanner : Scanners, verdict : Verdicts, ref : Jobs \cup {Nil}, qualified : BOOLEAN]

LEMMA ElementsFit ==
  ASSUME NEW T, NEW s \in Seq(T)
  PROVE  /\ Len(s) \in Nat /\ DOMAIN s = 1 .. Len(s)
         /\ \A i \in 1 .. Len(s) : s[i] \in T
         /\ \A x : x \in ToSet(s) <=> \E i \in 1 .. Len(s) : s[i] = x
  BY DEF ToSet

LEMMA ResultsFit ==
  ASSUME TypeInv, NEW j \in Jobs
  PROVE  /\ job[j].results \in Seq(Result) /\ Len(job[j].results) \in Nat
         /\ \A i \in 1 .. Len(job[j].results) : job[j].results[i] \in Result
         /\ \A x : x \in ToSet(job[j].results) <=>
                \E i \in 1 .. Len(job[j].results) : job[j].results[i] = x
  <1>1. job[j].results \in Seq(Result)
    BY JobFits DEF ScanJob, Result
  <1> QED
    BY ONLY <1>1, ElementsFit

LEMMA VerdictsFit == ASSUME TypeInv, NEW j \in Jobs PROVE VerdictsOf(j) \in SUBSET Verdicts
  <1>1. \A x \in Result : x.verdict \in Verdicts
    BY DEF Result
  <1>2. \A x \in ToSet(job[j].results) : x \in Result
    <2>1. /\ \A i \in 1 .. Len(job[j].results) : job[j].results[i] \in Result
          /\ \A x : x \in ToSet(job[j].results) <=>
                \E i \in 1 .. Len(job[j].results) : job[j].results[i] = x
      BY ResultsFit
    <2> QED
      BY ONLY <2>1
  <1> QED
    BY <1>1, <1>2 DEF VerdictsOf

LEMMA LoopTypeInv ==
  ASSUME TypeInv, NEW j \in Jobs, PassOver(j) \/ Analyze(j) \/ Refuse(j) \/ Probe(j) \/ EndLoop(j)
  PROVE  TypeInv'
  <1> USE DEF tables, files
  <1>0. job[j] \in ScanJob /\ Staged(j, job[j])
    BY JobFits
  <1>1. CASE PassOver(j) \/ Refuse(j)
    <2> DEFINE new == IF PassOver(j) THEN job[j] ELSE Skipped(j)
    <2>1. At(j, "loop") /\ job[j].status = "RUNNING" /\ Name(j) \in Names
      BY <1>1, NameFits DEF PassOver, Refuse
    <2>2. new \in ScanJob /\ new.status = "RUNNING" /\ new.at = job[j].at
      <3>1. job[j].errors \cup {Name(j)} \in SUBSET (Names \cup {"exception"})
        BY <1>0, <2>1 DEF ScanJob
      <3> QED
        BY <1>0, <2>1, <3>1 DEF Skipped, ScanJob
    <2>3. Advance(j, new)
      BY <1>1 DEF PassOver, Refuse
    <2> HIDE DEF new
    <2>4. JobsFit' /\ WalkOrder'
      BY <2>1, <2>2, <2>3, AdvancedFits DEF At
    <2>5. UNCHANGED <<tables, files, intact, crashes>>
      BY <1>1 DEF PassOver, Refuse
    <2> QED
      BY <2>4, <2>5 DEF TypeInv, TableTypes, FileTypes, RestTypes
  <1>2. CASE Analyze(j)
    <2>1. At(j, "loop") /\ job[j].status = "RUNNING" /\ Name(j) \in Names \cap Analyzers
      BY <1>2, NameFits DEF Analyze
    <2>2. PICK new \in ScanJob :
             Advance(j, new) /\ new.status = "RUNNING" /\ new.at = job[j].at
      <3>1. job[j].errors \cup {Name(j)} \in SUBSET (Names \cup {"exception"})
        BY <1>0, <2>1 DEF ScanJob
      <3>2. CASE Advance(j, [job[j] EXCEPT !.errors = @ \cup {Name(j)}])
        <4>1. [job[j] EXCEPT !.errors = @ \cup {Name(j)}] \in ScanJob
          BY <1>0, <3>1 DEF ScanJob
        <4>2. [job[j] EXCEPT !.errors = @ \cup {Name(j)}].status = "RUNNING"
          BY <1>0, <2>1 DEF ScanJob
        <4>3. [job[j] EXCEPT !.errors = @ \cup {Name(j)}].at = job[j].at
          BY <1>0, <2>1 DEF ScanJob
        <4> QED
          BY <3>2, <4>1, <4>2, <4>3
      <3>3. ASSUME NEW result \in Reported[Name(j)], NEW saved \in BOOLEAN,
                   Advance(j, [job[j] EXCEPT
                      !.analyzed = @ \cup {[name |-> Name(j), native |-> result.native,
                                            erring |-> result.erring]},
                      !.errors = IF result.erring \/ ~saved THEN @ \cup {Name(j)} ELSE @,
                      !.completeness = Completeness(Name(j), result, @)])
            PROVE  \E new \in ScanJob :
                      Advance(j, new) /\ new.status = "RUNNING" /\ new.at = job[j].at
        <4> DEFINE analyzed == job[j].analyzed \cup {[name |-> Name(j), native |-> result.native,
                                                      erring |-> result.erring]}
                   errors == IF result.erring \/ ~saved THEN job[j].errors \cup {Name(j)}
                             ELSE job[j].errors
                   completeness == Completeness(Name(j), result, job[j].completeness)
                   new == [job[j] EXCEPT !.analyzed = analyzed, !.errors = errors,
                                         !.completeness = completeness]
        <4>1. result.native \in Natives /\ result.erring \in BOOLEAN
          BY <2>1, NamesAssumption
        <4>2. analyzed \in SUBSET [name : Analyzers, native : Natives, erring : BOOLEAN]
          BY <1>0, <2>1, <4>1 DEF ScanJob
        <4>3. errors \in SUBSET (Names \cup {"exception"})
          BY <1>0, <3>1 DEF ScanJob
        <4>4. completeness \in {"COMPLETE", "PARTIAL_LIMIT", "PARTIAL_UNSUPPORTED", "PARTIAL_ERROR"}
          BY <1>0 DEF ScanJob, Completeness
        <4>5. Advance(j, new)
          BY <3>3
        <4> HIDE DEF analyzed, errors, completeness
        <4>6. new \in ScanJob
          BY <1>0, <4>2, <4>3, <4>4 DEF ScanJob
        <4>7. new.status = "RUNNING" /\ new.at = job[j].at
          BY <1>0, <2>1 DEF ScanJob
        <4> QED
          BY <4>5, <4>6, <4>7
      <3> QED
        BY <1>2, <3>2, <3>3 DEF Analyze
    <2>3. JobsFit' /\ WalkOrder'
      BY <2>1, <2>2, AdvancedFits DEF At
    <2>4. runtime' \in [Scanners \cup Analyzers -> Rows]
      <3>1. ASSUME NEW result \in Reported[Name(j)] PROVE result.row \in Rows
        BY <2>1, NamesAssumption
      <3> QED
        BY <1>2, <3>1 DEF Analyze, TypeInv, TableTypes
    <2> QED
      BY <1>2, <2>3, <2>4 DEF Analyze, TypeInv, TableTypes, FileTypes, RestTypes
  <1>3. CASE Probe(j)
    <2>1. At(j, "loop") /\ job[j].status = "RUNNING" /\ Name(j) \in Names \cap Scanners
          /\ job[j].at \in 1 .. Len(job[j].requested)
      BY <1>3, NameFits DEF Probe
    <2> DEFINE r == [job[j] EXCEPT !.previous = runtime[Name(j)], !.pc = "probed"]
    <2>2. runtime[Name(j)] \in Rows
      BY <2>1 DEF TypeInv, TableTypes
    <2>3. r \in ScanJob
      BY <1>0, <2>2 DEF ScanJob
    <2>4. Staged(j, r)
      BY <1>0, <2>1 DEF ScanJob, Staged, Name, Finished, AtWork, Turn, Later, Over, Admitting
    <2>5. Update(j, r)
      BY <1>3 DEF Probe
    <2> HIDE DEF r
    <2>6. JobsFit' /\ WalkOrder'
      BY <2>1, <2>3, <2>4, <2>5, Worked DEF At, Resting
    <2> QED
      BY <1>3, <2>6 DEF Probe, TypeInv, TableTypes, FileTypes, RestTypes
  <1>4. CASE EndLoop(j)
    <2> DEFINE to == IF "container" \in ToSet(job[j].requested) THEN "container" ELSE "verify"
               verdict == Aggregate(VerdictsOf(j))
               r == [job[j] EXCEPT !.verdict = verdict, !.pc = to]
    <2>1. VerdictsOf(j) \in SUBSET Verdicts
      BY VerdictsFit
    <2>2. verdict \in Verdicts
      BY <2>1, AggregateIs
    <2>3. Update(j, r)
      BY <1>4 DEF EndLoop
    <2>4. to \in {"container", "verify"}
      OBVIOUS
    <2> HIDE DEF verdict, to
    <2>5. r \in ScanJob
      BY <1>0, <2>2, <2>4 DEF ScanJob
    <2>6. Staged(j, r)
      BY <1>0, <1>4, <2>4
         DEF EndLoop, At, ScanJob, Staged, Finished, AtWork, Turn, Later, Over, Admitting
    <2> HIDE DEF r
    <2>7. JobsFit' /\ WalkOrder'
      BY <1>4, <2>3, <2>5, <2>6, Worked DEF EndLoop, At, Resting
    <2> QED
      BY <1>4, <2>7 DEF EndLoop, TypeInv, TableTypes, FileTypes, RestTypes
  <1> QED
    BY <1>1, <1>2, <1>3, <1>4

LEMMA TurnTypeInv ==
  ASSUME TypeInv, NEW j \in Jobs,
         SaveProbe(j) \/ Prepare(j) \/ Scan(j) \/ SaveScan(j) \/ ScannerRaises(j)
  PROVE  TypeInv'
  <1> USE DEF tables, files
  <1>0. job[j] \in ScanJob /\ Staged(j, job[j])
    BY JobFits
  <1>1. CASE SaveProbe(j) \/ Prepare(j)
    <2>1. job[j].pc \in Turn /\ Name(j) \in Scanners /\ ~At(j, "container")
      BY <1>1, TurnFits DEF SaveProbe, Prepare, At, Turn
    <2>2. Goto(j, "prepare") \/ Goto(j, "scanning")
      BY <1>1 DEF SaveProbe, Prepare
    <2>3. JobsFit' /\ WalkOrder'
      BY <2>1, <2>2, GoneFits DEF AtWork, Turn
    <2>4. ProbedRow(j) \in Rows
      BY DEF ProbedRow, Rows
    <2>5. CASE SaveProbe(j)
      BY <2>1, <2>3, <2>4, <2>5 DEF SaveProbe, TypeInv, TableTypes, FileTypes, RestTypes
    <2>6. CASE Prepare(j)
      BY <2>1, <2>3, <2>6 DEF Prepare, TypeInv, TableTypes, FileTypes, RestTypes
    <2> QED
      BY <1>1, <2>5, <2>6
  <1>2. CASE Scan(j)
    <2>1. job[j].pc \in Turn /\ Name(j) \in Scanners /\ job[j].status = "RUNNING"
          /\ job[j].at \in 1 .. Len(job[j].requested)
      BY <1>2, TurnFits DEF Scan, At, Turn
    <2>2. PICK verdict \in CanReport[Name(j)] :
             /\ Update(j, [job[j] EXCEPT
                    !.results = Append(@, [scanner |-> Name(j), verdict |-> verdict,
                                           ref |-> active[Name(j)],
                                           qualified |-> job[j].previous = "QUALIFIED"]),
                    !.pc = "scanned"])
             /\ earned' = IF verdict = "ERROR" THEN earned ELSE earned \cup {Name(j)}
      BY <1>2 DEF Scan
    <2> DEFINE result == [scanner |-> Name(j), verdict |-> verdict, ref |-> active[Name(j)],
                          qualified |-> job[j].previous = "QUALIFIED"]
               results == Append(job[j].results, result)
               r == [job[j] EXCEPT !.results = results, !.pc = "scanned"]
    <2>3. result \in Result /\ result.scanner = Name(j)
      <3>1. verdict \in Verdicts
        BY <2>1, NamesAssumption
      <3>2. active[Name(j)] \in Jobs \cup {Nil}
        BY <2>1 DEF TypeInv, TableTypes
      <3> QED
        BY <2>1, <3>1, <3>2 DEF Result
    <2>4. job[j].results \in Seq(Result)
      BY ResultsFit
    <2>5. Update(j, r)
      BY <2>2
    <2> HIDE DEF result
    <2>6. results \in Seq(Result) /\ results # <<>> /\ results[Len(results)].scanner = Name(j)
      BY <2>3, <2>4
    <2> HIDE DEF results
    <2>7. r \in ScanJob
      BY <1>0, <2>6 DEF ScanJob, Result
    <2>8. Staged(j, r)
      BY <1>0, <2>1, <2>6 DEF ScanJob, Staged, Name, Finished, AtWork, Turn, Later, Over, Admitting
    <2> HIDE DEF r
    <2>9. JobsFit' /\ WalkOrder'
      BY <2>1, <2>5, <2>7, <2>8, Worked DEF At, Turn, Resting
    <2> QED
      BY <1>2, <2>1, <2>2, <2>9 DEF Scan, TypeInv, TableTypes, FileTypes, RestTypes
  <1>3. CASE SaveScan(j)
    <2>1. job[j].pc \in Turn /\ Name(j) \in Scanners /\ job[j].status = "RUNNING"
      BY <1>3, TurnFits DEF SaveScan, At, Turn
    <2>2. JobsFit' /\ WalkOrder'
      BY <1>0, <1>3, <2>1, AdvancedFits DEF SaveScan
    <2>3. ScannedRow(j) \in Rows
      BY DEF ScannedRow, Rows
    <2> QED
      BY <1>3, <2>1, <2>2, <2>3 DEF SaveScan, TypeInv, TableTypes, FileTypes, RestTypes
  <1>4. CASE ScannerRaises(j)
    <2>1. job[j].pc \in {"loop"} \cup Turn
      BY <1>4 DEF ScannerRaises, Working, At, Turn
    <2>2. Name(j) \in Scanners
      <3>1. CASE Working(j, Scanners)
        BY <3>1 DEF Working
      <3>2. CASE job[j].pc \in Turn
        BY <3>2, TurnFits
      <3> QED
        BY <1>4, <3>1, <3>2 DEF ScannerRaises, At, Turn
    <2>3. JobsFit' /\ WalkOrder'
      BY <1>4, <2>1, RaisedFits DEF ScannerRaises, AtWork, Turn, At
    <2>4. staged' \subseteq Jobs \X Scanners
      BY <1>4, <2>2 DEF ScannerRaises, TypeInv, FileTypes
    <2> QED
      BY <1>4, <2>3, <2>4 DEF ScannerRaises, TypeInv, TableTypes, FileTypes, RestTypes
  <1> QED
    BY <1>1, <1>2, <1>3, <1>4

LEMMA LaterTypeInv ==
  ASSUME TypeInv, NEW j \in Jobs,
         EndContainer(j) \/ LaterStepRaises(j) \/ Verify(j) \/ Look(j) \/ OpenIncoming(j)
            \/ Copy(j) \/ Replace(j) \/ AdmitRaises(j)
  PROVE  TypeInv'
  <1> USE DEF tables, files
  <1>0. job[j] \in ScanJob /\ Staged(j, job[j])
    BY JobFits
  <1>1. job[j].pc \in Later /\ (At(j, "container") => WalkOver(j))
    BY DEF EndContainer, LaterStepRaises, Verify, Look, OpenIncoming, Copy, Replace, AdmitRaises,
           At, Later, Admitting
  <1>2. ASSUME Raise(j) PROVE JobsFit' /\ WalkOrder'
    BY <1>1, <1>2, RaisedFits DEF AtWork
  <1>3. ASSUME NEW to \in Admitting, Goto(j, to) PROVE JobsFit' /\ WalkOrder'
    BY <1>1, <1>3, GoneFits DEF AtWork, Later, Turn, Admitting
  <1>4. ASSUME NEW status \in {"COMPLETE", "QUARANTINED"},
               Update(j, [job[j] EXCEPT !.status = status, !.pc = "finally"])
        PROVE  JobsFit' /\ WalkOrder'
    <2> DEFINE r == [job[j] EXCEPT !.status = status, !.pc = "finally"]
    <2>1. r \in ScanJob
      BY <1>0 DEF ScanJob, Status
    <2>2. Staged(j, r)
      BY <1>0 DEF ScanJob, Staged, Finished, AtWork, Turn, Later, Over, Admitting
    <2>3. Update(j, r)
      BY <1>4
    <2> HIDE DEF r
    <2> QED
      BY <1>1, <2>1, <2>2, <2>3, Worked DEF Later, Admitting, Resting
  <1>5. CASE EndContainer(j)
    <2>1. PICK end \in {"whole", "limit", "unsupported", "damaged"} :
             Update(j, [job[j] EXCEPT
                !.completeness = CASE end = "damaged" -> "PARTIAL_ERROR"
                                   [] end = "unsupported" -> "PARTIAL_UNSUPPORTED"
                                   [] end = "limit" /\ @ = "COMPLETE" -> "PARTIAL_LIMIT"
                                   [] OTHER -> @,
                !.verdict = Aggregate(Heard(j)), !.pc = "verify"])
      BY <1>5 DEF EndContainer
    <2> DEFINE completeness == CASE end = "damaged" -> "PARTIAL_ERROR"
                                 [] end = "unsupported" -> "PARTIAL_UNSUPPORTED"
                                 [] end = "limit" /\ job[j].completeness = "COMPLETE"
                                       -> "PARTIAL_LIMIT"
                                 [] OTHER -> job[j].completeness
               verdict == Aggregate(Heard(j))
               r == [job[j] EXCEPT !.completeness = completeness, !.verdict = verdict,
                                   !.pc = "verify"]
    <2>2. Heard(j) \in SUBSET Verdicts
      BY <1>0, VerdictsFit DEF Heard, AllVerdictsOf, ScanJob
    <2>3. verdict \in Verdicts
      BY <2>2, AggregateIs
    <2>4. completeness \in {"COMPLETE", "PARTIAL_LIMIT", "PARTIAL_UNSUPPORTED", "PARTIAL_ERROR"}
      BY <1>0 DEF ScanJob
    <2>5. Update(j, r)
      BY <2>1
    <2> HIDE DEF completeness, verdict
    <2>6. r \in ScanJob
      BY <1>0, <2>3, <2>4 DEF ScanJob
    <2>7. Staged(j, r)
      BY <1>0, <1>5
         DEF EndContainer, At, ScanJob, Staged, Finished, AtWork, Turn, Later, Over, Admitting
    <2> HIDE DEF r
    <2>8. JobsFit' /\ WalkOrder'
      BY <1>1, <2>5, <2>6, <2>7, Worked DEF Later, Admitting, Resting
    <2> QED
      BY <1>5, <2>8 DEF EndContainer, TypeInv, TableTypes, FileTypes, RestTypes
  <1>6. CASE LaterStepRaises(j) \/ AdmitRaises(j)
    BY <1>2, <1>6 DEF LaterStepRaises, AdmitRaises, TypeInv, TableTypes, FileTypes, RestTypes
  <1>7. CASE Verify(j)
    <2>1. Raise(j) \/ Goto(j, "admit")
            \/ Update(j, [job[j] EXCEPT !.status = "COMPLETE", !.pc = "finally"])
      BY <1>7 DEF Verify
    <2>2. JobsFit' /\ WalkOrder'
      BY <1>2, <1>3, <1>4, <2>1 DEF Admitting
    <2> QED
      BY <1>7, <2>2 DEF Verify, TypeInv, TableTypes, FileTypes, RestTypes
  <1>8. CASE Look(j) \/ OpenIncoming(j) \/ Copy(j) \/ Replace(j)
    <2>1. Raise(j) \/ Goto(j, "open") \/ Goto(j, "copy") \/ Goto(j, "replace") \/ Quarantined(j)
      BY <1>8 DEF Look, OpenIncoming, Copy, Replace
    <2>2. JobsFit' /\ WalkOrder'
      BY <1>2, <1>3, <1>4, <2>1 DEF Admitting, Quarantined
    <2>3. FileTypes'
      BY <1>8 DEF Look, OpenIncoming, Copy, Replace, TypeInv, FileTypes, Copies
    <2> QED
      BY <1>8, <2>2, <2>3 DEF Look, OpenIncoming, Copy, Replace, TypeInv, TableTypes, RestTypes
  <1> QED
    BY <1>5, <1>6, <1>7, <1>8

LEMMA MovedFits ==
  ASSUME NEW r \in ScanJob, NEW pc \in {"done", "lost", "dead"}, NEW derived \in SUBSET Jobs
  PROVE  /\ [r EXCEPT !.pc = pc] \in ScanJob /\ [r EXCEPT !.pc = pc].pc = pc
         /\ [r EXCEPT !.derived = derived] \in ScanJob
  <1>1. pc \in {"idle", "loop", "probed", "prepare", "scanning", "scanned", "container", "verify",
                "admit", "open", "copy", "replace", "finally", "done", "lost", "dead"}
    OBVIOUS
  <1>2. [r EXCEPT !.pc = pc] \in ScanJob
    BY <1>1 DEF ScanJob
  <1> QED
    BY <1>2 DEF ScanJob

\* The finally clause: a thread that ends lets the walk of its parent go on.
LEMMA EndTypeInv ==
  ASSUME TypeInv, NEW j \in Jobs, Finish(j) \/ FinishRaises(j)
  PROVE  TypeInv'
  <1> USE DEF tables, files
  <1>0. /\ \A k \in Jobs : job[k] \in ScanJob /\ Staged(k, job[k])
        /\ job[j].pc = "finally" /\ Parent[j] # j
    BY JobFits, JobsAssumption DEF Finish, FinishRaises, At
  <1>1. PICK pc \in {"done", "lost"} :
           /\ pc = "lost" => Goto(j, "lost")
           /\ pc = "done" => Finish(j)
    BY DEF FinishRaises
  <1>2. /\ job'[j] = [job[j] EXCEPT !.pc = pc]
        /\ \A k \in Jobs \ {j} :
              \/ job'[k] = job[k]
              \/ k = Parent[j] /\ job'[k] = [job[k] EXCEPT !.derived = @ \cup {j}]
        /\ job' = [k \in Jobs |-> job'[k]]
    <2>1. CASE pc = "done"
      BY <1>0, <1>1, <2>1 DEF Finish
    <2>2. CASE pc = "lost"
      <3>1. job = [k \in Jobs |-> job[k]]
        BY DEF TypeInv, JobsFit
      <3> QED
        BY <1>0, <1>1, <2>2, <3>1 DEF Goto, Update
    <2> QED
      BY <2>1, <2>2
  <1>3. job'[j] \in ScanJob /\ Staged(j, job'[j])
    <2>1. [job[j] EXCEPT !.pc = pc] \in ScanJob
      BY <1>0, <1>1, MovedFits
    <2>2. Staged(j, [job[j] EXCEPT !.pc = pc])
      BY <1>0 DEF ScanJob, Staged, Finished, AtWork, Turn, Later, Over, Admitting
    <2> QED
      BY <1>2, <2>1, <2>2
  <1>4. ASSUME NEW k \in Jobs \ {j}
        PROVE  job'[k] \in ScanJob /\ Staged(k, job'[k]) /\ job'[k].pc = job[k].pc
    <2> DEFINE derived == job[k].derived \cup {j}
               r == [job[k] EXCEPT !.derived = derived]
    <2>0. derived \in SUBSET Jobs
      BY <1>0 DEF ScanJob
    <2>1. r \in ScanJob
      <3> HIDE DEF derived
      <3> QED
        BY <1>0, <2>0, MovedFits
    <2>2. Staged(k, r) /\ r.pc = job[k].pc
      BY <1>0 DEF ScanJob, Staged
    <2> HIDE DEF r
    <2>3. job'[k] = job[k] \/ job'[k] = r
      BY <1>2 DEF r
    <2> QED
      BY <1>0, <2>1, <2>2, <2>3
  <1>5. JobsFit'
    BY <1>2, <1>3, <1>4 DEF JobsFit
  <1>6. job'[j].pc = pc
    BY <1>0, <1>2 DEF ScanJob
  <1>7. WalkOrder'
    <2> SUFFICES ASSUME NEW c \in Jobs, Parent[c] # Nil, job'[c].pc \notin Resting
                 PROVE  /\ At(Parent[c], "container")'
                        /\ \A d \in Derived(Parent[c]) \ {c} : job'[d].pc \in {"idle", "done"}
      BY DEF WalkOrder, Derived
    <2>1. c # j /\ job[c].pc \notin Resting
      BY <1>4, <1>6 DEF Resting
    <2>2. /\ At(Parent[c], "container") /\ Parent[c] \in Jobs
          /\ \A d \in Derived(Parent[c]) \ {c} : job[d].pc \in {"idle", "done"}
      BY <2>1, JobsAssumption DEF TypeInv, WalkOrder
    <2>3. Parent[c] # j /\ j \notin Derived(Parent[c]) \ {c}
      BY <1>0, <2>2 DEF At
    <2> QED
      BY <1>4, <2>2, <2>3 DEF At, Derived
  <1>8. staged' \subseteq staged
    BY DEF Finish, FinishRaises, LeftStaged
  <1>9. UNCHANGED <<runtime, active, earned, incoming, quarantine, intact, crashes>>
    BY DEF Finish, FinishRaises
  <1> QED
    BY <1>5, <1>7, <1>8, <1>9 DEF TypeInv, TableTypes, FileTypes, RestTypes

LEMMA CrashTypeInv == ASSUME TypeInv, Crash PROVE TypeInv'
  <1>1. ASSUME NEW j \in Jobs
        PROVE  /\ job'[j] \in ScanJob /\ Staged(j, job'[j])
               /\ job'[j].pc \in Resting /\ (job[j].pc \in {"idle", "done"} => job'[j] = job[j])
    <2>0. job[j] \in ScanJob /\ Staged(j, job[j])
      BY JobFits
    <2>1. [job[j] EXCEPT !.pc = "dead"] \in ScanJob
      BY <2>0 DEF ScanJob
    <2>2. /\ Busy(j) => Staged(j, [job[j] EXCEPT !.pc = "dead"])
          /\ [job[j] EXCEPT !.pc = "dead"].pc = "dead"
      BY <2>0 DEF Busy, ScanJob, Staged, Finished, AtWork, Turn, Later, Over, Admitting
    <2>3. job'[j] = IF Busy(j) THEN [job[j] EXCEPT !.pc = "dead"] ELSE job[j]
      BY DEF Crash
    <2> QED
      BY <2>0, <2>1, <2>2, <2>3 DEF Busy, Resting
  <1>2. JobsFit'
    BY <1>1 DEF JobsFit, Crash
  <1>3. WalkOrder'
    BY <1>1 DEF WalkOrder
  <1>4. active' \in [Scanners -> Jobs \cup {Nil}] /\ crashes' \in 0 .. MaxCrashes
    BY NamesAssumption DEF Crash, TypeInv, RestTypes
  <1> QED
    BY <1>2, <1>3, <1>4 DEF Crash, TypeInv, TableTypes, FileTypes, RestTypes, tables, files

LEMMA InitTypeInv == ASSUME Init PROVE TypeInv
  <1>1. PICK load \in Workloads :
           job = [j \in Jobs |->
                 [status |-> IF j \in DOMAIN load THEN "QUEUED" ELSE "CREATED", pc |-> "idle",
                  requested |-> IF j \in DOMAIN load THEN load[j] ELSE <<>>, at |-> 1,
                  previous |-> "ABSENT", results |-> <<>>, analyzed |-> {},
                  errors |-> {}, completeness |-> "COMPLETE", verdict |-> "NOT_SCANNED",
                  derived |-> {}]]
    BY DEF Init
  <1>2. ASSUME NEW j \in Jobs PROVE job[j] \in ScanJob /\ Staged(j, job[j]) /\ At(j, "idle")
    <2> DEFINE asked == IF j \in DOMAIN load THEN load[j] ELSE <<>>
               status == IF j \in DOMAIN load THEN "QUEUED" ELSE "CREATED"
    <2>1. asked \in Seq(Names)
      BY JobsAssumption
    <2>2. /\ status \in {"CREATED", "QUEUED"}
          /\ status = "QUEUED" => Parent[j] = Nil
      BY JobsAssumption
    <2>3. job[j] = [status |-> status, pc |-> "idle", requested |-> asked, at |-> 1,
                    previous |-> "ABSENT", results |-> <<>>, analyzed |-> {}, errors |-> {},
                    completeness |-> "COMPLETE", verdict |-> "NOT_SCANNED", derived |-> {}]
      BY <1>1
    <2> HIDE DEF asked, status
    <2>4. "ABSENT" \in Rows /\ "NOT_SCANNED" \in Verdicts /\ status \in Status
      BY <2>2 DEF Rows, Verdicts, Status
    <2>5. job[j] \in ScanJob
      BY <2>1, <2>3, <2>4 DEF ScanJob
    <2>6. Staged(j, job[j])
      BY <2>2, <2>3 DEF Staged, Finished, AtWork, Turn, Later, Over, Admitting
    <2> QED
      BY <2>3, <2>5, <2>6 DEF At
  <1>3. JobsFit
    BY <1>1, <1>2 DEF JobsFit
  <1>4. WalkOrder
    BY <1>2 DEF WalkOrder, At, Resting
  <1>5. TableTypes /\ FileTypes /\ RestTypes
    BY NamesAssumption DEF Init, TableTypes, FileTypes, RestTypes, Rows, Copies
  <1> QED
    BY <1>3, <1>4, <1>5 DEF TypeInv

LEMMA NextTypeInv == ASSUME TypeInv, [Next]_vars PROVE TypeInv'
  <1>1. ASSUME NEW j \in Jobs, Step(j) PROVE TypeInv'
    BY <1>1, StartTypeInv, LoopTypeInv, TurnTypeInv, LaterTypeInv, EndTypeInv DEF Step
  <1>2. ASSUME NEW j \in Jobs, Rewrite(j) PROVE TypeInv'
    <2>1. UNCHANGED <<job, runtime, active, earned, staged, incoming, quarantine, crashes>>
      BY <1>2 DEF Rewrite, tables, files
    <2>2. intact' \subseteq Jobs
      BY <1>2 DEF Rewrite, TypeInv, RestTypes
    <2> QED
      BY <2>1, <2>2
         DEF TypeInv, JobsFit, WalkOrder, At, TableTypes, FileTypes, RestTypes
  <1>3. CASE UNCHANGED vars
    BY <1>3 DEF vars, TypeInv, JobsFit, WalkOrder, At, TableTypes, FileTypes, RestTypes
  <1> QED
    BY <1>1, <1>2, <1>3, CrashTypeInv DEF Next, AllDone

\* The jobs, tables and files keep their types; a derived job is at work only while its parent is
\* in the walk, and no other of its siblings is (containers.py: _child(), scanning.py: walk()).
THEOREM TypesHold == Spec => []TypeOK
  <1>1. Spec => []TypeInv
    BY InitTypeInv, NextTypeInv, PTL DEF Spec
  <1> QED
    BY <1>1, TypeInvIsEnough, PTL

-----------------------------------------------------------------------------
(* What a step leaves alone.                                                 *)

\* All of a job but the list of its derived ones.
Same(r, s) ==
    /\ r.status = s.status /\ r.pc = s.pc /\ r.at = s.at /\ r.previous = s.previous
    /\ r.results = s.results /\ r.analyzed = s.analyzed /\ r.requested = s.requested
    /\ r.errors = s.errors /\ r.completeness = s.completeness /\ r.verdict = s.verdict

\* A thread changes its own job, and in the end the list of its parent's.
LEMMA OthersStay ==
  ASSUME TypeInv, NEW j \in Jobs, Step(j), NEW k \in Jobs, k # j
  PROVE  /\ Same(job'[k], job[k])
         /\ \/ job'[k].derived = job[k].derived
            \/ /\ Finish(j) /\ k = Parent[j] /\ At(k, "container")
               /\ job'[k].derived = job[k].derived \cup {j}
  <1>1. CASE Finish(j)
    <2>1. job'[k] = job[k] \/ (k = Parent[j] /\ job'[k] = [job[k] EXCEPT !.derived = @ \cup {j}])
      BY <1>1 DEF Finish
    <2>2. k = Parent[j] => At(k, "container")
      BY <1>1, JobsAssumption DEF Finish, At, TypeInv, WalkOrder, Resting
    <2>3. job[k] \in ScanJob
      BY JobFits
    <2> QED
      BY <1>1, <2>1, <2>2, <2>3 DEF Same, ScanJob
  <1>2. CASE ~Finish(j)
    <2>1. \E r : Update(j, r)
      BY <1>2 DEF Step, Start, StartDerived, PassOver, Analyze, Refuse, Probe, SaveProbe, Prepare,
           Scan, SaveScan, ScannerRaises, EndLoop, EndContainer, LaterStepRaises, Verify, Look,
           OpenIncoming, Copy, Replace, AdmitRaises, FinishRaises, Goto, Advance, Raise,
           Quarantined
    <2>2. job'[k] = job[k]
      BY <2>1 DEF Update, TypeInv, JobsFit
    <2> QED
      BY <2>2 DEF Same
  <1> QED
    BY <1>1, <1>2

\* Where a thread goes, and what of its own job it leaves as it is.
Kept(j) ==
    /\ job'[j].results = job[j].results /\ job'[j].analyzed = job[j].analyzed
    /\ job'[j].requested = job[j].requested /\ job'[j].completeness = job[j].completeness
    /\ job'[j].errors = job[j].errors /\ job'[j].at = job[j].at
    /\ job'[j].previous = job[j].previous /\ job'[j].verdict = job[j].verdict
    /\ job'[j].derived = job[j].derived

LEMMA GoneIs ==
  ASSUME TypeInv, NEW j \in Jobs, NEW to, Goto(j, to)
  PROVE  Kept(j) /\ job'[j].pc = to /\ job'[j].status = job[j].status
  <1>1. job[j] \in ScanJob
    BY JobFits
  <1>2. job'[j] = [job[j] EXCEPT !.pc = to]
    BY DEF Goto, Update, TypeInv, JobsFit
  <1> QED
    BY <1>1, <1>2 DEF Kept, ScanJob

LEMMA RaisedIs ==
  ASSUME TypeInv, NEW j \in Jobs, Raise(j)
  PROVE  /\ job'[j].results = job[j].results /\ job'[j].analyzed = job[j].analyzed
         /\ job'[j].requested = job[j].requested /\ job'[j].completeness = job[j].completeness
         /\ job[j].errors \subseteq job'[j].errors /\ job'[j].at = job[j].at
         /\ job'[j].previous = job[j].previous /\ job'[j].verdict = job[j].verdict
         /\ job'[j].derived = job[j].derived
         /\ job'[j].status = "FAILED" /\ job'[j].pc = "finally"
  <1>1. job[j] \in ScanJob
    BY JobFits
  <1>2. job'[j] = [job[j] EXCEPT !.errors = @ \cup {"exception"}, !.status = "FAILED",
                                 !.pc = "finally"]
    BY DEF Raise, Update, TypeInv, JobsFit
  <1> QED
    BY <1>1, <1>2 DEF ScanJob

LEMMA QuarantinedIs ==
  ASSUME TypeInv, NEW j \in Jobs, Quarantined(j)
  PROVE  Kept(j) /\ job'[j].pc = "finally" /\ job'[j].status = "QUARANTINED"
  <1>1. job[j] \in ScanJob
    BY JobFits
  <1>2. job'[j] = [job[j] EXCEPT !.status = "QUARANTINED", !.pc = "finally"]
    BY DEF Quarantined, Update, TypeInv, JobsFit
  <1> QED
    BY <1>1, <1>2 DEF Kept, ScanJob

LEMMA StartedIs ==
  ASSUME TypeInv, NEW j \in Jobs, Start(j) \/ StartDerived(j)
  PROVE  /\ job'[j].results = job[j].results /\ job'[j].analyzed = job[j].analyzed
         /\ job'[j].completeness = job[j].completeness /\ job'[j].errors = job[j].errors
         /\ job'[j].at = job[j].at /\ job'[j].derived = job[j].derived
         /\ job[j].pc = "idle" /\ job'[j].pc = "loop" /\ job'[j].status = "RUNNING"
  <1>1. job[j] \in ScanJob /\ Staged(j, job[j])
    BY JobFits
  <1>2. CASE Start(j)
    <2>1. job'[j] = [job[j] EXCEPT !.status = "RUNNING", !.pc = "loop"]
      BY <1>2 DEF Start, Update, TypeInv, JobsFit
    <2> QED
      BY <1>1, <1>2, <2>1 DEF Start, ScanJob, Staged
  <1>3. CASE StartDerived(j)
    <2>1. job'[j] = [job[j] EXCEPT
                        !.requested = Without(job[Parent[j]].requested, "container"),
                        !.status = "RUNNING", !.pc = "loop"]
      BY <1>3 DEF StartDerived, Update, TypeInv, JobsFit
    <2> QED
      BY <1>1, <1>3, <2>1 DEF StartDerived, ScanJob, Staged
  <1> QED
    BY <1>2, <1>3

LEMMA PassedIs ==
  ASSUME TypeInv, NEW j \in Jobs, PassOver(j) \/ Refuse(j) \/ SaveScan(j)
  PROVE  /\ job'[j].results = job[j].results /\ job'[j].analyzed = job[j].analyzed
         /\ job'[j].requested = job[j].requested /\ job'[j].completeness = job[j].completeness
         /\ job'[j].at = job[j].at + 1 /\ job'[j].derived = job[j].derived
         /\ job'[j].errors = IF Refuse(j) /\ ~PassOver(j) /\ ~SaveScan(j)
                             THEN job[j].errors \cup {Name(j)} ELSE job[j].errors
         /\ job'[j].pc = "loop" /\ job'[j].status = job[j].status
  <1>1. job[j] \in ScanJob
    BY JobFits
  <1>2. CASE PassOver(j) \/ SaveScan(j)
    <2>1. job'[j] = [job[j] EXCEPT !.at = @ + 1, !.pc = "loop"]
      BY <1>2 DEF PassOver, SaveScan, Advance, Update, TypeInv, JobsFit
    <2> QED
      BY <1>1, <1>2, <2>1 DEF ScanJob
  <1>3. CASE Refuse(j) /\ ~PassOver(j) /\ ~SaveScan(j)
    <2>1. job'[j] = [Skipped(j) EXCEPT !.at = @ + 1, !.pc = "loop"]
      BY <1>3 DEF Refuse, Advance, Update, TypeInv, JobsFit
    <2> QED
      BY <1>1, <1>3, <2>1 DEF Skipped, ScanJob
  <1> QED
    BY <1>2, <1>3

LEMMA AnalyzedIs ==
  ASSUME TypeInv, NEW j \in Jobs, Analyze(j)
  PROVE  /\ job'[j].results = job[j].results /\ job'[j].requested = job[j].requested
         /\ job'[j].at = job[j].at + 1 /\ job'[j].derived = job[j].derived
         /\ job'[j].pc = "loop" /\ job'[j].status = job[j].status
         /\ \/ /\ job'[j].errors = job[j].errors \cup {Name(j)}
               /\ job'[j].analyzed = job[j].analyzed
               /\ job'[j].completeness = job[j].completeness
            \/ \E result \in Reported[Name(j)] :
                  /\ job[j].errors \subseteq job'[j].errors
                  /\ job'[j].analyzed = job[j].analyzed \cup
                        {[name |-> Name(j), native |-> result.native, erring |-> result.erring]}
                  /\ job'[j].completeness = Completeness(Name(j), result, job[j].completeness)
  <1>1. job[j] \in ScanJob
    BY JobFits
  <1>2. CASE Advance(j, [job[j] EXCEPT !.errors = @ \cup {Name(j)}])
    <2>1. job'[j] = [[job[j] EXCEPT !.errors = @ \cup {Name(j)}] EXCEPT !.at = @ + 1, !.pc = "loop"]
      BY <1>2 DEF Advance, Update, TypeInv, JobsFit
    <2> QED
      BY <1>1, <2>1 DEF ScanJob
  <1>3. ASSUME NEW result \in Reported[Name(j)], NEW saved \in BOOLEAN,
               Advance(j, [job[j] EXCEPT
                  !.analyzed = @ \cup {[name |-> Name(j), native |-> result.native,
                                        erring |-> result.erring]},
                  !.errors = IF result.erring \/ ~saved THEN @ \cup {Name(j)} ELSE @,
                  !.completeness = Completeness(Name(j), result, @)])
        PROVE  /\ job'[j].results = job[j].results /\ job'[j].requested = job[j].requested
               /\ job'[j].at = job[j].at + 1 /\ job'[j].derived = job[j].derived
               /\ job'[j].pc = "loop" /\ job'[j].status = job[j].status
               /\ job[j].errors \subseteq job'[j].errors
               /\ job'[j].analyzed = job[j].analyzed \cup
                     {[name |-> Name(j), native |-> result.native, erring |-> result.erring]}
               /\ job'[j].completeness = Completeness(Name(j), result, job[j].completeness)
    <2> DEFINE analyzed == job[j].analyzed \cup {[name |-> Name(j), native |-> result.native,
                                                  erring |-> result.erring]}
               errors == IF result.erring \/ ~saved THEN job[j].errors \cup {Name(j)}
                         ELSE job[j].errors
               completeness == Completeness(Name(j), result, job[j].completeness)
    <2>1. job'[j] = [[job[j] EXCEPT !.analyzed = analyzed, !.errors = errors,
                                    !.completeness = completeness]
                       EXCEPT !.at = @ + 1, !.pc = "loop"]
      BY <1>3 DEF Advance, Update, TypeInv, JobsFit
    <2>2. job[j].errors \subseteq errors
      OBVIOUS
    <2> HIDE DEF analyzed, errors, completeness
    <2>3. /\ job'[j].results = job[j].results /\ job'[j].requested = job[j].requested
          /\ job'[j].at = job[j].at + 1 /\ job'[j].derived = job[j].derived
          /\ job'[j].pc = "loop" /\ job'[j].status = job[j].status
          /\ job'[j].errors = errors /\ job'[j].analyzed = analyzed
          /\ job'[j].completeness = completeness
      BY <1>1, <2>1 DEF ScanJob
    <2> QED
      BY <2>2, <2>3 DEF analyzed, completeness
  <1> QED
    BY <1>2, <1>3 DEF Analyze

LEMMA ProbedIs ==
  ASSUME TypeInv, NEW j \in Jobs, Probe(j)
  PROVE  /\ job'[j].results = job[j].results /\ job'[j].analyzed = job[j].analyzed
         /\ job'[j].requested = job[j].requested /\ job'[j].completeness = job[j].completeness
         /\ job'[j].at = job[j].at /\ job'[j].derived = job[j].derived
         /\ job'[j].errors = job[j].errors /\ job'[j].previous = runtime[Name(j)]
         /\ job'[j].pc = "probed" /\ job'[j].status = job[j].status
  <1>1. job[j] \in ScanJob
    BY JobFits
  <1>2. job'[j] = [job[j] EXCEPT !.previous = runtime[Name(j)], !.pc = "probed"]
    BY DEF Probe, Update, TypeInv, JobsFit
  <1> QED
    BY <1>1, <1>2 DEF ScanJob

LEMMA ScannedIs ==
  ASSUME TypeInv, NEW j \in Jobs, Scan(j)
  PROVE  /\ job'[j].analyzed = job[j].analyzed /\ job'[j].requested = job[j].requested
         /\ job'[j].completeness = job[j].completeness /\ job'[j].errors = job[j].errors
         /\ job'[j].at = job[j].at /\ job'[j].derived = job[j].derived
         /\ job'[j].previous = job[j].previous
         /\ job'[j].pc = "scanned" /\ job'[j].status = job[j].status
         /\ \E verdict \in CanReport[Name(j)] :
               /\ job'[j].results =
                    Append(job[j].results, [scanner |-> Name(j), verdict |-> verdict,
                                            ref |-> active[Name(j)],
                                            qualified |-> job[j].previous = "QUALIFIED"])
               /\ earned' = IF verdict = "ERROR" THEN earned ELSE earned \cup {Name(j)}
  <1>1. job[j] \in ScanJob
    BY JobFits
  <1>2. PICK verdict \in CanReport[Name(j)] :
          /\ job'[j] = [job[j] EXCEPT
                !.results = Append(@, [scanner |-> Name(j), verdict |-> verdict,
                                       ref |-> active[Name(j)],
                                       qualified |-> job[j].previous = "QUALIFIED"]),
                !.pc = "scanned"]
          /\ earned' = IF verdict = "ERROR" THEN earned ELSE earned \cup {Name(j)}
    BY DEF Scan, Update, TypeInv, JobsFit
  <1> DEFINE results == Append(job[j].results, [scanner |-> Name(j), verdict |-> verdict,
                                                ref |-> active[Name(j)],
                                                qualified |-> job[j].previous = "QUALIFIED"])
  <1>3. job'[j] = [job[j] EXCEPT !.results = results, !.pc = "scanned"]
    BY <1>2
  <1> HIDE DEF results
  <1>4. /\ job'[j].analyzed = job[j].analyzed /\ job'[j].requested = job[j].requested
        /\ job'[j].completeness = job[j].completeness /\ job'[j].errors = job[j].errors
        /\ job'[j].at = job[j].at /\ job'[j].derived = job[j].derived
        /\ job'[j].previous = job[j].previous
        /\ job'[j].pc = "scanned" /\ job'[j].status = job[j].status
        /\ job'[j].results = results
    BY <1>1, <1>3 DEF ScanJob
  <1> QED
    BY <1>2, <1>4 DEF results

LEMMA LoopedIs ==
  ASSUME TypeInv, NEW j \in Jobs, EndLoop(j)
  PROVE  /\ job'[j].results = job[j].results /\ job'[j].analyzed = job[j].analyzed
         /\ job'[j].requested = job[j].requested /\ job'[j].completeness = job[j].completeness
         /\ job'[j].at = job[j].at /\ job'[j].derived = job[j].derived
         /\ job'[j].errors = job[j].errors /\ job'[j].verdict = Aggregate(VerdictsOf(j))
         /\ job'[j].pc \in {"container", "verify"} /\ job'[j].status = job[j].status
  <1> DEFINE verdict == Aggregate(VerdictsOf(j))
             to == IF "container" \in ToSet(job[j].requested) THEN "container" ELSE "verify"
  <1>1. job[j] \in ScanJob
    BY JobFits
  <1>2. job'[j] = [job[j] EXCEPT !.verdict = verdict, !.pc = to]
    BY DEF EndLoop, Update, TypeInv, JobsFit
  <1>3. to \in {"container", "verify"}
    OBVIOUS
  <1> HIDE DEF verdict, to
  <1>4. /\ job'[j].results = job[j].results /\ job'[j].analyzed = job[j].analyzed
        /\ job'[j].requested = job[j].requested /\ job'[j].completeness = job[j].completeness
        /\ job'[j].at = job[j].at /\ job'[j].derived = job[j].derived
        /\ job'[j].errors = job[j].errors /\ job'[j].verdict = verdict
        /\ job'[j].pc = to /\ job'[j].status = job[j].status
    BY <1>1, <1>2 DEF ScanJob
  <1> QED
    BY <1>3, <1>4 DEF verdict

LEMMA WalkedIs ==
  ASSUME TypeInv, NEW j \in Jobs, EndContainer(j)
  PROVE  /\ job'[j].results = job[j].results /\ job'[j].analyzed = job[j].analyzed
         /\ job'[j].requested = job[j].requested
         /\ job'[j].completeness = "COMPLETE" => job[j].completeness = "COMPLETE"
         /\ job'[j].at = job[j].at /\ job'[j].derived = job[j].derived
         /\ job'[j].errors = job[j].errors /\ job'[j].verdict = Aggregate(AllVerdictsOf(j))
         /\ job'[j].pc = "verify" /\ job'[j].status = job[j].status
  <1>1. job[j] \in ScanJob
    BY JobFits
  <1>2. PICK end \in {"whole", "limit", "unsupported", "damaged"} :
           job'[j] = [job[j] EXCEPT
              !.completeness = CASE end = "damaged" -> "PARTIAL_ERROR"
                                 [] end = "unsupported" -> "PARTIAL_UNSUPPORTED"
                                 [] end = "limit" /\ @ = "COMPLETE" -> "PARTIAL_LIMIT"
                                 [] OTHER -> @,
              !.verdict = Aggregate(Heard(j)), !.pc = "verify"]
    BY DEF EndContainer, Update, TypeInv, JobsFit
  <1> DEFINE verdict == Aggregate(Heard(j))
             completeness == CASE end = "damaged" -> "PARTIAL_ERROR"
                               [] end = "unsupported" -> "PARTIAL_UNSUPPORTED"
                               [] end = "limit" /\ job[j].completeness = "COMPLETE"
                                     -> "PARTIAL_LIMIT"
                               [] OTHER -> job[j].completeness
  <1>3. job'[j] = [job[j] EXCEPT !.completeness = completeness, !.verdict = verdict,
                                 !.pc = "verify"]
    BY <1>2
  <1>4. completeness = "COMPLETE" => job[j].completeness = "COMPLETE"
    OBVIOUS
  <1> HIDE DEF verdict, completeness
  <1>5. /\ job'[j].results = job[j].results /\ job'[j].analyzed = job[j].analyzed
        /\ job'[j].requested = job[j].requested /\ job'[j].completeness = completeness
        /\ job'[j].at = job[j].at /\ job'[j].derived = job[j].derived
        /\ job'[j].errors = job[j].errors /\ job'[j].verdict = verdict
        /\ job'[j].pc = "verify" /\ job'[j].status = job[j].status
    BY <1>1, <1>3 DEF ScanJob
  <1> QED
    BY <1>4, <1>5 DEF verdict, Heard

LEMMA VerifiedIs ==
  ASSUME TypeInv, NEW j \in Jobs, Verify(j)
  PROVE  \/ Raise(j)
         \/ /\ Kept(j) /\ job[j].verdict \in Positive
            /\ job'[j].pc = "admit" /\ job'[j].status = job[j].status
         \/ /\ Kept(j) /\ job[j].verdict \notin Positive
            /\ job'[j].pc = "finally" /\ job'[j].status = "COMPLETE"
  <1>1. job[j] \in ScanJob
    BY JobFits
  <1>2. CASE Goto(j, "admit") /\ job[j].verdict \in Positive
    BY <1>2, GoneIs
  <1>3. CASE /\ Update(j, [job[j] EXCEPT !.status = "COMPLETE", !.pc = "finally"])
             /\ job[j].verdict \notin Positive
    <2>1. job'[j] = [job[j] EXCEPT !.status = "COMPLETE", !.pc = "finally"]
      BY <1>3 DEF Update, TypeInv, JobsFit
    <2> QED
      BY <1>1, <1>3, <2>1 DEF Kept, ScanJob
  <1>4. \/ Raise(j)
        \/ Goto(j, "admit") /\ job[j].verdict \in Positive
        \/ /\ Update(j, [job[j] EXCEPT !.status = "COMPLETE", !.pc = "finally"])
           /\ job[j].verdict \notin Positive
    BY DEF Verify
  <1> QED
    BY <1>2, <1>3, <1>4

LEMMA FinishedIs ==
  ASSUME TypeInv, NEW j \in Jobs, Finish(j)
  PROVE  Kept(j) /\ job'[j].pc = "done" /\ job'[j].status = job[j].status
  <1>1. job[j] \in ScanJob
    BY JobFits
  <1>2. job'[j] = [job[j] EXCEPT !.pc = "done"]
    BY JobsAssumption DEF Finish
  <1> QED
    BY <1>1, <1>2 DEF Kept, ScanJob

\* A crash stops the threads and changes nothing else of the jobs.
LEMMA CrashedIs ==
  ASSUME TypeInv, Crash, NEW j \in Jobs
  PROVE  /\ Kept(j) /\ job'[j].status = job[j].status
         /\ \/ job'[j].pc = "dead" /\ job[j].pc \notin Resting
            \/ job'[j].pc = job[j].pc /\ job[j].pc \in Resting
  <1>1. job[j] \in ScanJob
    BY JobFits
  <1>2. job'[j] = IF Busy(j) THEN [job[j] EXCEPT !.pc = "dead"] ELSE job[j]
    BY DEF Crash
  <1> QED
    BY <1>1, <1>2 DEF Kept, Busy, Resting, ScanJob

\* Some steps are those of a scanner that goes on, of admit(), or only move the thread.
LEMMA MovedIs ==
  ASSUME TypeInv, NEW j \in Jobs
  PROVE  /\ SaveProbe(j) => Kept(j) /\ job'[j].pc = "prepare" /\ job'[j].status = job[j].status
         /\ Prepare(j) => Kept(j) /\ job'[j].pc = "scanning" /\ job'[j].status = job[j].status
         /\ Look(j) => /\ Kept(j)
                       /\ \/ /\ quarantine[Digest[j]] # "none"
                             /\ job'[j].pc = "finally" /\ job'[j].status = "QUARANTINED"
                          \/ job'[j].pc = "open" /\ job'[j].status = job[j].status
         /\ OpenIncoming(j) =>
               Raise(j) \/ (Kept(j) /\ job'[j].pc = "copy" /\ job'[j].status = job[j].status)
         /\ Copy(j) => Kept(j) /\ job'[j].pc = "replace" /\ job'[j].status = job[j].status
         /\ Replace(j) => Kept(j) /\ job'[j].pc = "finally" /\ job'[j].status = "QUARANTINED"
         /\ FinishRaises(j) => Kept(j) /\ job'[j].pc = "lost" /\ job'[j].status = job[j].status
  <1>1. SaveProbe(j) => Kept(j) /\ job'[j].pc = "prepare" /\ job'[j].status = job[j].status
    BY GoneIs DEF SaveProbe
  <1>2. Prepare(j) => Kept(j) /\ job'[j].pc = "scanning" /\ job'[j].status = job[j].status
    BY GoneIs DEF Prepare
  <1>3. Look(j) => /\ Kept(j)
                   /\ \/ /\ quarantine[Digest[j]] # "none"
                         /\ job'[j].pc = "finally" /\ job'[j].status = "QUARANTINED"
                      \/ job'[j].pc = "open" /\ job'[j].status = job[j].status
    BY GoneIs, QuarantinedIs DEF Look
  <1>4. OpenIncoming(j) =>
           Raise(j) \/ (Kept(j) /\ job'[j].pc = "copy" /\ job'[j].status = job[j].status)
    BY GoneIs DEF OpenIncoming
  <1>5. Copy(j) => Kept(j) /\ job'[j].pc = "replace" /\ job'[j].status = job[j].status
    BY GoneIs DEF Copy
  <1>6. Replace(j) => Kept(j) /\ job'[j].pc = "finally" /\ job'[j].status = "QUARANTINED"
    BY QuarantinedIs DEF Replace
  <1>7. FinishRaises(j) => Kept(j) /\ job'[j].pc = "lost" /\ job'[j].status = job[j].status
    BY GoneIs DEF FinishRaises
  <1> QED
    BY <1>1, <1>2, <1>3, <1>4, <1>5, <1>6, <1>7

\* The steps that raise.
LEMMA RaisingIs ==
  ASSUME NEW j \in Jobs, ScannerRaises(j) \/ LaterStepRaises(j) \/ AdmitRaises(j)
  PROVE  Raise(j)
  BY DEF ScannerRaises, LaterStepRaises, AdmitRaises

-----------------------------------------------------------------------------
(* Staging.                                                                  *)

LEMMA StagingStep ==
  ASSUME TypeInv, StagingIsTransient, NEW j \in Jobs, Step(j)
  PROVE  StagingIsTransient'
  <1> USE DEF files, tables
  <1>1. CASE Finish(j)
    <2>1. staged' = {dir \in staged : dir[1] # j}
      BY <1>1 DEF Finish, LeftStaged
    <2>2. SUFFICES ASSUME NEW dir \in staged, dir[1] # j PROVE ~At(dir[1], "done")'
      BY <2>1 DEF StagingIsTransient
    <2>3. dir[1] \in Jobs
      BY DEF TypeInv, FileTypes
    <2> QED
      BY <2>2, <2>3, OthersStay DEF StagingIsTransient, At, Same
  <1>2. CASE ~Finish(j)
    <2>1. job'[j].pc # "done"
      <3>1. CASE Start(j) \/ StartDerived(j)
        BY <3>1, StartedIs
      <3>2. CASE PassOver(j) \/ Refuse(j) \/ SaveScan(j)
        BY <3>2, PassedIs
      <3>3. CASE Analyze(j)
        BY <3>3, AnalyzedIs
      <3>4. CASE Probe(j) \/ Scan(j) \/ EndLoop(j) \/ EndContainer(j)
        BY <3>4, ProbedIs, ScannedIs, LoopedIs, WalkedIs
      <3>5. CASE Verify(j)
        BY <3>5, VerifiedIs, RaisedIs
      <3>6. CASE ScannerRaises(j) \/ LaterStepRaises(j) \/ AdmitRaises(j)
        BY <3>6, RaisingIs, RaisedIs
      <3>7. CASE SaveProbe(j) \/ Prepare(j) \/ Look(j) \/ OpenIncoming(j) \/ Copy(j)
                    \/ Replace(j) \/ FinishRaises(j)
        BY <3>7, MovedIs, RaisedIs
      <3> QED
        BY <1>2, <3>1, <3>2, <3>3, <3>4, <3>5, <3>6, <3>7 DEF Step
    <2>2. staged' \subseteq staged \cup {<<j, Name(j)>>}
      BY <1>2 DEF Step, Start, StartDerived, PassOver, Analyze, Refuse, Probe, SaveProbe, Prepare,
           Scan, SaveScan, ScannerRaises, EndLoop, EndContainer, LaterStepRaises, Verify, Look,
           OpenIncoming, Copy, Replace, AdmitRaises, FinishRaises, LeftStaged
    <2>3. SUFFICES ASSUME NEW dir \in staged' PROVE ~At(dir[1], "done")'
      BY DEF StagingIsTransient
    <2>4. CASE dir[1] = j
      BY <2>1, <2>4 DEF At
    <2>5. CASE dir[1] # j
      <3>1. dir \in staged /\ dir[1] \in Jobs
        BY <2>2, <2>3, <2>5 DEF TypeInv, FileTypes
      <3> QED
        BY <2>5, <3>1, OthersStay DEF StagingIsTransient, At, Same
    <2> QED
      BY <2>4, <2>5
  <1> QED
    BY <1>1, <1>2

\* A job that ended leaves no directory in staging, whatever raised before, and however many
\* jobs and scanners there are (scanning.py: the finally clause of execute_queued()).
THEOREM StagingIsLeftEmpty == Spec => []StagingIsTransient
  <1>1. Init => StagingIsTransient
    BY DEF Init, StagingIsTransient
  <1>2. TypeInv /\ StagingIsTransient /\ [Next]_vars => StagingIsTransient'
    <2> SUFFICES ASSUME TypeInv, StagingIsTransient, [Next]_vars PROVE StagingIsTransient'
      OBVIOUS
    <2>1. ASSUME NEW j \in Jobs, Rewrite(j) PROVE StagingIsTransient'
      BY <2>1 DEF Rewrite, files, tables, StagingIsTransient, At
    <2>2. CASE Crash
      <3>1. SUFFICES ASSUME NEW dir \in staged PROVE ~At(dir[1], "done")'
        BY <2>2 DEF Crash, files, StagingIsTransient
      <3>2. dir[1] \in Jobs
        BY DEF TypeInv, FileTypes
      <3> QED
        BY <2>2, <3>2, CrashedIs DEF StagingIsTransient, At
    <2>3. CASE UNCHANGED vars
      BY <2>3 DEF vars, StagingIsTransient, At
    <2> QED
      BY <2>1, <2>2, <2>3, StagingStep DEF Next, AllDone
  <1>3. TypeInv /\ [Next]_vars => TypeInv'
    BY NextTypeInv
  <1> QED
    BY InitTypeInv, <1>1, <1>2, <1>3, PTL DEF Spec

\* Which steps change what of the job, or take its thread where.
LEMMA StepIs ==
  ASSUME TypeInv, NEW j \in Jobs, Step(j)
  PROVE  /\ job'[j].results = job[j].results \/ Scan(j)
         /\ job'[j].analyzed = job[j].analyzed \/ Analyze(j)
         /\ job'[j].derived = job[j].derived
         /\ job[j].errors \subseteq job'[j].errors
         /\ job'[j].requested = job[j].requested \/ job[j].pc = "idle"
         /\ job'[j].pc \in Turn => Probe(j) \/ SaveProbe(j) \/ Prepare(j) \/ Scan(j)
         /\ job'[j].pc = "copy" => OpenIncoming(j)
         /\ job'[j].pc = "replace" => Copy(j)
         /\ job'[j].pc # "idle" /\ job[j].pc \notin {"done", "lost", "dead"}
         /\ job'[j].pc \in Later =>
               /\ EndLoop(j) \/ job[j].pc \in Later
               /\ job'[j].at = job[j].at /\ job'[j].requested = job[j].requested
         /\ job'[j].status \in {"COMPLETE", "QUARANTINED"} =>
               /\ job[j].pc \in Later \/ (job'[j].status = job[j].status /\ job[j].pc = "finally")
               /\ job'[j].at = job[j].at /\ job'[j].requested = job[j].requested
  <1>0. Staged(j, job[j])
    BY JobFits
  <1> USE DEF Turn, Later, Admitting
  <1>1. CASE Start(j) \/ StartDerived(j)
    BY <1>1, StartedIs
  <1>2. CASE PassOver(j) \/ Refuse(j) \/ SaveScan(j)
    <2>1. job[j].status = "RUNNING" /\ job[j].pc \in {"loop"} \cup Turn
      BY <1>0, <1>2 DEF PassOver, Refuse, SaveScan, Working, At, Staged, AtWork
    <2> QED
      BY <1>2, <2>1, PassedIs
  <1>3. CASE Analyze(j)
    <2>1. job[j].status = "RUNNING" /\ job[j].pc = "loop"
      BY <1>0, <1>3 DEF Analyze, Working, At, Staged, AtWork
    <2> QED
      BY <1>3, <2>1, AnalyzedIs
  <1>4. CASE Probe(j) \/ Scan(j)
    <2>1. job[j].status = "RUNNING" /\ job[j].pc \in {"loop"} \cup Turn
      BY <1>0, <1>4 DEF Probe, Scan, Working, At, Staged, AtWork
    <2> QED
      BY <1>4, <2>1, ProbedIs, ScannedIs
  <1>5. CASE EndLoop(j) \/ EndContainer(j)
    <2>1. /\ job[j].status = "RUNNING" /\ job[j].pc \in {"loop", "container"}
          /\ EndContainer(j) => job[j].pc = "container"
      BY <1>0, <1>5 DEF EndLoop, EndContainer, At, Staged, AtWork
    <2> QED
      BY <1>5, <2>1, LoopedIs, WalkedIs
  <1>6. CASE Verify(j)
    <2>1. job[j].pc = "verify"
      BY <1>6 DEF Verify, At
    <2> QED
      BY <1>6, <2>1, VerifiedIs, RaisedIs DEF Kept
  <1>7. CASE ScannerRaises(j) \/ LaterStepRaises(j) \/ AdmitRaises(j)
    <2>1. job[j].pc \in {"loop"} \cup Turn \cup Later
      BY <1>7 DEF ScannerRaises, LaterStepRaises, AdmitRaises, Working, At
    <2> QED
      BY <1>7, <2>1, RaisingIs, RaisedIs
  <1>8. CASE SaveProbe(j) \/ Prepare(j) \/ FinishRaises(j)
    <2>1. /\ (job[j].pc \in Turn /\ job[j].status = "RUNNING") \/ job[j].pc = "finally"
          /\ SaveProbe(j) \/ Prepare(j) => job[j].pc \in Turn
      BY <1>0, <1>8 DEF SaveProbe, Prepare, FinishRaises, At, Staged, AtWork
    <2> QED
      BY <1>8, <2>1, MovedIs DEF Kept
  <1>9. CASE Look(j) \/ OpenIncoming(j) \/ Copy(j) \/ Replace(j)
    <2>1. job[j].pc \in Admitting
      BY <1>9 DEF Look, OpenIncoming, Copy, Replace, At
    <2> QED
      BY <1>9, <2>1, MovedIs, RaisedIs DEF Kept
  <1>10. CASE Finish(j)
    <2>1. job[j].pc = "finally"
      BY <1>10 DEF Finish, At
    <2> QED
      BY <1>10, <2>1, FinishedIs DEF Kept
  <1> QED
    BY <1>1, <1>2, <1>3, <1>4, <1>5, <1>6, <1>7, <1>8, <1>9, <1>10 DEF Step

-----------------------------------------------------------------------------
(* Qualification.                                                            *)

\* What the rows and results say, and what a scanner's turn is going to say.
TurnIsEarned(j) ==
    /\ At(j, "scanned") /\ job[j].results[Len(job[j].results)].verdict # "ERROR" =>
          Name(j) \in earned
    /\ job[j].pc \in Turn /\ job[j].previous = "QUALIFIED" => Name(j) \in earned
EarnedInv == QualificationIsEarned /\ \A j \in Jobs : TurnIsEarned(j)

LEMMA EarnedGrows ==
  ASSUME NEW j \in Jobs, Step(j) PROVE earned \subseteq earned' /\ (~Scan(j) => earned' = earned)
  <1>1. Scan(j) => earned \subseteq earned'
    BY DEF Scan
  <1>2. ~Scan(j) => earned' = earned
    BY DEF Step, Start, StartDerived, PassOver, Analyze, Refuse, Probe, SaveProbe, Prepare,
         SaveScan, ScannerRaises, EndLoop, EndContainer, LaterStepRaises, Verify, Look,
         OpenIncoming, Copy, Replace, AdmitRaises, Finish, FinishRaises, tables
  <1> QED
    BY <1>1, <1>2

LEMMA EarnedStep == ASSUME TypeInv, EarnedInv, NEW j \in Jobs, Step(j) PROVE EarnedInv'
  <1>1. earned \subseteq earned' /\ (~Scan(j) => earned' = earned)
    BY EarnedGrows
  <1>2. ASSUME NEW s \in Scanners, runtime'[s] = "QUALIFIED" PROVE s \in earned'
    <2>1. CASE runtime' = runtime
      BY <1>1, <1>2, <2>1 DEF EarnedInv, QualificationIsEarned
    <2>2. CASE Analyze(j)
      <3>1. Name(j) \in Analyzers
        BY <2>2, NameFits DEF Analyze
      <3>2. runtime'[s] = runtime[s]
        BY <2>2, <3>1, NamesAssumption DEF Analyze, TypeInv, TableTypes
      <3> QED
        BY <1>1, <1>2, <3>2 DEF EarnedInv, QualificationIsEarned
    <2>3. CASE SaveProbe(j)
      <3>1. job[j].pc \in Turn /\ runtime' = [runtime EXCEPT ![Name(j)] = ProbedRow(j)]
        BY <2>3 DEF SaveProbe, At, Turn
      <3>2. ProbedRow(j) = "QUALIFIED" => Name(j) \in earned
        BY <3>1 DEF ProbedRow, EarnedInv, TurnIsEarned
      <3> QED
        BY <1>1, <1>2, <3>1, <3>2 DEF EarnedInv, QualificationIsEarned, TypeInv, TableTypes
    <2>4. CASE SaveScan(j)
      <3>1. At(j, "scanned") /\ runtime' = [runtime EXCEPT ![Name(j)] = ScannedRow(j)]
        BY <2>4 DEF SaveScan
      <3>2. ScannedRow(j) = "QUALIFIED" => Name(j) \in earned
        BY <3>1 DEF ScannedRow, Last, EarnedInv, TurnIsEarned
      <3> QED
        BY <1>1, <1>2, <3>1, <3>2 DEF EarnedInv, QualificationIsEarned, TypeInv, TableTypes
    <2>5. runtime' = runtime \/ Analyze(j) \/ SaveProbe(j) \/ SaveScan(j)
      BY DEF Step, Start, StartDerived, PassOver, Refuse, Probe, Prepare, Scan, ScannerRaises,
           EndLoop, EndContainer, LaterStepRaises, Verify, Look, OpenIncoming, Copy, Replace,
           AdmitRaises, Finish, FinishRaises, tables
    <2> QED
      BY <2>1, <2>2, <2>3, <2>4, <2>5
  <1>3. ASSUME Scan(j)
        PROVE  /\ \A result \in ToSet(job'[j].results) : result.qualified => result.scanner \in earned'
               /\ TurnIsEarned(j)'
    <2>1. job[j].pc \in Turn /\ At(j, "scanning")
      BY <1>3 DEF Scan, At, Turn
    <2>2. /\ job'[j].requested = job[j].requested /\ job'[j].at = job[j].at
          /\ job'[j].previous = job[j].previous
      BY <1>3, ScannedIs
    <2>3. PICK verdict \in CanReport[Name(j)] :
             /\ job'[j].results =
                  Append(job[j].results, [scanner |-> Name(j), verdict |-> verdict,
                                          ref |-> active[Name(j)],
                                          qualified |-> job[j].previous = "QUALIFIED"])
             /\ earned' = IF verdict = "ERROR" THEN earned ELSE earned \cup {Name(j)}
      BY <1>3, ScannedIs
    <2> DEFINE new == [scanner |-> Name(j), verdict |-> verdict, ref |-> active[Name(j)],
                       qualified |-> job[j].previous = "QUALIFIED"]
    <2>4. /\ new.qualified => new.scanner \in earned
          /\ new.verdict # "ERROR" => Name(j) \in earned'
      BY <2>1, <2>3 DEF EarnedInv, TurnIsEarned
    <2>5. job'[j].results = Append(job[j].results, new)
      BY <2>3
    <2> HIDE DEF new
    <2>6. /\ \A x : x \in ToSet(job'[j].results) => x \in ToSet(job[j].results) \/ x = new
          /\ job'[j].results[Len(job'[j].results)] = new
      <3>1. job[j].results \in Seq(Result)
        BY ResultsFit
      <3> QED
        BY <2>5, <3>1 DEF ToSet
    <2>7. \A result \in ToSet(job'[j].results) : result.qualified => result.scanner \in earned'
      BY <1>1, <2>4, <2>6 DEF EarnedInv, QualificationIsEarned
    <2>8. TurnIsEarned(j)'
      BY <1>1, <2>1, <2>2, <2>4, <2>6 DEF EarnedInv, TurnIsEarned, Name, At
    <2> QED
      BY <2>7, <2>8
  <1>4. ASSUME ~Scan(j)
        PROVE  /\ \A result \in ToSet(job'[j].results) : result.qualified => result.scanner \in earned'
               /\ TurnIsEarned(j)'
    <2>1. job'[j].results = job[j].results
      BY <1>4, StepIs
    <2>2. \A result \in ToSet(job'[j].results) : result.qualified => result.scanner \in earned'
      BY <1>1, <2>1 DEF EarnedInv, QualificationIsEarned
    <2>3. TurnIsEarned(j)'
      <3>1. CASE Probe(j)
        <4>1. Name(j) \in Scanners /\ runtime[Name(j)] = "QUALIFIED" => Name(j) \in earned
          BY DEF EarnedInv, QualificationIsEarned
        <4>2. Name(j) \in Scanners
          BY <3>1, NameFits DEF Probe
        <4> QED
          BY <1>4, <1>1, <3>1, <4>1, <4>2, ProbedIs DEF TurnIsEarned, At, Name
      <3>2. CASE SaveProbe(j) \/ Prepare(j)
        <4>1. job[j].pc \in Turn
          BY <3>2 DEF SaveProbe, Prepare, At, Turn
        <4> QED
          BY <1>1, <1>4, <3>2, <4>1, MovedIs DEF EarnedInv, TurnIsEarned, Kept, At, Name
      <3>3. CASE job'[j].pc \notin Turn
        BY <3>3 DEF TurnIsEarned, At, Turn
      <3> QED
        BY <1>4, <3>1, <3>2, <3>3, StepIs
    <2> QED
      BY <2>2, <2>3
  <1>5. ASSUME NEW k \in Jobs, k # j
        PROVE  /\ \A result \in ToSet(job'[k].results) : result.qualified => result.scanner \in earned'
               /\ TurnIsEarned(k)'
    <2>1. Same(job'[k], job[k])
      BY <1>5, OthersStay
    <2> QED
      BY <1>1, <2>1 DEF EarnedInv, QualificationIsEarned, TurnIsEarned, Same, At, Name
  <1> QED
    BY <1>2, <1>3, <1>4, <1>5 DEF EarnedInv, QualificationIsEarned

\* QUALIFIED, in a row or a result, is earned by a run without an error, however the reads and the
\* writes of the rows by any number of jobs interleave (scanning.py: the scanner's turn).
THEOREM QualificationIsAlwaysEarned == Spec => []QualificationIsEarned
  <1>1. ASSUME Init PROVE EarnedInv
    <2>1. \A j \in Jobs : job[j].results = <<>> /\ job[j].pc = "idle"
      BY <1>1 DEF Init
    <2> QED
      BY <1>1, <2>1 DEF Init, EarnedInv, QualificationIsEarned, TurnIsEarned, At, Turn, ToSet
  <1>2. TypeInv /\ EarnedInv /\ [Next]_vars => EarnedInv'
    <2> SUFFICES ASSUME TypeInv, EarnedInv, [Next]_vars PROVE EarnedInv'
      OBVIOUS
    <2>1. ASSUME NEW j \in Jobs, Rewrite(j) PROVE EarnedInv'
      BY <2>1 DEF Rewrite, files, tables, EarnedInv, QualificationIsEarned, TurnIsEarned, At, Name
    <2>2. CASE Crash
      <3>1. runtime' = runtime /\ earned' = earned
        BY <2>2 DEF Crash
      <3>2. \A j \in Jobs : job'[j].results = job[j].results /\ job'[j].pc \notin Turn
        BY <2>2, CrashedIs DEF Kept, Resting, Turn
      <3> QED
        BY <3>1, <3>2 DEF EarnedInv, QualificationIsEarned, TurnIsEarned, At, Turn
    <2>3. CASE UNCHANGED vars
      BY <2>3 DEF vars, EarnedInv, QualificationIsEarned, TurnIsEarned, At, Name
    <2> QED
      BY <2>1, <2>2, <2>3, EarnedStep DEF Next, AllDone
  <1>3. TypeInv /\ [Next]_vars => TypeInv'
    BY NextTypeInv
  <1>4. EarnedInv => QualificationIsEarned
    BY DEF EarnedInv
  <1> QED
    BY InitTypeInv, <1>1, <1>2, <1>3, <1>4, PTL DEF Spec

-----------------------------------------------------------------------------
(* Quarantine.                                                               *)

\* One job at a time copies to the .incoming file of a digest.
Copying == {"copy", "replace"}
CopiesFit ==
    /\ Jobs \ intact \subseteq Rewritable
    /\ \A d \in DOMAIN incoming :
          incoming[d] = "other" => \E j \in Rewritable \ intact : Digest[j] = d
    /\ \A j \in Jobs :
          /\ job[j].pc \in Copying => incoming[Digest[j]] # "none"
          /\ At(j, "replace") => incoming[Digest[j]] # "part"
OneCopies ==
    \A j, k \in Jobs :
        job[j].pc \in Copying /\ job[k].pc \in Copying /\ Digest[j] = Digest[k] => j = k
CopyInv == QuarantineIsWhole /\ CopiesFit /\ OneCopies

LEMMA FilesStay ==
  ASSUME NEW j \in Jobs, Step(j), ~OpenIncoming(j), ~Copy(j), ~Replace(j)
  PROVE  UNCHANGED <<incoming, quarantine, intact>>
  BY DEF Step, Start, StartDerived, PassOver, Analyze, Refuse, Probe, SaveProbe, Prepare, Scan,
     SaveScan, ScannerRaises, EndLoop, EndContainer, LaterStepRaises, Verify, Look, AdmitRaises,
     Finish, FinishRaises, files

LEMMA CopyStep == ASSUME TypeInv, CopyInv, NEW j \in Jobs, Step(j) PROVE CopyInv'
  <1> DEFINE d == Digest[j]
  <1>0. /\ d \in DOMAIN incoming /\ DOMAIN incoming = DOMAIN quarantine
        /\ \A k \in Jobs : Digest[k] \in DOMAIN incoming
    BY DEF TypeInv, FileTypes
  <1>1. \A k \in Jobs : k # j => job'[k].pc = job[k].pc
    BY OthersStay DEF Same
  <1>2. CASE OpenIncoming(j)
    <2>1. /\ UNCHANGED <<quarantine, intact>>
          /\ \/ Raise(j) /\ incoming' = incoming
             \/ /\ incoming[d] = "none" /\ Goto(j, "copy")
                /\ incoming' = [incoming EXCEPT ![d] = "part"]
      BY <1>2 DEF OpenIncoming
    <2>2. CASE Raise(j) /\ incoming' = incoming
      <3>1. job'[j].pc \notin Copying
        BY <2>2, RaisedIs DEF Copying
      <3> QED
        BY <1>1, <2>1, <2>2, <3>1
           DEF CopyInv, QuarantineIsWhole, CopiesFit, OneCopies, Copying, At
    <2>3. CASE incoming[d] = "none" /\ Goto(j, "copy") /\ incoming' = [incoming EXCEPT ![d] = "part"]
      <3>1. job'[j].pc = "copy"
        BY <2>3, GoneIs
      <3>2. \A k \in Jobs : job[k].pc \in Copying => Digest[k] # d
        BY <2>3 DEF CopyInv, CopiesFit
      <3>3. QuarantineIsWhole' /\ OneCopies'
        BY <1>1, <2>1, <3>1, <3>2 DEF CopyInv, QuarantineIsWhole, OneCopies
      <3>4. CopiesFit'
        BY <1>0, <1>1, <2>1, <2>3, <3>1, <3>2 DEF CopyInv, CopiesFit, Copying, At
      <3> QED
        BY <3>3, <3>4 DEF CopyInv
    <2> QED
      BY <2>1, <2>2, <2>3
  <1>3. CASE Copy(j)
    <2>1. /\ UNCHANGED <<quarantine, intact>> /\ job[j].pc = "copy"
          /\ incoming' = [incoming EXCEPT ![d] = IF j \in intact THEN "whole" ELSE "other"]
      BY <1>3 DEF Copy, At
    <2>2. job'[j].pc = "replace"
      BY <1>3, MovedIs
    <2>3. QuarantineIsWhole' /\ OneCopies'
      BY <1>1, <2>1, <2>2 DEF CopyInv, QuarantineIsWhole, OneCopies, Copying
    <2>4. incoming'[d] \in {"whole", "other"} /\ (incoming'[d] = "other" => j \in Rewritable \ intact)
      BY <1>0, <2>1 DEF CopyInv, CopiesFit
    <2>5. \A e \in DOMAIN incoming : e # d => incoming'[e] = incoming[e]
      BY <2>1
    <2>6. CopiesFit'
      BY <1>0, <1>1, <2>1, <2>2, <2>4, <2>5 DEF CopyInv, CopiesFit, Copying, At
    <2> QED
      BY <2>3, <2>6 DEF CopyInv
  <1>4. CASE Replace(j)
    <2>1. /\ intact' = intact /\ job[j].pc = "replace"
          /\ quarantine' = [quarantine EXCEPT ![d] = incoming[d]]
          /\ incoming' = [incoming EXCEPT ![d] = "none"]
      BY <1>4 DEF Replace, At
    <2>2. job'[j].pc = "finally"
      BY <1>4, MovedIs
    <2>3. \A k \in Jobs : k # j /\ job[k].pc \in Copying => Digest[k] # d
      BY <2>1 DEF CopyInv, OneCopies, Copying
    <2>4. QuarantineIsWhole' /\ OneCopies'
      BY <1>0, <1>1, <2>1, <2>2
         DEF CopyInv, QuarantineIsWhole, OneCopies, CopiesFit, Copying, At
    <2>5. CopiesFit'
      BY <1>0, <1>1, <2>1, <2>2, <2>3 DEF CopyInv, CopiesFit, Copying, At
    <2> QED
      BY <2>4, <2>5 DEF CopyInv
  <1>5. CASE ~OpenIncoming(j) /\ ~Copy(j) /\ ~Replace(j)
    <2>1. UNCHANGED <<incoming, quarantine, intact>>
      BY <1>5, FilesStay
    <2>2. job'[j].pc \notin Copying
      BY <1>5, StepIs DEF Copying
    <2> QED
      BY <1>1, <2>1, <2>2 DEF CopyInv, QuarantineIsWhole, CopiesFit, OneCopies, Copying, At
  <1> QED
    BY <1>2, <1>3, <1>4, <1>5

LEMMA CopyInit == ASSUME Init PROVE CopyInv
  <1>1. /\ \A j \in Jobs : job[j].pc = "idle"
        /\ \A d \in DOMAIN incoming : incoming[d] = "none" /\ quarantine[d] = "none"
        /\ DOMAIN incoming = DOMAIN quarantine /\ intact = Jobs
    BY DEF Init
  <1> QED
    BY <1>1 DEF CopyInv, QuarantineIsWhole, CopiesFit, OneCopies, Copying, At

LEMMA CopyNext == ASSUME TypeInv, CopyInv, [Next]_vars PROVE CopyInv'
  <1>1. ASSUME NEW j \in Jobs, Rewrite(j) PROVE CopyInv'
    <2>1. UNCHANGED <<job, incoming, quarantine>> /\ intact' \subseteq intact
          /\ Jobs \ intact' \subseteq Rewritable
      BY <1>1 DEF Rewrite, files, CopyInv, CopiesFit
    <2> QED
      BY <2>1 DEF CopyInv, QuarantineIsWhole, CopiesFit, OneCopies, At
  <1>2. CASE Crash
    <2>1. \A j \in Jobs : job'[j].pc \notin Copying
      BY <1>2, CrashedIs DEF Resting, Copying
    <2> QED
      BY <1>2, <2>1 DEF Crash, files, CopyInv, QuarantineIsWhole, CopiesFit, OneCopies, Copying, At
  <1>3. CASE UNCHANGED vars
    BY <1>3 DEF vars, CopyInv, QuarantineIsWhole, CopiesFit, OneCopies, Copying, At
  <1> QED
    BY <1>1, <1>2, <1>3, CopyStep DEF Next, AllDone

\* No file in quarantine is ever half a copy, and none is another object than its name says unless
\* its source was rewritten after it was verified: for any number of jobs that admit the same
\* digest, with a crash or a full disk at any point (preservation/service.py: admit()).
THEOREM QuarantineStaysWhole == Spec => []QuarantineIsWhole
  <1>1. CopyInv => QuarantineIsWhole
    BY DEF CopyInv
  <1> QED
    BY InitTypeInv, NextTypeInv, CopyInit, CopyNext, <1>1, PTL DEF Spec

-----------------------------------------------------------------------------
(* What every name left, and what the results say of the job.                *)

\* A name that was looked at left something.
Told(r, name) ==
    \/ name \in Special
    \/ name \in r.errors
    \/ \E i \in 1 .. Len(r.results) : r.results[i].scanner = name
    \/ \E result \in r.analyzed : result.name = name

ToldOf(j) ==
    /\ \A i \in 1 .. Len(job[j].requested) :
          i < job[j].at => Told(job[j], job[j].requested[i])
    /\ job[j].pc \in Later \/ job[j].status \in {"COMPLETE", "QUARANTINED"} =>
          job[j].at > Len(job[j].requested)
ToldInv == \A j \in Jobs : ToldOf(j)

LEMMA ToldIsEnough == ASSUME TypeInv, ToldInv PROVE NothingSkippedSilently
  <1> SUFFICES ASSUME NEW j \in Jobs, job[j].status \in {"COMPLETE", "QUARANTINED"},
                      NEW name \in ToSet(job[j].requested) \ Special
               PROVE  \/ name \in job[j].errors
                      \/ \E result \in ToSet(job[j].results) : result.scanner = name
                      \/ \E result \in job[j].analyzed : result.name = name
    BY DEF NothingSkippedSilently
  <1>1. job[j].requested \in Seq(Names) /\ job[j].at \in Nat
    BY JobFits DEF ScanJob
  <1>2. PICK i \in 1 .. Len(job[j].requested) : job[j].requested[i] = name
    BY <1>1, ElementsFit
  <1>3. i < job[j].at
    BY <1>1 DEF ToldInv, ToldOf
  <1>4. Told(job[j], name)
    BY <1>2, <1>3 DEF ToldInv, ToldOf
  <1> QED
    BY <1>4, ResultsFit DEF Told

\* The results, errors and analyses of a job only grow.
LEMMA ToldStays ==
  ASSUME TypeInv, NEW j \in Jobs, Step(j), NEW name, Told(job[j], name)
  PROVE  Told(job'[j], name)
  <1>1. \/ job'[j].results = job[j].results
        \/ \E x : job'[j].results = Append(job[j].results, x)
    <2>1. job'[j].results = job[j].results \/ Scan(j)
      BY StepIs
    <2> QED
      BY <2>1, ScannedIs
  <1>2. \A i \in 1 .. Len(job[j].results) :
           i \in 1 .. Len(job'[j].results) /\ job'[j].results[i] = job[j].results[i]
    <2>1. PICK before \in Seq(Result) : before = job[j].results
      BY ResultsFit
    <2>2. PICK after : after = job'[j].results
      OBVIOUS
    <2>3. after = before \/ \E x : after = Append(before, x)
      BY ONLY <1>1, <2>1, <2>2
    <2>4. \A i \in 1 .. Len(before) : i \in 1 .. Len(after) /\ after[i] = before[i]
      BY ONLY <2>3, before \in Seq(Result)
    <2> QED
      BY ONLY <2>1, <2>2, <2>4
  <1>3. job[j].analyzed \subseteq job'[j].analyzed /\ job[j].errors \subseteq job'[j].errors
    BY StepIs, AnalyzedIs
  <1> QED
    BY <1>2, <1>3 DEF Told

\* A thread goes on to the next name only when the one it is at has left something.
LEMMA NextIsTold ==
  ASSUME TypeInv, NEW j \in Jobs, Step(j)
  PROVE  /\ \/ job'[j].at = job[j].at
            \/ job'[j].at = job[j].at + 1 /\ Told(job'[j], Name(j))
         /\ job'[j].requested = job[j].requested \/ (job'[j].at = 1 /\ job[j].at = 1)
  <1>0. job[j] \in ScanJob /\ Staged(j, job[j])
    BY JobFits
  <1>1. CASE PassOver(j) \/ Refuse(j)
    <2>1. PassOver(j) => Name(j) \in Special
      BY DEF PassOver, Working
    <2>2. Refuse(j) /\ ~PassOver(j) /\ ~SaveScan(j) => Name(j) \in job'[j].errors
      BY PassedIs
    <2>3. ~SaveScan(j)
      BY <1>1 DEF PassOver, Refuse, SaveScan, Working, At
    <2> QED
      BY <1>1, <2>1, <2>2, <2>3, PassedIs DEF Told
  <1>2. CASE SaveScan(j)
    <2>1. job[j].pc = "scanned"
      BY <1>2 DEF SaveScan, At
    <2>2. job[j].results # <<>> /\ job[j].results[Len(job[j].results)].scanner = Name(j)
      BY <1>0, <2>1 DEF Staged, Name
    <2>3. job[j].results \in Seq(Result)
      BY ResultsFit
    <2>4. Len(job[j].results) \in 1 .. Len(job[j].results)
      BY <2>2, <2>3
    <2>5. Told(job'[j], Name(j))
      BY <1>2, <2>2, <2>4, PassedIs DEF Told
    <2> QED
      BY <1>2, <2>5, PassedIs
  <1>3. CASE Analyze(j)
    <2>1. Name(j) \in job'[j].errors \/ \E result \in job'[j].analyzed : result.name = Name(j)
      <3> SUFFICES ASSUME Name(j) \notin job'[j].errors
                   PROVE  \E result \in job'[j].analyzed : result.name = Name(j)
        OBVIOUS
      <3>1. PICK new \in Reported[Name(j)] :
               job'[j].analyzed = job[j].analyzed \cup
                  {[name |-> Name(j), native |-> new.native, erring |-> new.erring]}
        BY <1>3, AnalyzedIs
      <3>2. [name |-> Name(j), native |-> new.native, erring |-> new.erring] \in job'[j].analyzed
        BY <3>1
      <3> QED
        BY <3>2
    <2> QED
      BY <1>3, <2>1, AnalyzedIs DEF Told
  <1>4. CASE Start(j) \/ StartDerived(j)
    <2>1. job[j].at = 1
      BY <1>0, <1>4, StartedIs DEF Staged
    <2> QED
      BY <1>4, <2>1, StartedIs
  <1>5. CASE Probe(j) \/ Scan(j) \/ EndLoop(j) \/ EndContainer(j)
    BY <1>5, ProbedIs, ScannedIs, LoopedIs, WalkedIs
  <1>6. CASE Verify(j)
    BY <1>6, VerifiedIs, RaisedIs DEF Kept
  <1>7. CASE ScannerRaises(j) \/ LaterStepRaises(j) \/ AdmitRaises(j)
    BY <1>7, RaisingIs, RaisedIs
  <1>8. CASE SaveProbe(j) \/ Prepare(j) \/ Look(j) \/ OpenIncoming(j) \/ Copy(j)
                \/ Replace(j) \/ FinishRaises(j)
    BY <1>8, MovedIs, RaisedIs DEF Kept
  <1>9. CASE Finish(j)
    BY <1>9, FinishedIs DEF Kept
  <1> QED
    BY <1>1, <1>2, <1>3, <1>4, <1>5, <1>6, <1>7, <1>8, <1>9 DEF Step

LEMMA ToldStep == ASSUME TypeInv, ToldInv, NEW j \in Jobs, Step(j) PROVE ToldInv'
  <1>1. ASSUME NEW k \in Jobs, k # j PROVE ToldOf(k)'
    <2>1. Same(job'[k], job[k])
      BY <1>1, OthersStay
    <2> QED
      BY <2>1 DEF ToldInv, ToldOf, Told, Same
  <1>2. job[j].at \in Nat /\ job[j].at >= 1 /\ job[j].requested \in Seq(Names)
    BY JobFits DEF ScanJob, Staged
  <1>3. ASSUME NEW i \in 1 .. Len(job'[j].requested), i < job'[j].at
        PROVE  Told(job'[j], job'[j].requested[i])
    <2>1. CASE job'[j].requested # job[j].requested
      BY <1>3, <2>1, NextIsTold
    <2>2. CASE job'[j].requested = job[j].requested /\ i < job[j].at
      BY <1>3, <2>2, ToldStays DEF ToldInv, ToldOf
    <2>3. CASE job'[j].requested = job[j].requested /\ ~(i < job[j].at)
      <3>1. Len(job[j].requested) \in Nat
        BY <1>2
      <3>2. job'[j].at = job[j].at + 1 /\ Told(job'[j], Name(j)) /\ i = job[j].at
        BY <1>2, <1>3, <2>3, <3>1, NextIsTold
      <3> QED
        BY <2>3, <3>2 DEF Name
    <2> QED
      BY <2>1, <2>2, <2>3
  <1>4. ASSUME job'[j].pc \in Later \/ job'[j].status \in {"COMPLETE", "QUARANTINED"}
        PROVE  job'[j].at > Len(job'[j].requested)
    <2>1. job'[j].at = job[j].at /\ job'[j].requested = job[j].requested
      BY <1>4, StepIs
    <2>2. EndLoop(j) => job[j].at > Len(job[j].requested)
      BY DEF EndLoop
    <2> QED
      BY <1>4, <2>1, <2>2, StepIs DEF ToldInv, ToldOf
  <1>5. ToldOf(j)'
    BY <1>3, <1>4 DEF ToldOf
  <1> QED
    BY <1>1, <1>5 DEF ToldInv

\* No requested name of a job that was not FAILED vanishes: for any list of names, known or not,
\* and whatever its scanners and analyzers do (scanning.py: the loop of execute_queued()).
THEOREM NothingIsSkippedSilently == Spec => []NothingSkippedSilently
  <1>1. TypeInv /\ Init => ToldInv
    <2> SUFFICES ASSUME TypeInv, Init, NEW j \in Jobs PROVE ToldOf(j)
      BY DEF ToldInv
    <2>1. job[j].at = 1 /\ job[j].pc = "idle" /\ job[j].status \in {"CREATED", "QUEUED"}
      BY DEF Init
    <2> QED
      BY <2>1 DEF ToldOf, Later, Admitting
  <1>2. TypeInv /\ ToldInv /\ [Next]_vars => ToldInv'
    <2> SUFFICES ASSUME TypeInv, ToldInv, [Next]_vars PROVE ToldInv'
      OBVIOUS
    <2>1. CASE job' = job
      BY <2>1 DEF ToldInv, ToldOf
    <2>2. CASE Crash
      <3>1. \A j \in Jobs : Kept(j) /\ job'[j].status = job[j].status /\ job'[j].pc \notin Later
        BY <2>2, CrashedIs DEF Resting, Later, Admitting
      <3> QED
        BY <3>1 DEF ToldInv, ToldOf, Told, Kept
    <2>3. job' = job \/ Crash \/ \E j \in Jobs : Step(j)
      BY DEF Next, Rewrite, AllDone, vars
    <2> QED
      BY <2>1, <2>2, <2>3, ToldStep
  <1>3. TypeInv /\ [Next]_vars => TypeInv'
    BY NextTypeInv
  <1>4. TypeInv /\ ToldInv => NothingSkippedSilently
    BY ToldIsEnough
  <1> QED
    BY InitTypeInv, <1>1, <1>2, <1>3, <1>4, PTL DEF Spec

PartialInv ==
    \A j \in Jobs : job[j].completeness = "COMPLETE" =>
        \A result \in job[j].analyzed :
            /\ result.name \in {"document", "executable"} => ~result.erring
            /\ result.name = "document" => result.native \notin Partial

\* What is said of a result is never COMPLETE when it is not.
LEMMA CompletenessIs ==
  ASSUME NEW name, NEW result, NEW before, Completeness(name, result, before) = "COMPLETE"
  PROVE  /\ before = "COMPLETE"
         /\ name \in {"document", "executable"} => ~result.erring
         /\ name = "document" => result.native \notin Partial
  <1>1. CASE name = "document" /\ result.native \in Partial
    BY <1>1 DEF Completeness, Partial
  <1>2. CASE ~(name = "document" /\ result.native \in Partial)
    BY <1>2 DEF Completeness
  <1> QED
    BY <1>1, <1>2

LEMMA PartialStep == ASSUME TypeInv, PartialInv, NEW j \in Jobs, Step(j) PROVE PartialInv'
  <1>1. ASSUME NEW k \in Jobs, k # j
        PROVE  job'[k].completeness = job[k].completeness /\ job'[k].analyzed = job[k].analyzed
    BY <1>1, OthersStay DEF Same
  <1>2. ASSUME job'[j].completeness = "COMPLETE", NEW result \in job'[j].analyzed
        PROVE  /\ result.name \in {"document", "executable"} => ~result.erring
               /\ result.name = "document" => result.native \notin Partial
    <2>1. CASE Analyze(j)
      <3>1. CASE job'[j].analyzed = job[j].analyzed /\ job'[j].completeness = job[j].completeness
        BY <1>2, <3>1 DEF PartialInv
      <3>2. ASSUME NEW new \in Reported[Name(j)],
                   job'[j].analyzed = job[j].analyzed \cup
                      {[name |-> Name(j), native |-> new.native, erring |-> new.erring]},
                   job'[j].completeness = Completeness(Name(j), new, job[j].completeness)
            PROVE  /\ result.name \in {"document", "executable"} => ~result.erring
                   /\ result.name = "document" => result.native \notin Partial
        <4>1. /\ job[j].completeness = "COMPLETE"
              /\ Name(j) \in {"document", "executable"} => ~new.erring
              /\ Name(j) = "document" => new.native \notin Partial
          BY <1>2, <3>2, CompletenessIs
        <4>2. CASE result \in job[j].analyzed
          BY <4>1, <4>2 DEF PartialInv
        <4>3. CASE result = [name |-> Name(j), native |-> new.native, erring |-> new.erring]
          BY <4>1, <4>3
        <4> QED
          BY <1>2, <3>2, <4>2, <4>3
      <3> QED
        BY <2>1, <3>1, <3>2, AnalyzedIs
    <2>2. CASE ~Analyze(j)
      <3>1. job[j].completeness = "COMPLETE"
        <4>1. CASE Start(j) \/ StartDerived(j) \/ PassOver(j) \/ Refuse(j) \/ SaveScan(j)
          BY <1>2, <4>1, StartedIs, PassedIs
        <4>2. CASE Probe(j) \/ Scan(j) \/ EndLoop(j) \/ EndContainer(j)
          BY <1>2, <4>2, ProbedIs, ScannedIs, LoopedIs, WalkedIs
        <4>3. CASE Verify(j) \/ ScannerRaises(j) \/ LaterStepRaises(j) \/ AdmitRaises(j)
          BY <1>2, <4>3, VerifiedIs, RaisingIs, RaisedIs DEF Kept
        <4>4. CASE SaveProbe(j) \/ Prepare(j) \/ Look(j) \/ OpenIncoming(j) \/ Copy(j)
                      \/ Replace(j) \/ FinishRaises(j) \/ Finish(j)
          BY <1>2, <4>4, MovedIs, RaisedIs, FinishedIs DEF Kept
        <4> QED
          BY <2>2, <4>1, <4>2, <4>3, <4>4 DEF Step
      <3> QED
        BY <1>2, <2>2, <3>1, StepIs DEF PartialInv
    <2> QED
      BY <2>1, <2>2
  <1> QED
    BY <1>1, <1>2 DEF PartialInv

\* A job that calls itself COMPLETE had no erring document or executable and no partial document,
\* in whatever order they were analyzed (scanning.py: the generic analyzers; containers.py).
THEOREM PartialIsAlwaysSaid == Spec => []PartialIsSaid
  <1>1. Init => PartialInv
    BY DEF Init, PartialInv
  <1>2. TypeInv /\ PartialInv /\ [Next]_vars => PartialInv'
    <2> SUFFICES ASSUME TypeInv, PartialInv, [Next]_vars PROVE PartialInv'
      OBVIOUS
    <2>1. CASE job' = job
      BY <2>1 DEF PartialInv
    <2>2. CASE Crash
      BY <2>2, CrashedIs DEF PartialInv, Kept
    <2>3. job' = job \/ Crash \/ \E j \in Jobs : Step(j)
      BY DEF Next, Rewrite, AllDone, vars
    <2> QED
      BY <2>1, <2>2, <2>3, PartialStep
  <1>3. TypeInv /\ [Next]_vars => TypeInv'
    BY NextTypeInv
  <1>4. PartialInv => PartialIsSaid
    BY DEF PartialInv, PartialIsSaid
  <1> QED
    BY InitTypeInv, <1>1, <1>2, <1>3, <1>4, PTL DEF Spec

-----------------------------------------------------------------------------
(* Verdicts.                                                                 *)

\* From the walk on, the verdict is that of all results, and they are what they were; the derived
\* objects are those whose execution has ended.
Judged(j) ==
    \/ job[j].pc \in {"verify"} \cup Admitting
    \/ job[j].status \in {"COMPLETE", "QUARANTINED"}

VerdictOf(j) ==
    /\ Judged(j) => job[j].verdict = Aggregate(AllVerdictsOf(j))
    /\ job[j].pc \in Admitting => job[j].verdict \in Positive
    /\ job[j].status = "COMPLETE" => job[j].verdict \notin Positive
    /\ job[j].status = "QUARANTINED" =>
          job[j].verdict \in Positive /\ quarantine[Digest[j]] # "none"
    /\ job[j].pc \in {"idle", "loop"} \cup Turn => job[j].derived = {}
    /\ \A c \in job[j].derived : Parent[c] = j /\ At(c, "done")
VerdictInv == CopyInv /\ \A j \in Jobs : VerdictOf(j)

LEMMA AllVerdictsFit == ASSUME TypeInv, NEW j \in Jobs PROVE AllVerdictsOf(j) \in SUBSET Verdicts
  <1>1. job[j].derived \subseteq Jobs
    BY JobFits DEF ScanJob
  <1> QED
    BY <1>1, VerdictsFit DEF AllVerdictsOf

LEMMA VerdictIsEnough ==
  ASSUME TypeInv, VerdictInv
  PROVE  /\ VerdictIsActedOn
         /\ \A j \in Jobs : job[j].status = "COMPLETE" /\ job[j].verdict = "CLEAN" =>
               "CLEAN" \in AllVerdictsOf(j) /\ AllVerdictsOf(j) \cap (Positive \cup {"ERROR"}) = {}
  <1>1. ASSUME NEW j \in Jobs, job[j].status \in {"COMPLETE", "QUARANTINED"}
        PROVE  /\ job[j].verdict \in Positive <=> AllVerdictsOf(j) \cap Positive # {}
               /\ job[j].verdict = "CLEAN" =>
                     "CLEAN" \in AllVerdictsOf(j)
                        /\ AllVerdictsOf(j) \cap (Positive \cup {"ERROR"}) = {}
    <2>1. job[j].verdict = Aggregate(AllVerdictsOf(j))
      BY <1>1 DEF VerdictInv, VerdictOf, Judged
    <2> QED
      BY <2>1, AllVerdictsFit, AggregateIs
  <1> QED
    BY <1>1 DEF VerdictInv, VerdictOf, VerdictIsActedOn

\* With nothing skipped and no bad result, every scanner is accounted for.
LEMMA CleanIsEnough ==
  ASSUME TypeInv, VerdictInv, NothingSkippedSilently PROVE CleanIsEarned
  <1>1. ASSUME NEW j \in Jobs, job[j].status = "COMPLETE", job[j].verdict = "CLEAN",
               NEW d \in {j} \cup job[j].derived
        PROVE  /\ VerdictsOf(d) \cap (Positive \cup {"ERROR"}) = {}
               /\ job[d].status \in {"COMPLETE", "QUARANTINED"} =>
                     \A name \in ToSet(job[d].requested) \ Special : Accounted(d, name)
    <2>1. d \in Jobs
      BY JobFits DEF ScanJob
    <2>2. VerdictsOf(d) \subseteq AllVerdictsOf(j)
      BY DEF AllVerdictsOf
    <2>3. VerdictsOf(d) \cap (Positive \cup {"ERROR"}) = {}
      BY <1>1, <2>2, VerdictIsEnough
    <2>4. ASSUME NEW name \in ToSet(job[d].requested) \ Special,
                 job[d].status \in {"COMPLETE", "QUARANTINED"}
          PROVE  Accounted(d, name)
      <3>1. \/ name \in job[d].errors
            \/ \E result \in ToSet(job[d].results) : result.scanner = name
            \/ \E result \in job[d].analyzed : result.name = name
        BY <2>1, <2>4 DEF NothingSkippedSilently
      <3>2. \A result \in ToSet(job[d].results) : result.verdict \in VerdictsOf(d)
        BY DEF VerdictsOf
      <3> QED
        BY <2>3, <3>1, <3>2 DEF Accounted
    <2> QED
      BY <2>3, <2>4
  <1> QED
    BY <1>1, VerdictIsEnough DEF CleanIsEarned

\* The results of a job that has ended, or of one that is past the walk, stay as they are.
LEMMA VerdictsStay ==
  ASSUME TypeInv, NEW j \in Jobs, \A c \in job[j].derived : Parent[c] = j /\ At(c, "done"),
         \A k \in {j} \cup job[j].derived : job'[k].results = job[k].results,
         job'[j].derived = job[j].derived
  PROVE  AllVerdictsOf(j)' = AllVerdictsOf(j)
  <1>1. VerdictsOf(j)' = VerdictsOf(j) /\ \A c \in job[j].derived : VerdictsOf(c)' = VerdictsOf(c)
    BY DEF VerdictsOf
  <1> QED
    BY <1>1 DEF AllVerdictsOf

\* Nothing taken into quarantine leaves it.
LEMMA QuarantineStays ==
  ASSUME TypeInv, CopyInv, NEW j \in Jobs, Step(j), NEW d \in DOMAIN quarantine,
         quarantine[d] # "none"
  PROVE  quarantine'[d] # "none"
  <1>1. CASE Replace(j)
    <2>1. quarantine' = [quarantine EXCEPT ![Digest[j]] = incoming[Digest[j]]]
      BY <1>1 DEF Replace
    <2>2. incoming[Digest[j]] # "none"
      BY <1>1 DEF Replace, At, CopyInv, CopiesFit, Copying
    <2> QED
      BY <2>1, <2>2
  <1>2. CASE OpenIncoming(j) \/ Copy(j)
    BY <1>2 DEF OpenIncoming, Copy
  <1> QED
    BY <1>1, <1>2, FilesStay

LEMMA VerdictStep == ASSUME TypeInv, VerdictInv, NEW j \in Jobs, Step(j) PROVE VerdictInv'
  <1>0. Staged(j, job[j]) /\ job[j].pc \notin {"done", "lost", "dead"}
    BY JobFits, StepIs
  <1>1. ASSUME NEW k \in Jobs PROVE \A c \in job[k].derived : c # j /\ c \in Jobs /\ Parent[c] = k
                                                      /\ job'[c].pc = "done"
                                                      /\ job'[c].results = job[c].results
    <2>1. \A c \in job[k].derived : c \in Jobs /\ Parent[c] = k /\ job[c].pc = "done"
      BY JobFits DEF ScanJob, VerdictInv, VerdictOf, At
    <2> QED
      BY <1>0, <2>1, OthersStay DEF Same
  <1>2. ASSUME NEW k \in Jobs, k # j PROVE VerdictOf(k)'
    <2>1. Same(job'[k], job[k])
      BY <1>2, OthersStay
    <2>2. job[k].status = "QUARANTINED" => quarantine'[Digest[k]] # "none"
      <3>1. Digest[k] \in DOMAIN quarantine
        BY DEF TypeInv, FileTypes
      <3> QED
        BY <3>1, QuarantineStays DEF VerdictInv, VerdictOf
    <2>3. CASE job'[k].derived = job[k].derived
      <3>1. AllVerdictsOf(k)' = AllVerdictsOf(k)
        BY <1>1, <2>1, <2>3, VerdictsStay DEF Same, VerdictInv, VerdictOf
      <3> QED
        BY <1>1, <2>1, <2>2, <2>3, <3>1 DEF VerdictInv, VerdictOf, Judged, Same, At
    <2>4. CASE Finish(j) /\ k = Parent[j] /\ At(k, "container")
               /\ job'[k].derived = job[k].derived \cup {j}
      <3>1. job'[k].pc = "container" /\ job'[k].status = "RUNNING"
        BY <2>1, <2>4, JobFits DEF Same, At, Staged, AtWork, Later
      <3>2. job'[j].pc = "done"
        BY <2>4, FinishedIs
      <3> QED
        BY <1>1, <2>4, <3>1, <3>2 DEF VerdictOf, Judged, Admitting, Turn, At
    <2> QED
      BY <1>2, <2>3, <2>4, OthersStay
  <1>3. VerdictOf(j)'
    <2>1. job'[j].derived = job[j].derived
      BY StepIs
    <2>2. \A c \in job'[j].derived : Parent[c] = j /\ At(c, "done")'
      BY <1>1, <2>1 DEF At
    <2>3. ASSUME ~Scan(j) PROVE AllVerdictsOf(j)' = AllVerdictsOf(j)
      <3>1. job'[j].results = job[j].results
        BY <2>3, StepIs
      <3> QED
        BY <1>1, <2>1, <3>1, VerdictsStay DEF VerdictInv, VerdictOf
    <2>4. Digest[j] \in DOMAIN quarantine /\ DOMAIN incoming = DOMAIN quarantine
      BY DEF TypeInv, FileTypes
    <2> USE DEF Judged, Turn, Admitting
    <2>5. CASE Start(j) \/ StartDerived(j)
      <3>1. job'[j].pc = "loop" /\ job'[j].status = "RUNNING" /\ job[j].derived = {}
        BY <2>5, StartedIs DEF VerdictInv, VerdictOf
      <3> QED
        BY <2>1, <2>2, <3>1 DEF VerdictOf
    <2>6. CASE PassOver(j) \/ Refuse(j) \/ SaveScan(j) \/ Analyze(j) \/ Probe(j) \/ Scan(j)
                  \/ SaveProbe(j) \/ Prepare(j)
      <3>1. job[j].pc \in {"loop"} \cup Turn /\ job[j].status = "RUNNING" /\ job[j].derived = {}
        <4>1. job[j].pc \in {"loop"} \cup Turn
          BY <2>6 DEF PassOver, Refuse, SaveScan, Analyze, Probe, Scan, SaveProbe, Prepare,
               Working, At
        <4> QED
          BY <1>0, <4>1 DEF VerdictInv, VerdictOf, Staged, AtWork
      <3>2. job'[j].pc \in {"loop"} \cup Turn /\ job'[j].status = "RUNNING"
        BY <2>6, <3>1, PassedIs, AnalyzedIs, ProbedIs, ScannedIs, MovedIs
      <3> QED
        BY <2>1, <2>2, <3>1, <3>2 DEF VerdictOf
    <2>7. CASE Raise(j)
      <3>1. job'[j].pc = "finally" /\ job'[j].status = "FAILED"
        BY <2>7, RaisedIs
      <3> QED
        BY <2>2, <3>1 DEF VerdictOf
    <2>8. CASE EndLoop(j)
      <3>1. job[j].pc = "loop" /\ job[j].status = "RUNNING" /\ job[j].derived = {}
        BY <1>0, <2>8 DEF EndLoop, At, VerdictInv, VerdictOf, Staged, AtWork
      <3>2. AllVerdictsOf(j) = VerdictsOf(j)
        BY <3>1 DEF AllVerdictsOf
      <3>3. /\ job'[j].verdict = Aggregate(VerdictsOf(j)) /\ job'[j].pc \in {"container", "verify"}
            /\ job'[j].status = "RUNNING"
        BY <2>8, <3>1, LoopedIs
      <3>4. ~Scan(j)
        BY <3>1 DEF Scan, At
      <3>5. job'[j].verdict = Aggregate(AllVerdictsOf(j)')
        BY <2>3, <3>2, <3>3, <3>4
      <3> QED
        BY <2>2, <3>3, <3>5 DEF VerdictOf
    <2>9. CASE EndContainer(j)
      <3>1. job[j].pc = "container" /\ job[j].status = "RUNNING"
        BY <1>0, <2>9 DEF EndContainer, At, Staged, AtWork, Later
      <3>2. /\ job'[j].verdict = Aggregate(AllVerdictsOf(j)) /\ job'[j].pc = "verify"
            /\ job'[j].status = "RUNNING"
        BY <2>9, <3>1, WalkedIs
      <3>3. ~Scan(j)
        BY <3>1 DEF Scan, At
      <3>4. job'[j].verdict = Aggregate(AllVerdictsOf(j)')
        BY <2>3, <3>2, <3>3
      <3> QED
        BY <2>2, <3>2, <3>4 DEF VerdictOf
    <2>10. CASE job[j].pc \in {"verify"} \cup Admitting /\ ~Raise(j)
      <3>1. ~Scan(j) /\ job[j].status = "RUNNING" /\ job[j].verdict = Aggregate(AllVerdictsOf(j))
        BY <1>0, <2>10 DEF Scan, At, VerdictInv, VerdictOf, Staged, AtWork, Later
      <3>2. /\ job[j].pc = "verify" => Verify(j)
            /\ job[j].pc = "admit" => Look(j)
            /\ job[j].pc = "open" => OpenIncoming(j)
            /\ job[j].pc = "copy" => Copy(j)
            /\ job[j].pc = "replace" => Replace(j)
        BY <1>0, <2>10, RaisingIs
           DEF Step, Start, StartDerived, Staged, PassOver, Analyze, Refuse, Probe, SaveProbe,
               Prepare, Scan, SaveScan, EndLoop, EndContainer, Verify, Look, OpenIncoming, Copy,
               Replace, Finish, FinishRaises, Working, At
      <3>3. AllVerdictsOf(j)' = AllVerdictsOf(j)
        BY <2>3, <3>1
      <3>4. CASE Verify(j)
        BY <2>2, <2>10, <3>1, <3>3, <3>4, VerifiedIs DEF VerdictOf, Kept
      <3>5. CASE Look(j)
        <4>1. job[j].verdict \in Positive /\ quarantine' = quarantine
          BY <3>5 DEF Look, At, files, VerdictInv, VerdictOf
        <4> QED
          BY <2>2, <3>1, <3>3, <3>5, <4>1, MovedIs DEF VerdictOf, Kept
      <3>6. CASE OpenIncoming(j) \/ Copy(j)
        <4>1. job[j].verdict \in Positive
          BY <3>6 DEF OpenIncoming, Copy, At, VerdictInv, VerdictOf
        <4> QED
          BY <2>2, <2>10, <3>1, <3>3, <3>6, <4>1, MovedIs DEF VerdictOf, Kept
      <3>7. CASE Replace(j)
        <4>1. job[j].verdict \in Positive /\ incoming[Digest[j]] # "none"
          BY <3>7 DEF Replace, At, VerdictInv, VerdictOf, CopyInv, CopiesFit, Copying
        <4>2. quarantine'[Digest[j]] # "none"
          BY <2>4, <3>7, <4>1 DEF Replace
        <4> QED
          BY <2>2, <3>1, <3>3, <3>7, <4>1, <4>2, MovedIs DEF VerdictOf, Kept
      <3> QED
        BY <2>10, <3>2, <3>4, <3>5, <3>6, <3>7
    <2>11. CASE Finish(j) \/ FinishRaises(j)
      <3>1. /\ job[j].pc = "finally" /\ ~Scan(j) /\ quarantine' = quarantine
            /\ Kept(j) /\ job'[j].pc \in {"done", "lost"} /\ job'[j].status = job[j].status
        BY <2>11, FinishedIs, MovedIs DEF Finish, FinishRaises, Scan, At
      <3> QED
        BY <2>2, <2>3, <3>1 DEF VerdictInv, VerdictOf, Kept
    <2>12. \/ Start(j) \/ StartDerived(j) \/ Raise(j) \/ EndLoop(j) \/ EndContainer(j)
           \/ PassOver(j) \/ Refuse(j) \/ SaveScan(j) \/ Analyze(j) \/ Probe(j) \/ Scan(j)
           \/ SaveProbe(j) \/ Prepare(j) \/ job[j].pc \in {"verify"} \cup Admitting
           \/ Finish(j) \/ FinishRaises(j)
      BY RaisingIs DEF Step, Verify, Look, OpenIncoming, Copy, Replace, At
    <2> QED
      BY <2>5, <2>6, <2>7, <2>8, <2>9, <2>10, <2>11, <2>12
  <1>4. CopyInv'
    BY CopyStep DEF VerdictInv
  <1> QED
    BY <1>2, <1>3, <1>4 DEF VerdictInv

LEMMA VerdictInit == ASSUME Init PROVE VerdictInv
  <1>1. \A j \in Jobs : /\ job[j].pc = "idle" /\ job[j].status \in {"CREATED", "QUEUED"}
                        /\ job[j].derived = {}
    BY DEF Init
  <1> QED
    BY <1>1, CopyInit DEF VerdictInv, VerdictOf, Judged, Admitting

LEMMA VerdictNext == ASSUME TypeInv, VerdictInv, [Next]_vars PROVE VerdictInv'
  <1>1. CopyInv'
    BY CopyNext DEF VerdictInv
  <1>2. CASE job' = job /\ quarantine' = quarantine
    <2>1. \A j \in Jobs : VerdictOf(j)'
      BY <1>2 DEF VerdictInv, VerdictOf, Judged, AllVerdictsOf, VerdictsOf, At
    <2> QED
      BY <1>1, <2>1 DEF VerdictInv
  <1>3. CASE Crash
    <2>1. \A j \in Jobs : /\ Kept(j) /\ job'[j].status = job[j].status /\ job'[j].pc \in Resting
                          /\ job[j].pc \in Resting => job'[j].pc = job[j].pc
                          /\ job'[j].pc = "idle" => job[j].pc = "idle"
      BY <1>3, CrashedIs DEF Resting
    <2>2. \A j \in Jobs : job[j].derived \subseteq Jobs
      BY JobFits DEF ScanJob
    <2>3. ASSUME NEW j \in Jobs PROVE VerdictOf(j)'
      <3>1. \A c \in job[j].derived : Parent[c] = j /\ At(c, "done") /\ At(c, "done")'
        BY <2>1, <2>2 DEF VerdictInv, VerdictOf, At, Resting
      <3>2. AllVerdictsOf(j)' = AllVerdictsOf(j)
        BY <2>1, <2>2, <3>1, VerdictsStay DEF Kept
      <3> QED
        BY <1>3, <2>1, <3>1, <3>2
           DEF Crash, files, VerdictInv, VerdictOf, Judged, Admitting, Resting, Turn, Kept
    <2> QED
      BY <1>1, <2>3 DEF VerdictInv
  <1>4. Crash \/ (job' = job /\ quarantine' = quarantine) \/ \E j \in Jobs : Step(j)
    BY DEF Next, Rewrite, AllDone, vars, files
  <1> QED
    BY <1>2, <1>3, <1>4, VerdictStep

\* A job that ends COMPLETE has no positive result, of its own or of a derived object, and one that
\* ends QUARANTINED has one and its bytes are in quarantine; however many derived objects the walk
\* executed in between (scanning.py: execute_queued() from the verdict to admit()).
THEOREM VerdictIsAlwaysActedOn == Spec => []VerdictIsActedOn
  <1>1. TypeInv /\ VerdictInv => VerdictIsActedOn
    BY VerdictIsEnough
  <1> QED
    BY InitTypeInv, NextTypeInv, VerdictInit, VerdictNext, <1>1, PTL DEF Spec

\* A finished job is CLEAN only if a scanner said so, no result of it or of a derived object is an
\* error or positive, and every scanner asked for is accounted for, by it and by each derived job
\* that did not fail (scanning.py: the loop, aggregate_verdict() and the walk).
THEOREM CleanIsAlwaysEarned == Spec => []CleanIsEarned
  <1>1. TypeInv /\ VerdictInv /\ NothingSkippedSilently => CleanIsEarned
    BY CleanIsEnough
  <1> QED
    BY InitTypeInv, NextTypeInv, VerdictInit, VerdictNext, NothingIsSkippedSilently, <1>1, PTL
       DEF Spec
=============================================================================
