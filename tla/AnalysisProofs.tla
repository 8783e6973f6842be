--------------------------- MODULE AnalysisProofs ---------------------------
(***************************************************************************)
(* Theorems about the pure modules of a job's last steps: a scanner's      *)
(* process of whatever kind is judged conservatively, and the correlation  *)
(* of a job with any number of objects keeps its budgets.                  *)
(***************************************************************************)
EXTENDS AnalyzedInputs, PartitionProofs, MediaProofs, CompoundProofs

(***************************************************************************)
(* The verdict on a process.                                               *)
(***************************************************************************)

LEMMA NativeIs ==
  ASSUME NEW scanner \in FileScanners \cup SystemScanners, NEW process \in Processes,
         NEW setting \in BOOLEAN, NEW native, native = Run(process, UsesBwrap(scanner, setting))
  PROVE  /\ native.timedOut <=> process.late
         /\ ~process.late => native.exit = process.exit
         /\ native.stdout = process.stdout /\ Text(native) = process.stdout \cup process.stderr
         /\ native.isolationFailed <=> ~process.late /\ Unisolated(scanner, process, setting)
         /\ scanner \in SystemScanners => ~Unisolated(scanner, process, setting)
  BY DEF Run, Text, Processes, UsesBwrap, Unisolated, FileScanners, SystemScanners

LEMMA EveryProcessJudged ==
  ASSUME NEW scanner \in FileScanners \cup SystemScanners, NEW process \in Processes,
         NEW setting \in BOOLEAN
  PROVE  /\ process.late \/ process.exit \notin {0, 1} \/ Unisolated(scanner, process, setting)
               => Verdict(scanner, process, setting) = "ERROR"
         /\ Verdict(scanner, process, setting) = "CLEAN" => Silent(scanner, process)
  <1>1. PICK native : native = Run(process, UsesBwrap(scanner, setting))
    OBVIOUS
  <1>2. /\ native.timedOut <=> process.late
        /\ ~process.late => native.exit = process.exit
        /\ native.stdout = process.stdout /\ Text(native) = process.stdout \cup process.stderr
        /\ native.isolationFailed <=> ~process.late /\ Unisolated(scanner, process, setting)
        /\ scanner \in SystemScanners => ~Unisolated(scanner, process, setting)
    BY <1>1, NativeIs
  <1>3. Verdict(scanner, process, setting) = Normalize(scanner, native)
    BY <1>1 DEF Verdict
  <1>4. CASE scanner = "clamav"
    BY <1>2, <1>3, <1>4 DEF Normalize, NormalizeClamAV, FileScanners, SystemScanners, Silent
  <1>5. CASE scanner \in {"yara", "yara-x"}
    <2>1. Normalize(scanner, native) = IF native.isolationFailed THEN "ERROR" ELSE NormalizeYara(native)
      <3>1. scanner \in FileScanners
        BY <1>5 DEF FileScanners
      <3> QED
        BY ONLY <1>5, <3>1 DEF Normalize, SystemScanners
    <2>2. Silent(scanner, process) <=> process.stdout \subseteq {"blank"}
      BY <1>5 DEF Silent
    <2> QED
      BY <1>2, <1>3, <2>1, <2>2 DEF NormalizeYara, Ran
  <1>6. CASE scanner = "loki"
    <2>1. Normalize(scanner, native) = IF native.isolationFailed THEN "ERROR" ELSE NormalizeLoki(native)
      <3>1. scanner \in FileScanners
        BY <1>6 DEF FileScanners
      <3> QED
        BY ONLY <1>6, <3>1 DEF Normalize, SystemScanners
    <2>2. Silent(scanner, process) <=> 
             (process.stdout \cup process.stderr) \cap {"ALERT", "WARNING"} = {}
      BY <1>6 DEF Silent
    <2> QED
      BY <1>2, <1>3, <2>1, <2>2 DEF NormalizeLoki, Ran
  <1>7. CASE scanner = "maldet"
    <2>1. Normalize(scanner, native) = IF native.isolationFailed THEN "ERROR" ELSE NormalizeMaldet(native)
      <3>1. scanner \in FileScanners
        BY <1>7 DEF FileScanners
      <3> QED
        BY ONLY <1>7, <3>1 DEF Normalize, SystemScanners
    <2>2. Silent(scanner, process) <=> "hits" \notin process.stdout \cup process.stderr
      BY <1>7 DEF Silent
    <2> QED
      BY <1>2, <1>3, <2>1, <2>2 DEF NormalizeMaldet, Ran
  <1>8. CASE scanner \in SystemScanners
    <2>1. Verdict(scanner, process, setting) = NormalizeRootkit(native)
      BY <1>3, <1>8 DEF Normalize, FileScanners, SystemScanners
    <2>2. Silent(scanner, process) <=>
             process.stdout \cup process.stderr \subseteq {"blank"} /\ process.exit = 0
      BY <1>8 DEF Silent, SystemScanners
    <2> QED
      BY <1>2, <1>8, <2>1, <2>2 DEF NormalizeRootkit, Ran
  <1> QED
    BY <1>4, <1>5, <1>6, <1>7, <1>8 DEF FileScanners

\* "Isolation failure can never be a detection or clean" (tests/test_m1_adapters.py:129), nor can a
\* killed or failed process be, and no scanner's sign of a detection ends CLEAN: for every scanner,
\* either setting of use_bubblewrap, and every process, with any exit code and any lines on its
\* streams (adapters.py:166-376, command.py:86-114).
THEOREM EveryVerdictIsConservative ==
  ASSUME NEW scanner \in FileScanners \cup SystemScanners, NEW process \in Processes,
         NEW setting \in BOOLEAN
  PROVE  NormalizationIsConservative(scanner, process, setting)
  <1>1. process.late => Verdict(scanner, process, FALSE) = "ERROR"
    BY EveryProcessJudged
  <1>2. SystemRow(scanner, process) = "QUALIFIED" => ~process.late
    BY <1>1 DEF SystemRow
  <1> QED
    BY <1>2, EveryProcessJudged DEF NormalizationIsConservative

(***************************************************************************)
(* The correlation of a job with any number of objects.  Ids names them.   *)
(***************************************************************************)

Requests(Ids) == [object : Ids, at : Nat, ssdeep : BOOLEAN]
Gotten ==
    {Skipped(reason) : reason \in OwnReasons} \cup {Correlate(reply) : reply \in AnyReply}
Runs(Ids) ==
    [clock : Nat, similar : Nat, requests : Seq(Requests(Ids)), contexts : Seq(Gotten)]

\* What one object does to a run: it is skipped and leaves all but the contexts alone, or asked for.
SkipsOne(run, next) ==
    /\ Len(run.contexts) >= MaxObjects \/ ~InTime(run)
    /\ next.clock = run.clock /\ next.similar = run.similar /\ next.requests = run.requests
    /\ \E reason \in OwnReasons : next.contexts = Append(run.contexts, Skipped(reason))
AsksOne(run, object, next) ==
    /\ Len(run.contexts) < MaxObjects /\ InTime(run)
    /\ next.clock = run.clock + object.duration
    /\ next.similar = IF Similar(object, run) THEN run.similar + 1 ELSE run.similar
    /\ next.requests = Append(run.requests, [object |-> object.id, at |-> run.clock,
                                             ssdeep |-> Similar(object, run)])
    /\ next.contexts = Append(run.contexts, Correlate(object.reply))

LEMMA OneObject ==
  ASSUME NEW Ids, NEW run \in Runs(Ids), NEW object \in JobObjects(Ids),
         NEW next, next = ProcessOne(run, object)
  PROVE  /\ next \in Runs(Ids)
         /\ SkipsOne(run, next) \/ AsksOne(run, object, next)
  <1> USE CorrelationAssumption
  <1>1. /\ run.clock \in Nat /\ run.similar \in Nat /\ run.requests \in Seq(Requests(Ids))
        /\ run.contexts \in Seq(Gotten) /\ Len(run.contexts) \in Nat
    BY DEF Runs
  <1>2. object.id \in Ids /\ object.duration \in Nat /\ object.reply \in AnyReply
        /\ object.ssdeep \in BOOLEAN
    BY DEF JobObjects
  <1>3. ASSUME NEW reason \in OwnReasons, NEW more, more = Append(run.contexts, Skipped(reason)),
               next = [run EXCEPT !.contexts = more],
               Len(run.contexts) >= MaxObjects \/ ~InTime(run)
        PROVE  next \in Runs(Ids) /\ SkipsOne(run, next)
    <2>1. more \in Seq(Gotten)
      <3>1. PICK c : c = Skipped(reason) /\ c \in Gotten
        BY DEF Gotten
      <3> QED
        BY <1>1, <1>3, <3>1
    <2>2. next \in Runs(Ids)
      BY <1>3, <2>1 DEF Runs
    <2>3. /\ next.clock = run.clock /\ next.similar = run.similar /\ next.requests = run.requests
          /\ next.contexts = more
      BY <1>3 DEF Runs
    <2> QED
      BY <1>3, <2>2, <2>3 DEF SkipsOne
  <1>4. CASE Len(run.contexts) >= MaxObjects
    <2>1. next = [run EXCEPT !.contexts = Append(run.contexts, Skipped("max_correlated_objects"))]
      BY <1>4 DEF ProcessOne
    <2> QED
      BY <1>3, <1>4, <2>1 DEF OwnReasons
  <1>5. CASE Len(run.contexts) < MaxObjects /\ ~InTime(run)
    <2>1. next =
             [run EXCEPT !.contexts = Append(run.contexts, Skipped("total_correlation_deadline"))]
      BY <1>1, <1>5 DEF ProcessOne
    <2> QED
      BY <1>3, <1>5, <2>1 DEF OwnReasons
  <1>6. CASE Len(run.contexts) < MaxObjects /\ InTime(run)
    <2> DEFINE request == [object |-> object.id, at |-> run.clock, ssdeep |-> Similar(object, run)]
               similar == IF Similar(object, run) THEN run.similar + 1 ELSE run.similar
    <2>1. next = [clock |-> run.clock + object.duration, similar |-> similar,
                  requests |-> Append(run.requests, request),
                  contexts |-> Append(run.contexts, Correlate(object.reply))]
      BY <1>1, <1>6 DEF ProcessOne
    <2>2. AsksOne(run, object, next)
      BY <1>6, <2>1 DEF AsksOne
    <2>3. Append(run.requests, request) \in Seq(Requests(Ids))
      <3>1. request \in Requests(Ids)
        BY <1>1, <1>2 DEF Requests, Similar
      <3> HIDE DEF request
      <3> QED
        BY <1>1, <3>1
    <2>4. Append(run.contexts, Correlate(object.reply)) \in Seq(Gotten)
      <3>1. PICK c : c = Correlate(object.reply) /\ c \in Gotten
        BY <1>2 DEF Gotten
      <3> QED
        BY <1>1, <3>1
    <2>5. similar \in Nat /\ run.clock + object.duration \in Nat
      BY <1>1, <1>2
    <2> HIDE DEF similar, request
    <2> QED
      BY <2>1, <2>2, <2>3, <2>4, <2>5 DEF Runs
  <1> QED
    BY <1>1, <1>4, <1>5, <1>6

(***************************************************************************)
(* The three folds exist, and go through their objects one by one.         *)
(***************************************************************************)

\* A run goes object by object.
RunsThrough(objects, eligible, n, runs) ==
    /\ runs[0] = Start /\ Process(objects) = runs[n]
    /\ \A k \in 1 .. n : runs[k] = ProcessOne(runs[k - 1], eligible[k])

LEMMA ProcessIs ==
  ASSUME NEW Ids, NEW objects, NEW eligible \in Seq(JobObjects(Ids)), eligible = Eligible(objects),
         NEW n \in Nat, n = Len(eligible)
  PROVE  \E runs : RunsThrough(objects, eligible, n, runs)
  <1> DEFINE step == [pair \in Runs(Ids) \X (1 .. n) |-> ProcessOne(pair[1], eligible[pair[2]])]
             fold == CHOOSE f : f = [s \in SUBSET (1 .. n) |->
                        IF s = {} THEN Start
                        ELSE ProcessOne(f[s \ {Highest(s)}], eligible[Highest(s)])]
  <1>1. Process(objects) = fold[1 .. n]
    <2>1. DOMAIN eligible = 1 .. n
      OBVIOUS
    <2> QED
      BY <2>1 DEF Process, FoldLeft, MapThenFoldSet, Max, Highest
  <1>2. step \in [Runs(Ids) \X (1 .. n) -> Runs(Ids)]
    BY OneObject
  <1>3. Start \in Runs(Ids)
    BY DEF Start, Runs
  <1>4. PICK some : Folds(Runs(Ids), Start, step, n, some)
    BY <1>2, <1>3, FoldExists
  <1>5. some = [s \in SUBSET (1 .. n) |->
                  IF s = {} THEN Start
                  ELSE ProcessOne(some[s \ {Highest(s)}], eligible[Highest(s)])]
    <2>1. ASSUME NEW s \in SUBSET (1 .. n), s # {}
          PROVE  some[s] = ProcessOne(some[s \ {Highest(s)}], eligible[Highest(s)])
      <3>1. Highest(s) \in s
        BY <2>1, HighestIsOne
      <3>2. some[s] = step[some[s \ {Highest(s)}], Highest(s)]
        BY <1>4, <2>1 DEF Folds, FoldAt
      <3>3. some[s \ {Highest(s)}] \in Runs(Ids) /\ Highest(s) \in 1 .. n
        BY <1>4, <3>1 DEF Folds
      <3> QED
        BY <3>2, <3>3
    <2>2. some[{}] = Start
      BY <1>4 DEF Folds, FoldAt
    <2> QED
      BY <1>4, <2>1, <2>2 DEF Folds
  <1>6. fold = [s \in SUBSET (1 .. n) |->
                  IF s = {} THEN Start
                  ELSE ProcessOne(fold[s \ {Highest(s)}], eligible[Highest(s)])]
    BY <1>5
  <1> HIDE DEF fold
  <1> DEFINE runs == [k \in 0 .. n |-> fold[1 .. k]]
  <1>7. runs[0] = Start
    <2>1. 1 .. 0 = {} /\ {} \in SUBSET (1 .. n)
      OBVIOUS
    <2> QED
      BY <1>6, <2>1
  <1>8. ASSUME NEW k \in 1 .. n PROVE runs[k] = ProcessOne(runs[k - 1], eligible[k])
    <2>1. /\ 1 .. k \in SUBSET (1 .. n) /\ 1 .. k # {} /\ Highest(1 .. k) = k
          /\ (1 .. k) \ {k} = 1 .. (k - 1)
      BY UpTo
    <2>2. fold[1 .. k] = ProcessOne(fold[1 .. (k - 1)], eligible[k])
      BY <1>6, <2>1
    <2> QED
      BY <2>2
  <1>9. runs[n] = fold[1 .. n]
    OBVIOUS
  <1> HIDE DEF runs, fold, step
  <1> QED
    BY ONLY <1>1, <1>7, <1>8, <1>9 DEF RunsThrough

(***************************************************************************)
(* What holds of a run after k objects.                                    *)
(***************************************************************************)

Fingerprinted(run) == {i \in DOMAIN run.requests : run.requests[i].ssdeep}

Budgeted(run) ==
    /\ Len(run.requests) <= MaxObjects
    /\ Len(run.requests) < Len(run.contexts) => Len(run.contexts) > MaxObjects \/ ~InTime(run)
    /\ \A i \in DOMAIN run.requests : run.requests[i].at < TotalDeadline
    /\ IsFiniteSet(Fingerprinted(run)) /\ Cardinality(Fingerprinted(run)) = run.similar
    /\ run.similar <= MaxSimilarityQueries

Answered(run, k, eligible) ==
    /\ Len(run.contexts) = k /\ Len(run.requests) <= k
    /\ \A i \in DOMAIN run.requests : /\ run.requests[i].object = eligible[i].id
                                      /\ run.contexts[i] = Correlate(eligible[i].reply)
    /\ \A i \in DOMAIN run.contexts :
          i > Len(run.requests) => \E reason \in OwnReasons : run.contexts[i] = Skipped(reason)

LEMMA BudgetedAfterOne ==
  ASSUME NEW Ids, NEW run \in Runs(Ids), NEW object \in JobObjects(Ids),
         NEW next, next \in Runs(Ids), SkipsOne(run, next) \/ AsksOne(run, object, next),
         Len(run.requests) <= Len(run.contexts), Budgeted(run)
  PROVE  Budgeted(next)
  <1> USE CorrelationAssumption
  <1>1. PICK m \in Nat, k \in Nat : m = Len(run.requests) /\ k = Len(run.contexts)
    BY DEF Runs
  <1>2. /\ run.requests \in Seq(Requests(Ids)) /\ run.contexts \in Seq(Gotten)
        /\ next.requests \in Seq(Requests(Ids)) /\ next.contexts \in Seq(Gotten)
        /\ run.clock \in Nat /\ run.similar \in Nat
    BY DEF Runs
  <1>3. ASSUME SkipsOne(run, next) PROVE Budgeted(next)
    <2>1. Len(next.contexts) = k + 1
      BY <1>1, <1>2, <1>3 DEF SkipsOne
    <2>2. next.requests = run.requests /\ next.clock = run.clock /\ next.similar = run.similar
      BY <1>3 DEF SkipsOne
    <2>3. Len(next.contexts) > MaxObjects \/ ~InTime(next)
      BY <1>1, <1>3, <2>1, <2>2 DEF SkipsOne, InTime
    <2> QED
      BY <2>2, <2>3 DEF Budgeted, Fingerprinted
  <1>4. ASSUME AsksOne(run, object, next) PROVE Budgeted(next)
    <2>1. m = k /\ k < MaxObjects /\ run.clock < TotalDeadline
      BY <1>1, <1>4 DEF AsksOne, Budgeted, InTime
    <2>2. PICK request : /\ next.requests = Append(run.requests, request)
                         /\ request.at = run.clock
                         /\ request.ssdeep <=> Similar(object, run)
      BY <1>4 DEF AsksOne
    <2>3. /\ Len(next.requests) = m + 1 /\ next.requests[m + 1] = request
          /\ \A i \in 1 .. m : next.requests[i] = run.requests[i]
          /\ DOMAIN run.requests = 1 .. m /\ DOMAIN next.requests = 1 .. m + 1
      BY <1>1, <1>2, <2>2
    <2>4. Len(next.contexts) = k + 1
      BY <1>1, <1>2, <1>4 DEF AsksOne
    <2>5. \A i \in DOMAIN next.requests : next.requests[i].at < TotalDeadline
      BY <2>1, <2>2, <2>3 DEF Budgeted
    <2>6. IsFiniteSet(Fingerprinted(next)) /\ Cardinality(Fingerprinted(next)) = next.similar
      <3>1. IsFiniteSet(Fingerprinted(run)) /\ Cardinality(Fingerprinted(run)) = run.similar
        BY DEF Budgeted
      <3>2. m + 1 \notin Fingerprinted(run)
        BY <2>3 DEF Fingerprinted
      <3>3. CASE Similar(object, run)
        <4>1. Fingerprinted(next) = Fingerprinted(run) \cup {m + 1}
          BY <2>2, <2>3, <3>3 DEF Fingerprinted
        <4>2. next.similar = run.similar + 1
          BY <1>4, <3>3 DEF AsksOne
        <4> QED
          BY <3>1, <3>2, <4>1, <4>2, FS_AddElement
      <3>4. CASE ~Similar(object, run)
        <4>1. Fingerprinted(next) = Fingerprinted(run)
          BY <2>2, <2>3, <3>4 DEF Fingerprinted
        <4>2. next.similar = run.similar
          BY <1>4, <3>4 DEF AsksOne
        <4> QED
          BY <3>1, <4>1, <4>2
      <3> QED
        BY <3>3, <3>4
    <2>7. next.similar <= MaxSimilarityQueries
      BY <1>2, <1>4 DEF AsksOne, Similar, Budgeted
    <2> QED
      BY <2>1, <2>3, <2>4, <2>5, <2>6, <2>7 DEF Budgeted
  <1> QED
    BY <1>3, <1>4

LEMMA AnsweredAfterOne ==
  ASSUME NEW Ids, NEW run \in Runs(Ids), NEW next \in Runs(Ids),
         NEW eligible \in Seq(JobObjects(Ids)), NEW k \in 1 .. Len(eligible),
         SkipsOne(run, next) \/ AsksOne(run, eligible[k], next),
         Budgeted(run), Answered(run, k - 1, eligible)
  PROVE  Answered(next, k, eligible)
  <1> USE CorrelationAssumption
  <1>1. PICK m \in Nat, l \in Nat : m = Len(run.requests) /\ l = Len(run.contexts)
    BY DEF Runs
  <1>2. /\ run.requests \in Seq(Requests(Ids)) /\ run.contexts \in Seq(Gotten)
        /\ l + 1 = k /\ m <= l
    BY <1>1 DEF Runs, Answered
  <1>3. ASSUME NEW c, next.contexts = Append(run.contexts, c)
        PROVE  /\ Len(next.contexts) = k /\ next.contexts[k] = c /\ DOMAIN next.contexts = 1 .. k
               /\ DOMAIN run.contexts = 1 .. l
               /\ \A i \in 1 .. l : next.contexts[i] = run.contexts[i]
    BY <1>1, <1>2, <1>3
  <1>4. ASSUME SkipsOne(run, next) PROVE Answered(next, k, eligible)
    <2>1. PICK reason \in OwnReasons : next.contexts = Append(run.contexts, Skipped(reason))
      BY <1>4 DEF SkipsOne
    <2>2. next.requests = run.requests /\ DOMAIN run.requests = 1 .. m
      BY <1>1, <1>2, <1>4 DEF SkipsOne
    <2>3. \A i \in DOMAIN next.requests : /\ next.requests[i].object = eligible[i].id
                                          /\ next.contexts[i] = Correlate(eligible[i].reply)
      BY <1>2, <1>3, <2>1, <2>2 DEF Answered
    <2>4. ASSUME NEW i \in DOMAIN next.contexts, i > Len(next.requests)
          PROVE  \E r \in OwnReasons : next.contexts[i] = Skipped(r)
      <3>1. CASE i = k
        BY <1>3, <2>1, <3>1
      <3>2. CASE i # k
        <4>1. i \in 1 .. l /\ next.contexts[i] = run.contexts[i] /\ i \in DOMAIN run.contexts
          BY <1>2, <1>3, <2>1, <2>4, <3>2
        <4> QED
          BY <2>2, <2>4, <4>1 DEF Answered
      <3> QED
        BY <3>1, <3>2
    <2>5. Len(next.contexts) = k /\ Len(next.requests) <= k
      BY <1>1, <1>2, <1>3, <2>1, <2>2
    <2> QED
      BY ONLY <2>3, <2>4, <2>5 DEF Answered
  <1>5. ASSUME AsksOne(run, eligible[k], next) PROVE Answered(next, k, eligible)
    <2>1. m = l
      BY <1>1, <1>2, <1>5 DEF AsksOne, Budgeted
    <2>2. PICK request : /\ next.requests = Append(run.requests, request)
                         /\ request.object = eligible[k].id
      <3>1. PICK request : /\ next.requests = Append(run.requests, request)
                           /\ request = [object |-> eligible[k].id, at |-> run.clock,
                                         ssdeep |-> Similar(eligible[k], run)]
        BY ONLY <1>5 DEF AsksOne
      <3> QED
        BY ONLY <3>1
    <2>3. /\ Len(next.requests) = k /\ next.requests[k] = request
          /\ \A i \in 1 .. l : next.requests[i] = run.requests[i]
          /\ DOMAIN run.requests = 1 .. l /\ DOMAIN next.requests = 1 .. k
      <3>1. Len(run.requests) = l
        BY <1>1, <2>1
      <3>2. /\ Len(next.requests) = l + 1 /\ next.requests[l + 1] = request
            /\ \A i \in 1 .. l : next.requests[i] = run.requests[i]
            /\ DOMAIN run.requests = 1 .. l /\ DOMAIN next.requests = 1 .. l + 1
        BY ONLY <1>2, <2>2, <3>1, l \in Nat
      <3> QED
        BY <1>2, <3>2
    <2>4. next.contexts = Append(run.contexts, Correlate(eligible[k].reply))
      BY <1>5 DEF AsksOne
    <2>5. /\ Len(next.contexts) = k /\ next.contexts[k] = Correlate(eligible[k].reply)
          /\ DOMAIN next.contexts = 1 .. k
          /\ \A i \in 1 .. l : next.contexts[i] = run.contexts[i]
      BY <1>3, <2>4
    <2>6. ASSUME NEW i \in DOMAIN next.requests
          PROVE  /\ next.requests[i].object = eligible[i].id
                 /\ next.contexts[i] = Correlate(eligible[i].reply)
      <3>1. CASE i = k
        BY <2>2, <2>3, <2>5, <3>1
      <3>2. CASE i # k
        <4>1. i \in 1 .. l
          BY <1>2, <2>3, <3>2
        <4> QED
          BY <2>3, <2>5, <4>1 DEF Answered
      <3> QED
        BY <3>1, <3>2
    <2> QED
      BY <2>3, <2>5, <2>6 DEF Answered
  <1> QED
    BY <1>4, <1>5

\* A run through all the eligible objects.
LEMMA ProcessKeeps ==
  ASSUME NEW Ids, NEW objects, Eligible(objects) \in Seq(JobObjects(Ids))
  PROVE  /\ Process(objects) \in Runs(Ids) /\ Budgeted(Process(objects))
         /\ Answered(Process(objects), Len(Eligible(objects)), Eligible(objects))
  <1>1. PICK eligible \in Seq(JobObjects(Ids)) : eligible = Eligible(objects)
    OBVIOUS
  <1>2. PICK n \in Nat : n = Len(eligible)
    OBVIOUS
  <1>3. PICK runs : /\ runs[0] = Start /\ Process(objects) = runs[n]
                    /\ \A k \in 1 .. n : runs[k] = ProcessOne(runs[k - 1], eligible[k])
    <2>1. eligible \in Seq(JobObjects(Ids)) /\ eligible = Eligible(objects)
      BY <1>1
    <2>2. n \in Nat /\ n = Len(eligible)
      BY <1>2
    <2>3. PICK runs : RunsThrough(objects, eligible, n, runs)
      BY ONLY <2>1, <2>2, ProcessIs
    <2> QED
      BY ONLY <2>3 DEF RunsThrough
  <1> DEFINE Good(k) == runs[k] \in Runs(Ids) /\ Budgeted(runs[k]) /\ Answered(runs[k], k, eligible)
             S == {k \in Nat : Good(k)}
  <1>4. Good(0)
    <2>1. Start \in Runs(Ids) /\ Len(Start.requests) = 0 /\ Len(Start.contexts) = 0
          /\ DOMAIN Start.requests = {} /\ DOMAIN Start.contexts = {} /\ Start.similar = 0
      BY DEF Start, Runs
    <2>2. Fingerprinted(Start) = {}
      BY <2>1 DEF Fingerprinted
    <2>3. IsFiniteSet(Fingerprinted(Start)) /\ Cardinality(Fingerprinted(Start)) = 0
      BY <2>2, FS_EmptySet
    <2>4. Budgeted(Start)
      BY <2>1, <2>3, CorrelationAssumption DEF Budgeted
    <2>5. Answered(Start, 0, eligible)
      BY <2>1 DEF Answered
    <2> QED
      BY <1>3, <2>1, <2>4, <2>5
  <1>5. ASSUME NEW k \in 1 .. n, k - 1 \in S PROVE k \in S
    <2>1. PICK run, next, object : run = runs[k - 1] /\ next = runs[k] /\ object = eligible[k]
      OBVIOUS
    <2>2. /\ run \in Runs(Ids) /\ Budgeted(run) /\ Answered(run, k - 1, eligible)
          /\ object \in JobObjects(Ids) /\ next = ProcessOne(run, object) /\ k \in 1 .. Len(eligible)
      BY <1>2, <1>3, <1>5, <2>1
    <2>3. next \in Runs(Ids) /\ (SkipsOne(run, next) \/ AsksOne(run, object, next))
      BY <2>2, OneObject
    <2>4. Len(run.requests) <= Len(run.contexts)
      BY <2>2 DEF Answered
    <2>5. Budgeted(next)
      BY <2>2, <2>3, <2>4, BudgetedAfterOne
    <2>6. Answered(next, k, eligible)
      BY <2>1, <2>2, <2>3, AnsweredAfterOne
    <2>7. k \in Nat
      OBVIOUS
    <2> QED
      BY <2>1, <2>3, <2>5, <2>6, <2>7
  <1>6. 0 \in S /\ S \in SUBSET Nat
    BY <1>4
  <1> HIDE DEF S
  <1>7. n \in S
    BY <1>5, <1>6, InductionUpTo
  <1> QED
    BY <1>1, <1>2, <1>3, <1>7 DEF S

(***************************************************************************)
(* The objects that are asked for, and the jobs of the derived ones.       *)
(***************************************************************************)

LEMMA EligibleIs ==
  ASSUME NEW Ids, NEW objects \in Seq(JobObjects(Ids)), objects # <<>>
  PROVE  Eligible(objects) \in Seq(JobObjects(Ids)) /\ Len(Eligible(objects)) <= Len(objects)
  <1> DEFINE Kept == Seq(JobObjects(Ids))
  <1>1. PICK rest : rest \in Kept /\ rest = Tail(objects) /\ Len(rest) + 1 = Len(objects)
    <2>1. Tail(objects) \in Kept /\ Len(Tail(objects)) + 1 = Len(objects)
      OBVIOUS
    <2> QED
      BY ONLY <2>1
  <1>2. PICK n \in Nat : n = Len(rest)
    <2>1. Len(rest) \in Nat
      BY <1>1
    <2> QED
      BY ONLY <2>1
  <1> DEFINE base == <<Head(objects)>>
  <1>3. base \in Kept /\ Len(base) = 1
    OBVIOUS
  <1> DEFINE step == [pair \in Kept \X (1 .. n) |-> AddHashed(pair[1], rest[pair[2]])]
             fold == CHOOSE f : f = [s \in SUBSET (1 .. n) |->
                        IF s = {} THEN base
                        ELSE AddHashed(f[s \ {Highest(s)}], rest[Highest(s)])]
  <1>4. Eligible(objects) = fold[1 .. n]
    <2>1. DOMAIN rest = 1 .. n
      BY <1>1, <1>2
    <2>2. Tail(objects) = rest
      BY ONLY <1>1
    <2> QED
      BY ONLY ZenonT(30), <2>1, <2>2 DEF Eligible, FoldLeft, MapThenFoldSet, Max, Highest
  <1> HIDE DEF base
  <1>5. step \in [Kept \X (1 .. n) -> Kept]
    <2>1. ASSUME NEW kept \in Kept, NEW object \in JobObjects(Ids)
          PROVE  AddHashed(kept, object) \in Kept
      BY DEF AddHashed
    <2>2. \A k \in 1 .. n : rest[k] \in JobObjects(Ids)
      BY <1>1, <1>2
    <2> QED
      BY <2>1, <2>2
  <1>6. base \in Kept
    BY <1>3
  <1>7. PICK some : Folds(Kept, base, step, n, some)
    BY <1>5, <1>6, FoldExists
  <1>8. some = [s \in SUBSET (1 .. n) |->
                  IF s = {} THEN base
                  ELSE AddHashed(some[s \ {Highest(s)}], rest[Highest(s)])]
    <2>1. ASSUME NEW s \in SUBSET (1 .. n), s # {}
          PROVE  some[s] = AddHashed(some[s \ {Highest(s)}], rest[Highest(s)])
      <3>1. Highest(s) \in s
        BY <2>1, HighestIsOne
      <3>2. some[s] = step[some[s \ {Highest(s)}], Highest(s)]
        BY <1>7, <2>1 DEF Folds, FoldAt
      <3>3. some[s \ {Highest(s)}] \in Kept /\ Highest(s) \in 1 .. n
        BY <1>7, <3>1 DEF Folds
      <3> QED
        BY <3>2, <3>3
    <2>2. some[{}] = base
      BY <1>7 DEF Folds, FoldAt
    <2> QED
      BY <1>7, <2>1, <2>2 DEF Folds
  <1>9. fold = [s \in SUBSET (1 .. n) |->
                  IF s = {} THEN base
                  ELSE AddHashed(fold[s \ {Highest(s)}], rest[Highest(s)])]
    BY <1>8
  <1> HIDE DEF fold
  <1>10. fold[1 .. 0] = base
    <2>1. 1 .. 0 = {} /\ {} \in SUBSET (1 .. n)
      OBVIOUS
    <2> QED
      BY <1>9, <2>1
  <1>11. ASSUME NEW k \in 1 .. n PROVE fold[1 .. k] = AddHashed(fold[1 .. (k - 1)], rest[k])
    <2>1. /\ 1 .. k \in SUBSET (1 .. n) /\ 1 .. k # {} /\ Highest(1 .. k) = k
          /\ (1 .. k) \ {k} = 1 .. (k - 1)
      BY UpTo
    <2> QED
      BY <1>9, <2>1
  <1> HIDE DEF step
  <1> DEFINE S == {k \in Nat : fold[1 .. k] \in Kept /\ Len(fold[1 .. k]) <= k + 1}
  <1>12. 0 \in S
    <2>1. fold[1 .. 0] \in Kept /\ Len(fold[1 .. 0]) <= 0 + 1
      <3>1. base \in Kept /\ Len(base) <= 0 + 1
        BY <1>3
      <3> HIDE DEF Kept
      <3> QED
        BY ONLY <1>10, <3>1
    <2> QED
      BY <2>1
  <1>13. ASSUME NEW k \in 1 .. n, k - 1 \in S PROVE k \in S
    <2>1. PICK kept \in Kept, object \in JobObjects(Ids) :
             kept = fold[1 .. (k - 1)] /\ object = rest[k] /\ Len(kept) <= k
      BY <1>1, <1>2, <1>13
    <2>2. AddHashed(kept, object) \in Kept /\ Len(AddHashed(kept, object)) <= k + 1
      BY <2>1 DEF AddHashed
    <2> QED
      BY <1>11, <2>1, <2>2
  <1>14. S \in SUBSET Nat
    OBVIOUS
  <1> HIDE DEF S
  <1>15. n \in S
    BY <1>12, <1>13, <1>14, InductionUpTo
  <1> QED
    BY <1>4, <1>15, <1>1, <1>2 DEF S

\* The job of one object asks once at most.
LEMMA OneJob ==
  ASSUME NEW Ids, NEW object \in JobObjects(Ids), NEW requests, requests = Process(<<object>>).requests
  PROVE  requests \in Seq(Requests(Ids)) /\ Len(requests) <= 1
  <1>1. <<object>> \in Seq(JobObjects(Ids)) /\ <<object>> # <<>> /\ Len(<<object>>) = 1
    OBVIOUS
  <1>2. PICK eligible : /\ eligible = Eligible(<<object>>) /\ eligible \in Seq(JobObjects(Ids))
                        /\ Len(eligible) <= 1
    BY <1>1, EligibleIs
  <1>3. /\ Process(<<object>>) \in Runs(Ids)
        /\ Answered(Process(<<object>>), Len(eligible), eligible)
    BY <1>2, ProcessKeeps
  <1>4. requests \in Seq(Requests(Ids)) /\ Len(requests) <= Len(eligible)
    BY <1>3 DEF Answered, Runs
  <1> QED
    BY <1>2, <1>4

LEMMA ChildRequestsAre ==
  ASSUME NEW Ids, NEW objects \in Seq(JobObjects(Ids)), objects # <<>>
  PROVE  /\ ChildRequests(objects) \in Seq(Requests(Ids))
         /\ Len(ChildRequests(objects)) <= Len(objects) - 1
  <1> DEFINE Asked == Seq(Requests(Ids))
  <1>1. PICK rest : /\ rest \in Seq(JobObjects(Ids))
                    /\ rest = Tail(objects) /\ Len(rest) + 1 = Len(objects)
    <2>1. Tail(objects) \in Seq(JobObjects(Ids)) /\ Len(Tail(objects)) + 1 = Len(objects)
      OBVIOUS
    <2> QED
      BY ONLY <2>1
  <1>2. PICK n \in Nat : n = Len(rest)
    <2>1. Len(rest) \in Nat
      BY <1>1
    <2> QED
      BY ONLY <2>1
  <1>3. PICK base : base \in Asked /\ base = <<>> /\ Len(base) = 0
    <2>1. <<>> \in Asked /\ Len(<<>>) = 0
      OBVIOUS
    <2> QED
      BY ONLY <2>1
  <1>4. ASSUME NEW requests \in Asked, NEW object \in JobObjects(Ids)
        PROVE  /\ AddJob(requests, object) \in Asked
               /\ Len(AddJob(requests, object)) <= Len(requests) + 1
    <2>1. PICK more : /\ more = Process(<<object>>).requests
                      /\ more \in Asked /\ Len(more) <= 1
      BY OneJob
    <2> QED
      BY <2>1 DEF AddJob
  <1>5. \A k \in 1 .. n : rest[k] \in JobObjects(Ids)
    BY <1>1, <1>2
  <1> DEFINE step == [pair \in Asked \X (1 .. n) |-> AddJob(pair[1], rest[pair[2]])]
             fold == CHOOSE f : f = [s \in SUBSET (1 .. n) |->
                        IF s = {} THEN base
                        ELSE AddJob(f[s \ {Highest(s)}], rest[Highest(s)])]
  <1>6. ChildRequests(objects) = fold[1 .. n]
    <2>1. DOMAIN rest = 1 .. n
      BY <1>1, <1>2
    <2> QED
      BY <1>1, <1>3, <2>1 DEF ChildRequests, FoldLeft, MapThenFoldSet, Max, Highest
  <1>7. step \in [Asked \X (1 .. n) -> Asked]
    BY <1>4, <1>5
  <1>8. base \in Asked
    BY <1>3
  <1>9. PICK some : Folds(Asked, base, step, n, some)
    BY <1>7, <1>8, FoldExists
  <1>10. some = [s \in SUBSET (1 .. n) |->
                  IF s = {} THEN base
                  ELSE AddJob(some[s \ {Highest(s)}], rest[Highest(s)])]
    <2>1. ASSUME NEW s \in SUBSET (1 .. n), s # {}
          PROVE  some[s] = AddJob(some[s \ {Highest(s)}], rest[Highest(s)])
      <3>1. Highest(s) \in s
        BY <2>1, HighestIsOne
      <3>2. some[s] = step[some[s \ {Highest(s)}], Highest(s)]
        BY <1>9, <2>1 DEF Folds, FoldAt
      <3>3. some[s \ {Highest(s)}] \in Asked /\ Highest(s) \in 1 .. n
        BY <1>9, <3>1 DEF Folds
      <3> QED
        BY <3>2, <3>3
    <2>2. some[{}] = base
      BY <1>9 DEF Folds, FoldAt
    <2> QED
      BY <1>9, <2>1, <2>2 DEF Folds
  <1>11. fold = [s \in SUBSET (1 .. n) |->
                  IF s = {} THEN base
                  ELSE AddJob(fold[s \ {Highest(s)}], rest[Highest(s)])]
    BY <1>10
  <1> HIDE DEF fold
  <1>12. fold[1 .. 0] = base
    <2>1. 1 .. 0 = {} /\ {} \in SUBSET (1 .. n)
      OBVIOUS
    <2> QED
      BY <1>11, <2>1
  <1>13. ASSUME NEW k \in 1 .. n PROVE fold[1 .. k] = AddJob(fold[1 .. (k - 1)], rest[k])
    <2>1. /\ 1 .. k \in SUBSET (1 .. n) /\ 1 .. k # {} /\ Highest(1 .. k) = k
          /\ (1 .. k) \ {k} = 1 .. (k - 1)
      BY UpTo
    <2> QED
      BY <1>11, <2>1
  <1> HIDE DEF step
  <1> DEFINE S == {k \in Nat : fold[1 .. k] \in Asked /\ Len(fold[1 .. k]) <= k}
  <1>14. 0 \in S
    <2>1. fold[1 .. 0] \in Asked /\ Len(fold[1 .. 0]) <= 0
      BY <1>3, <1>12
    <2> QED
      BY <2>1
  <1>15. ASSUME NEW k \in 1 .. n, k - 1 \in S PROVE k \in S
    <2>1. PICK requests \in Asked, object \in JobObjects(Ids) :
             requests = fold[1 .. (k - 1)] /\ object = rest[k] /\ Len(requests) <= k - 1
      BY <1>5, <1>15
    <2>2. AddJob(requests, object) \in Asked /\ Len(AddJob(requests, object)) <= k
      <3>1. PICK more \in Asked : more = AddJob(requests, object) /\ Len(more) <= Len(requests) + 1
        BY <1>4
      <3> QED
        BY <2>1, <3>1
    <2> QED
      BY <1>13, <2>1, <2>2
  <1>16. S \in SUBSET Nat
    OBVIOUS
  <1> HIDE DEF S
  <1>17. n \in S
    BY <1>14, <1>15, <1>16, InductionUpTo
  <1> QED
    BY <1>6, <1>17, <1>1, <1>2 DEF S

(***************************************************************************)
(* What a reply comes to, and the two theorems.                            *)
(***************************************************************************)

\* Nothing of an answer, and an error.
OnlyError(context) ==
    /\ context.state \in {"UNAVAILABLE", "ERROR"} /\ context.errors # {}
    /\ context.kept = <<>> /\ context.candidates = 0
    /\ context.exact \in {"RAB_UNAVAILABLE", "ERROR"}

LEMMA ErrorIs ==
  ASSUME NEW code, NEW context, context = ErrorContext(code)
  PROVE  OnlyError(context)
  BY DEF ErrorContext, Context, OnlyError

\* What is left of the records is the answer's first ones, within the limit.
LEMMA TakeIs ==
  ASSUME NEW records \in Seq(BOOLEAN), NEW n \in Nat, NEW left, left = Take(records, n)
  PROVE  /\ \A k : k \in DOMAIN left <=> k \in DOMAIN records /\ k <= n
         /\ \A k \in DOMAIN left : left[k] = records[k]
  <1>1. PICK length \in Nat : length = Len(records) /\ DOMAIN records = 1 .. length
    OBVIOUS
  <1>2. PICK m \in Nat : m = IF length < n THEN length ELSE n
    OBVIOUS
  <1>3. left = SubSeq(records, 1, m)
    BY <1>1, <1>2 DEF Take
  <1>4. DOMAIN left = 1 .. m
    BY <1>1, <1>2, <1>3
  <1>5. \A k \in 1 .. m : left[k] = records[k]
    BY <1>1, <1>2, <1>3
  <1>6. \A k \in 1 .. length : k \in 1 .. m <=> k <= n
    BY <1>2
  <1>7. 1 .. m \subseteq 1 .. length
    BY <1>2
  <1> QED
    BY <1>1, <1>4, <1>5, <1>6, <1>7

LEMMA BoundIs ==
  ASSUME NEW says \in Contexts, NEW context, context = Bound(says),
         NEW foreign \in BOOLEAN,
         foreign <=> \E k \in DOMAIN says.kept : k <= MaxExactRecords /\ ~says.kept[k]
  PROVE  /\ \A k \in DOMAIN context.kept : context.kept[k]
         /\ foreign => OnlyError(context)
         /\ ~foreign => context.exact = says.exact
  <1>1. PICK kept : kept = Take(says.kept, MaxExactRecords)
    OBVIOUS
  <1>2. /\ \A k : k \in DOMAIN kept <=> k \in DOMAIN says.kept /\ k <= MaxExactRecords
        /\ \A k \in DOMAIN kept : kept[k] = says.kept[k]
    <2>1. says.kept \in Seq(BOOLEAN) /\ MaxExactRecords \in Nat
      BY CorrelationAssumption DEF Contexts
    <2> QED
      BY <1>1, <2>1, TakeIs
  <1>3. foreign <=> \E k \in DOMAIN kept : ~kept[k]
    <2>1. ASSUME NEW k \in DOMAIN says.kept, k <= MaxExactRecords, ~says.kept[k]
          PROVE  k \in DOMAIN kept /\ ~kept[k]
      BY <1>2, <2>1, Zenon
    <2>2. ASSUME NEW k \in DOMAIN kept, ~kept[k]
          PROVE  k \in DOMAIN says.kept /\ k <= MaxExactRecords /\ ~says.kept[k]
      BY <1>2, <2>2, Zenon
    <2> QED
      BY <2>1, <2>2, Zenon
  <1>4. CASE \E k \in DOMAIN kept : ~kept[k]
    <2>1. context = ErrorContext("RAB_IDENTITY_CONFLICT")
      BY <1>1, <1>4 DEF Bound
    <2>2. OnlyError(context)
      BY <2>1, ErrorIs
    <2> QED
      BY <1>3, <1>4, <2>2 DEF OnlyError
  <1>5. CASE ~ \E k \in DOMAIN kept : ~kept[k]
    <2>1. PICK candidates :
             context = [says EXCEPT !.kept = kept, !.candidates = candidates]
      BY <1>1, <1>5 DEF Bound
    <2>2. context.kept = kept /\ context.exact = says.exact
      BY <2>1 DEF Contexts
    <2> QED
      BY <1>3, <1>5, <2>2
  <1> QED
    BY <1>4, <1>5

\* What a request may leave with its object.
Answers(reply, context) ==
    /\ context.exact \in {"EXACT_MATCH", "NO_EXACT_MATCH"} =>
          Usable(reply) /\ context.exact = reply.says.exact
    /\ \A k \in DOMAIN context.kept : context.kept[k]
    /\ ~Usable(reply) \/ Foreign(reply) =>
          /\ context.state \in {"UNAVAILABLE", "ERROR"} /\ context.errors # {}
          /\ context.kept = <<>> /\ context.candidates = 0

LEMMA ReplyIs ==
  ASSUME NEW reply \in AnyReply, NEW context, context = Correlate(reply)
  PROVE  Answers(reply, context)
  <1>1. CASE ~Usable(reply)
    <2>1. PICK code : context = ErrorContext(code)
      <3>1. CASE reply.end # "answered"
        BY <3>1 DEF Correlate, AnyReply, Ends
      <3>2. CASE reply.end = "answered" /\ reply.status >= 400
        <4>1. reply.status \in {401, 403} => context = ErrorContext("RAB_AUTH_FAILED")
          BY <3>2 DEF Correlate
        <4>2. ASSUME reply.status \notin {401, 403}
              PROVE  context = ErrorContext("RAB_PROTOCOL_ERROR")
          <5>1. PICK status \in Int : status = reply.status /\ status >= 400
            BY <3>2 DEF AnyReply, Statuses
          <5>2. ~(status < 400)
            BY <5>1
          <5> QED
            BY <3>2, <4>2, <5>1, <5>2 DEF Correlate
        <4> QED
          BY <4>1, <4>2
      <3>3. CASE reply.end = "answered" /\ reply.status < 400
        <4>1. reply.status \notin {401, 403} /\ ~(reply.status >= 400)
          BY <3>3 DEF AnyReply, Statuses
        <4>2. ~reply.fits \/ ~reply.parses
          BY <1>1, <3>3 DEF Usable
        <4> QED
          BY <3>3, <4>1, <4>2 DEF Correlate
      <3>4. reply.status < 400 \/ reply.status >= 400
        BY DEF AnyReply, Statuses
      <3> QED
        BY <3>1, <3>2, <3>3, <3>4
    <2>2. OnlyError(context)
      BY <2>1, ErrorIs
    <2> QED
      BY <1>1, <2>2 DEF OnlyError, Answers
  <1>2. CASE Usable(reply)
    <2>1. /\ reply.end = "answered" /\ reply.status < 400 /\ reply.fits /\ reply.parses
          /\ reply.status \notin {401, 403} /\ ~(reply.status >= 400)
      BY <1>2 DEF Usable, AnyReply, Statuses
    <2>2. context = Bound(reply.says)
      BY <2>1 DEF Correlate
    <2>3. reply.says \in Contexts
      BY DEF AnyReply
    <2>4. /\ \A k \in DOMAIN context.kept : context.kept[k]
          /\ Foreign(reply) => OnlyError(context)
          /\ ~Foreign(reply) => context.exact = reply.says.exact
      BY <2>2, <2>3, BoundIs DEF Foreign
    <2>5. CASE Foreign(reply)
      BY <1>2, <2>4, <2>5 DEF OnlyError, Answers
    <2>6. CASE ~Foreign(reply)
      BY <1>2, <2>4, <2>6 DEF Answers
    <2> QED
      BY <2>5, <2>6
  <1> QED
    BY <1>1, <1>2

\* The correlation's budgets hold of a job with any number of objects, whatever the service
\* answers and however long each answer takes: no request after the deadline, none beyond the
\* object budget, no fingerprint beyond the similarity budget, a context for every eligible object,
\* and one request more at most for each derived object (service.py:37-66).
THEOREM EveryJobIsBounded ==
  ASSUME NEW Ids, NEW objects \in Seq(JobObjects(Ids)), objects # <<>>
  PROVE  CorrelationIsBounded(objects)
  <1>1. PICK eligible : eligible \in Seq(JobObjects(Ids)) /\ eligible = Eligible(objects)
    BY EligibleIs
  <1>2. PICK run : run \in Runs(Ids) /\ run = Process(objects) /\ Budgeted(run)
                   /\ Answered(run, Len(eligible), eligible)
    BY <1>1, ProcessKeeps
  <1>3. /\ run.requests \in Seq(Requests(Ids)) /\ run.contexts \in Seq(Gotten)
        /\ Len(run.contexts) = Len(eligible) /\ Len(run.requests) <= Len(run.contexts)
    BY <1>2 DEF Runs, Answered
  <1>4. Cardinality({i \in DOMAIN run.requests : run.requests[i].ssdeep}) <= MaxSimilarityQueries
    BY <1>2 DEF Budgeted, Fingerprinted
  <1>5. ASSUME NEW i \in DOMAIN run.contexts, i > Len(run.requests)
        PROVE  /\ run.contexts[i].state = "PARTIAL" /\ run.contexts[i].exact = "ERROR"
               /\ run.contexts[i].kept = <<>> /\ run.contexts[i].reason \in OwnReasons
    <2>1. PICK reason \in OwnReasons : run.contexts[i] = Skipped(reason)
      BY <1>2, <1>5 DEF Answered
    <2> DEFINE context == run.contexts[i]
    <2>2. /\ context.state = "PARTIAL" /\ context.exact = "ERROR" /\ context.kept = <<>>
          /\ context.reason = reason
      BY <2>1 DEF Skipped, Context
    <2> QED
      BY <2>1, <2>2
  <1>6. Len(AllRequests(objects)) <= MaxObjects + Len(objects) - 1
    <2>1. PICK asked : /\ asked = ChildRequests(objects) /\ asked \in Seq(Requests(Ids))
                       /\ Len(asked) <= Len(objects) - 1
      BY ChildRequestsAre
    <2>2. AllRequests(objects) = asked \o run.requests
      BY <1>2, <2>1 DEF AllRequests
    <2>3. Len(run.requests) <= MaxObjects
      BY <1>2 DEF Budgeted
    <2>4. Len(asked \o run.requests) = Len(asked) + Len(run.requests)
      BY <1>3, <2>1
    <2> QED
      BY <1>3, <2>1, <2>2, <2>3, <2>4, CorrelationAssumption
  <1> QED
    BY <1>1, <1>2, <1>3, <1>4, <1>5, <1>6 DEF CorrelationIsBounded, Budgeted, Answered

\* In a job with any number of objects, a request that failed is never a statement about what the
\* RAB knows: only an answer accepted, read whole and parsed is one, and its exact state is the
\* answer's own; a record that is kept names the object's digest and size, and an answer with
\* another one within the limit leaves an error and nothing else (providers.py:91-197).
THEOREM NoFailureIsAbsence ==
  ASSUME NEW Ids, NEW objects \in Seq(JobObjects(Ids)), objects # <<>>
  PROVE  FailureIsNotAbsence(objects)
  <1>1. PICK eligible : eligible \in Seq(JobObjects(Ids)) /\ eligible = Eligible(objects)
    BY EligibleIs
  <1>2. PICK run : run \in Runs(Ids) /\ run = Process(objects)
                   /\ Answered(run, Len(eligible), eligible)
    BY <1>1, ProcessKeeps
  <1>3. ASSUME NEW i \in DOMAIN run.requests
        PROVE  Answers(eligible[i].reply, run.contexts[i])
    <2>1. /\ run.requests \in Seq(Requests(Ids)) /\ Len(run.requests) <= Len(eligible)
          /\ run.contexts[i] = Correlate(eligible[i].reply)
      BY <1>2, <1>3 DEF Runs, Answered
    <2>2. i \in 1 .. Len(eligible)
      BY <1>1, <2>1
    <2>3. eligible[i].reply \in AnyReply
      <3>1. PICK object \in JobObjects(Ids) : object = eligible[i]
        BY <1>1, <2>2
      <3>2. object.reply \in AnyReply
        BY <3>1 DEF JobObjects
      <3> QED
        BY <3>1, <3>2
    <2> QED
      BY <2>1, <2>3, ReplyIs
  <1> DEFINE replies == [i \in DOMAIN run.requests |-> eligible[i].reply]
  <1>4. ASSUME NEW i \in DOMAIN run.requests
        PROVE  Answers(replies[i], run.contexts[i])
    <2>1. replies[i] = eligible[i].reply
      OBVIOUS
    <2> HIDE DEF replies
    <2> QED
      BY <1>3, <2>1
  <1> HIDE DEF replies
  <1>5. FailureIsNotAbsence(objects) <=>
          \A i \in DOMAIN run.requests : Answers(replies[i], run.contexts[i])
    BY <1>1, <1>2 DEF FailureIsNotAbsence, Answers, replies
  <1> QED
    BY <1>4, <1>5

(***************************************************************************)
(* What is analyzed is an input of its kind, so every such input is        *)
(* analyzed as its theorem says.                                           *)
(***************************************************************************)

HandedIsProper == kind \in Kinds /\ (analyzed => IsProper(kind, input))

\* Nothing but a proper input is ever analyzed.
THEOREM InputsAreProper == Spec => []HandedIsProper
  <1>1. Init => HandedIsProper
    BY DEF Init, HandedIsProper
  <1>2. HandedIsProper /\ [Hand]_handed => HandedIsProper'
    <2> SUFFICES ASSUME HandedIsProper, [Hand]_handed PROVE HandedIsProper'
      OBVIOUS
    <2>1. CASE Hand
      BY <2>1 DEF Hand, HandedIsProper
    <2>2. CASE UNCHANGED handed
      BY <2>2 DEF handed, HandedIsProper
    <2> QED
      BY <2>1, <2>2
  <1> QED
    BY <1>1, <1>2, PTL DEF Spec

\* The table of every disk that is analyzed is true to it (partitions.py:81-272).
THEOREM DisksAreTrue == Spec => []TablesAreTrue
  <1>1. HandedIsProper => TablesAreTrue
    BY EveryTableIsTrue DEF HandedIsProper, IsProper, TablesAreTrue, Given
  <1> QED
    BY <1>1, InputsAreProper, PTL

\* The hash of each of its partitions covers it (partitions.py:15-59, 275-292).
THEOREM DisksAreHashed == Spec => []HashesCoverPartitions
  <1>1. HandedIsProper => HashesCoverPartitions
    BY EveryHashCovers DEF HandedIsProper, IsProper, HashesCoverPartitions, Given
  <1> QED
    BY <1>1, InputsAreProper, PTL

\* Every volume and every archive is called VALID exactly if it is sound and was read whole
\* (structural.py:94-143, 509-651).
THEOREM VolumesAndArchivesAreRead == Spec => []MediaAreReadWhole
  <1>1. ASSUME HandedIsProper, Given("iso") PROVE IsoIsReadWhole(input)
    BY <1>1, EveryVolumeIsReadWhole DEF HandedIsProper, IsProper, Given
  <1>2. ASSUME HandedIsProper, Given("lha")
        PROVE  LhaIsReadWhole(input.traits, input.large, input.archive)
    <2>1. input \in Archives
      BY <1>2 DEF HandedIsProper, IsProper, Given
    <2>2. input.traits \in SUBSET Traits /\ input.large \in BOOLEAN /\ input.archive \in Seq(SUBSET Faults)
      BY <2>1 DEF Archives
    <2> QED
      BY <2>2, EveryArchiveIsReadWhole
  <1>3. HandedIsProper => MediaAreReadWhole
    BY <1>1, <1>2 DEF MediaAreReadWhole
  <1> QED
    BY <1>3, InputsAreProper, PTL

\* Every compound file is read or it is refused (document.py:389-502).
THEOREM CompoundFilesAreRead == Spec => []CompoundFilesAreReadOrRefused
  <1>1. HandedIsProper => CompoundFilesAreReadOrRefused
    BY EveryCompoundFileIsReadOrRefused DEF HandedIsProper, IsProper, CompoundFilesAreReadOrRefused, Given
  <1> QED
    BY <1>1, InputsAreProper, PTL

\* Every process of a scanner is judged conservatively (adapters.py:166-376).
THEOREM ProcessesAreJudged == Spec => []VerdictsAreConservative
  <1>1. ASSUME HandedIsProper, Given("process")
        PROVE  NormalizationIsConservative(input.scanner, input.process, input.setting)
    <2>1. input \in Processed
      BY <1>1 DEF HandedIsProper, IsProper, Given
    <2>2. /\ input.scanner \in FileScanners \cup SystemScanners /\ input.process \in Processes
          /\ input.setting \in BOOLEAN
      BY <2>1 DEF Processed
    <2> QED
      BY <2>2, EveryVerdictIsConservative
  <1>2. HandedIsProper => VerdictsAreConservative
    BY <1>1 DEF VerdictsAreConservative
  <1> QED
    BY <1>2, InputsAreProper, PTL

\* Every job's correlation keeps its budgets (service.py:37-66).
THEOREM CorrelationsAreBounded == Spec => []JobsAreBounded
  <1>1. HandedIsProper => JobsAreBounded
    BY EveryJobIsBounded DEF HandedIsProper, IsProper, Jobs, JobsAreBounded, Given
  <1> QED
    BY <1>1, InputsAreProper, PTL

\* No failure of a request passes for an answer of the RAB (providers.py:91-197).
THEOREM CorrelationsAreEarned == Spec => []AnswersAreEarned
  <1>1. HandedIsProper => AnswersAreEarned
    BY NoFailureIsAbsence DEF HandedIsProper, IsProper, Jobs, AnswersAreEarned, Given
  <1> QED
    BY <1>1, InputsAreProper, PTL
=============================================================================
