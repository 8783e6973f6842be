# TLA+ models of AVBox

AVBox receives files over an authenticated HTTP protocol (RAB), scans them with
external scanners and its own analyzers, records the verdict and quarantines what
is malicious. These modules model the parts of it whose correctness depends on
the order in which things happen, and the readers of untrusted structures - partition
tables, file systems, archives, compound files - whose correctness depends on the
shape of a graph nobody controls.

## Inventory

| Component | State it keeps | Operations | Talks to |
| --- | --- | --- | --- |
| RAB service, `protocol/service.py` | bounded queue, intake lock, worker threads, upload directory | `submit_stream`, `_worker`, `shutdown`, start-up clean-up, `status`, `results` | job store, scan execution, file system |
| Job store, `application/jobs.py` | SQLite tables `jobs`, `rab_jobs`, `scanner_runtime` | `save`, `transition`, `list`, `reconcile_interrupted`, `save_rab_job` | every process on the host |
| Job model, `models/jobs.py` | a job's status | `transition` | - |
| Scan execution, `application/scanning.py` | the running job's results, staging directory | `create_queued`, `execute_queued`, `scan_file` | adapters, analyzers, containers, correlation, quarantine |
| Quarantine, `preservation/service.py` | content-addressed files, `.incoming` copies | `admit` | file system |
| Scanner adapters, `scanners/` | the active job id of a shared adapter object, raw output files | `probe`, `prepare`, `run_prepared`, `cleanup`, normalisation | subprocesses |
| Container recursion, `analyzers/containers.py` | usage counters of one job, derived files | the recursive walk, materialisation, external extraction | scan execution (a job per child), parsers |
| Correlation, `correlation/` | per-job query budget and deadline | `process`, one HTTP request per object | remote service |
| Partition, disk-image and structural parsers, `analyzers/` | offsets, visited sets | the list of RDB partition blocks, FAT and ADF chains and directories, ISO trees, LHA members | bounded readers |
| Static, document and executable analyzers | none | one pass over bytes; the chains of a compound file | - |
| HTTP API, CLI, context, settings, registry | configuration | wiring, rendering | the RAB service |
| Deployment, `ansible/` | the systemd unit | restart on failure, stop timeout | the server process |

What is hard here: several request threads and worker threads share a queue, a
database and a directory; a process may die between any two of a dozen separate
commits; a retry must not start a second execution; a restart has to tell
finished work from lost work; a second process (the CLI) opens the same database;
and a recursive walk over untrusted containers has to stay in its budgets.
`PROJECT.json` lists these hazards by source line.

What makes each part right:

- RAB service and store: an accepted request is one job, executed at most once,
  that finishes; what clients see only moves along the job state machine;
  capacity and key checks are still true when they are used; uploads do not
  outlive their job; shutdown leaves nothing half done.
- Scan execution and quarantine: a positive verdict, also of a derived object, ends
  in quarantine or in a failed job, never in a clean one; no requested name vanishes;
  quarantine never holds half a copy; QUALIFIED was earned.
- Adapters: every raw output carries the id of the job that produced it; a process
  that failed, was killed or could not be isolated is never CLEAN.
- Containers: depth, count, byte and partition budgets hold for the whole job,
  nesting included; the walk ends.
- Correlation: bounded requests, none begun after the deadline, and no failure taken
  for the answer that an object is unknown.
- Parsers and validators: what is damaged is called damaged and what is sound is read
  whole, also where chains and directories form cycles; two readers of one format
  agree; no read leaves the range it was given.

## Modules

- `JobStates`: the statuses of a `ScanJob` and the moves `transition()` accepts.
- `RabContract`: what the protocol promises a client, without queue, workers or
  restarts: a job appears QUEUED under a new key, moves along the state machine,
  never leaves a finished state; an answer names the job of that very request.
- `RabService`: intake, queue, workers, shutdown, process death, restart and the
  CLI's start-up procedure. It implements `RabContract` (`ImplementsContract`)
  when no CLI command runs.
- `MCRabService`: symmetry for the TLC instances.
- `RabServiceProofs`: the theorems about intake and workers, queue, store, uploads, the
  graceful stop, and that the service implements `RabContract`.
- `ContainerRecursion`: the walk of one job over a tree of containers, with every
  budget, limit event, failure and the graph it reports. It shares no state with
  `RabService`: to the service the walk is part of one `execute_queued`.
- `MCContainerRecursion`: the trees of the TLC instances.
- `ContainerRecursionProofs`: the theorems about it, the counters of the budgets and the
  partitions' common limit included.
- `ScanExecution`: `execute_queued` step by step, for several workers and for derived
  jobs inside the walk of their parent, with the shared adapters, the
  `scanner_runtime` table, staging and the quarantine. It looks into what is one
  action (`End`) of `RabService` and one of the walk's children (`TakeMember`).
- `MCScanExecution`: the submissions of its TLC instances.
- `ScanExecutionProofs`: the theorems about it.
- Pure modules, of operators only: `ScannerNormalization` (what becomes of a scanner's
  process), `Correlation` (a job's queries), `PartitionTables`, `FatImages`,
  `AdfImages`, `MediaValidation` (ISO 9660, LHA and the choice of a format) and
  `CompoundFiles`. Each ends with what is true of its results, said against a
  definition that does not walk: reachability as a closure, soundness as a graph.
- `AnalyzedInputs`: a state machine that hands any proper input, of any size, to the part it
  is for, and what each part then promises.
- `MCAnalysis`: the same over bounded inputs, for TLC: its steps for those parts are steps
  of `AnalyzedInputs`, and it adds the file systems.
- `PartitionProofs`, `MediaProofs`, `CompoundProofs`: what the readers of partition tables, of ISO
  volumes and LHA archives, and of compound files return, for any input. `AnalysisProofs` builds on
  them, adds `ScannerNormalization` and `Correlation`, and has the theorems about `AnalyzedInputs`.
- `InductionFacts`: induction over the numbers, and that a fold over the positions of a
  sequence exists, for the proof modules that need them.

### How RabService corresponds to the code

One element of `Jobs` is one call of `submit_stream`; the upload it streams and
the job it may create carry its identity, since `uuid4` names never collide.
`rows` is the `status` column of `jobs`, `marked` the rows whose document holds
the restart error, `records` the table `rab_jobs`, `incoming` and `objects` the
files below `upload_root`. Each commit of the intake is its own action:
`CreateRow`, `StageRow`, `QueueRow` (`create_queued`), `MoveUpload` (mkdir and
rename), `RecordJob` (the INSERT), `Enqueue` (`put_nowait` and the release of the
lock), `Respond`. `mem` is the `ScanJob` object that queue and worker share: a
worker writes *its* object to the store, whatever the store holds by then, as
`JobService.save` does. `End` and `FinalSave` are the last two saves of
`execute_queued`; `HandleError` is the `except` clause of `_worker`, which may
itself raise; `RemoveUpload` is its `finally` clause. `Crash` may happen in every
state of a starting or serving process, `KillStop` during a shutdown
(`TimeoutStopSec`). A worker step that reads and writes one row is one action.

Choices that widen the behaviour: the handler is an `async def` that calls
`submit_stream` directly, so that today calls do not overlap; the model lets them
overlap, because `self.lock` exists for that. Whether an analyzer is available
(503) is decided outside the module and may be refused at any time.
Left out: profile, key and length checks made before anything is written
(`service.py:429-439`), a failing clean-up of a file (`_remove_upload` ignores or
logs), a storage error during start-up (the process dies, which `Crash` covers),
and the death of a CLI process.

Jobs of other sources (`local-cli`, `derived:`) are not in the module:
`reconcile_interrupted` never touches them.

### How ContainerRecursion corresponds to the code

An object is a content; the same content may lie at many places and inside itself,
which is why the depth limit matters. `content` is chosen once: the form of every
object (what `parse_document` and `_kind` take it for), its size, what its parsers
say, and its members with the fate of each. `stack` is the Python call stack of
`_process_object` and `_child`, innermost call first; a frame holds the node it
works on, its depth, the next member and the partition bytes its caller charges on
return. `derived` is `job.derived_objects` (a relationship is appended with each),
`discovered`, `materialized`, `extracted`, `partitioned` and `events` are the fields of
`ExtractionUsage`; `files` are the `child-<n>` files. A member of trait `unlisted` is one that the
listing parsers of lha and 7z drop (`containers.py:686`, 702-707): it counts for nothing.

`TurnAway`, `OpenLeaf`, `FailToOpen` and `OpenContainer` are `_process_object` up to
its loop; `Break`, `Overlook`, `PassOver`, `Fail` and `TakeMember` one turn of the loop, which
is the same in the seven loops of the code up to the traits their members can have
(`TraitsOf`); `EndLoop` and `Return` leave it. `Abort` is the exception that ends
the whole walk, caught by `process()` or not. `Expire` is the clock passing
`max_extraction_time_seconds`. The scan of a child (`create_queued`,
`execute_queued`) is atomic here. What of it reaches the walk is an alternative of `Fail`, after the
child was charged: the hash of its file (424) or the clean-up of its job (`scanning.py:231`)
raises an `OSError`, which `process()` catches, or the job store an exception it does not;
`execute_queued` turns everything else into a FAILED child.

Abstracted: which limit a long member meets first (any of those it would meet), the
names of the skip events, the 1 MiB chunks, and the sandboxed tools, whose failures
are skipped members. Recognising a format is a field of the content, not an
algorithm.

### How ScanExecution corresponds to the code

`job` holds, of every `ScanJob`, what `execute_queued` reads and writes, and `pc`,
where its thread is: `loop` is the `for` over the requested names, `probed` between
the read and the write of the `scanner_runtime` row, `prepare`, `scanning` and
`scanned` the turn of a scanner, `container` inside `recursive_analyzer.process`,
`verify` before the second hash of the source, `admit`, `open`, `copy` and `replace`
inside `PreservationService.admit`, `finally` the last clause. Each of these is a
place where another worker, another program or the end of the process can come in
between. `active` is the attribute `_active_job_id` of the adapter objects, which
`build_adapters` makes once for all workers; `staged` are the directories
`staging/<job>/<scanner>`; `incoming` and `quarantine` say for each digest whether
there is no file, part of a copy, a whole one, or other bytes.

`Raise` is the `except` clause around the whole execution: every step that no inner
clause guards has an alternative that raises (`ScannerRaises`, `LaterStepRaises`,
`OpenIncoming`, `AdmitRaises`, `FinishRaises`). `Analyze` has the inner clause of its
own: an analyzer that raises, or whose row cannot be saved, leaves an error, and what
of its result was taken over before stays. `DocumentResults` and `ExecutableResults`
are the pairs of native status and errors the two analyzers can return.

Derived jobs are created and executed one at a time by the walk of their parent
(`StartDerived`), asked for all the parent was asked for but the walk; the walk ends
in `EndContainer`: whole, cut by a limit, with something it cannot unpack, or
damaged. `FinishRaises` is the removal of a staging directory failing: a derived
job's exception then ends the walk, which catches it, and its results are not among
the parent's.

Abstracted: the job rows, whose storage errors are in `RabService`; the correlation,
one step that may raise and changes no verdict; `root_verdict`,
`preservation_decision` and the lists of raw outputs, which nothing reads back;
definition metadata. `earned` is a history variable: the scanners that once ran
without an error. `Rewrite` is another program that writes to a submitted file; the
code's own check against it (`scanning.py:216`) is `Verify`.

### How the pure modules correspond to the code

- `ScannerNormalization`: a process is its exit code, whether it outlived the timeout,
  whether bubblewrap is installed, and the kinds of lines it wrote. `Run` is
  `IsolatedCommandRunner.run`, `Normalize...` the adapters' `normalize`, `Probe` and
  `SystemRow` the probes and `system_scan`.
- `Correlation`: an object carries the reply the remote service gives and how long it
  takes; of an answer the reply holds what it says - its own state, exact state, errors and
  records -, and nothing makes these agree, as nothing in the code does. Any status below 400 is an
  answer. `ProcessOne` is one turn of `CorrelationService.process`, `Correlate` and
  `Bound` the HTTP provider. There is no retry in the code. `AllRequests` adds the
  requests of the derived objects' own jobs.
- `PartitionTables`: sizes in sectors. The walk reads a table with `MaxPartitions`
  (`max_partitions`, 32 by default), the validator with `ValidatorPartitions` (256,
  `structural.py:492`). `Follow` is one turn of the loop over the linked RDB blocks and `ListWalk`
  the loop, `ParseMbr` the four rows (extended partitions are named and not followed), `Overlap` the
  sorted neighbours; `ReadSize`, `Seek` and `Chunks` the bounded reader.
- `FatImages`: the parser (`ParseFat`, ends at the first fault) and the validator
  (`ValidateFat`, notes findings and goes on) over one table of clusters; `Sound` says
  what a sound file system is as a graph. Each row says which of the two takes it (`readers`):
  the parser goes by the long name, the validator by the short one; `RootRefused` is the FAT32
  root that only the parser refuses.
- `AdfImages`: a block has everything another block may take it for, as the same bytes
  can be met as an entry and as data. `ParseAdf` and `ValidateAdf` are the two walks.
- `MediaValidation`: `Format` is the order of the tests in `_validate`. `IsoWalk` is the loop
  over the stack of pending directories, `WalkOne` one turn of it and `ReadDirectory` the loop over
  the records inside; `ReadMember` is one LHA member, `ValidateLha` the loop.
- `CompoundFiles`: `AllocationChain` is the local `chain()`, `ChainTurn` one turn of its loop.
  `AssignTree` is the recursion over siblings and children with the calls still to be made as a
  stack, `AssignTurn` one call. `Stream` is the data of an entry, `ParseCfb` the whole.

Bytes, names, checksums and dates are traits: a block has a right checksum or not.

## Runs

| Run | Instance | Question |
| --- | --- | --- |
| `rab_safety` | 3 calls, 2 keys, 2 workers, queue of 1, 3 starts, 1 storage error | the safety invariants and the refinement of `RabContract` |
| `rab_beside_cli` | 2 calls, 2 keys, 2 meanings, 2 workers, 2 starts, 1 CLI command | what survives a CLI command beside the server |
| `rab_liveness` | 2 calls, 2 keys, 2 workers, 2 starts, no storage error | calls end, accepted jobs finish, shutdown returns |
| `rab_cli` | 1 call, 1 worker, 1 CLI command | violates `FinishedIsFinal` |
| `rab_leak` | 1 call, 1 worker, 2 starts | violates `UploadsGoAway` |
| `rab_dead_worker` | 2 calls, 1 worker, 1 storage error | violates `AcceptedJobsFinish` |
| `container_walk` | root and two contents in every form, 6852 trees, depth 2, 2 per object, 3 per job, 4 bytes | the invariants of the walk |
| `container_nested_disk` | a partition that holds a partition table | violates `PartitionBudgetHolds` |
| `scan_execution` | four submissions: two scans of the same bytes; a container with one derived object; the same beside a job of the derived object's bytes; one job of all kinds of names. One crash, one rewritable source | the invariants of the execution and the quarantine |
| `scan_lost_positive` | one scan | violates `PositiveIsQuarantined` |
| `scan_attribution` | two scans by two workers | violates `RawOutputIsOwn` |
| `analysis_inputs` | every input of bounded size of the pure modules, about 1.1 million | what is true of their results |

Bounds. Three calls are a holder of the lock, a competitor for its key and one
more for the room in the queue; a queue of one is full as soon as it is used; two
workers can take from the queue at the same time, and put a job in each hand and
one in the queue. Two starts give one crash or stop between any two steps; the
third start of `rab_safety` crashes a reconciliation and runs it again. One
storage error hits every database call in turn. `MaxBoots`, `MaxFaults` and
`MaxCliRuns` bound those counters in the guards; nothing else is bounded.

The contents of `container_walk` may hold each other and themselves, so with a depth
of 2 the walk would not end but for the limit; three members under a limit of two
reach the cut of the list, four possible children under a limit of three the job's,
and sizes 0 to 4 with limits 3 (child), 4 (job), ratio 1 and 3 (partitions) meet
every limit alone and together. The walk needs no bound of its own: it ends.

The submissions of `scan_execution` are the smallest in which two actors meet at each
shared thing: two workers at one adapter, one row of `scanner_runtime` and one digest;
a derived job and its parent at one verdict; a derived and a submitted job at one
digest. Scanners report CLEAN, MALICIOUS or ERROR (`clamav`) and SUSPICIOUS (`loki`);
`yara` is a name nobody answers to. `MaxCrashes` is one: running jobs are never taken
up again, so a second crash finds the files and rows of the first.

The limits of `analysis_inputs` are small so that its inputs pass them: three partition blocks in
six sectors that may point at each other, at themselves and outside, under limits of two for the
walk and three for the validator; three clusters and one beyond the last; four Amiga blocks, the
root among them, that can be entry and data, under a limit of two entries; five ISO sectors with
directories in three; three LHA members under a limit of two; four compound-file sectors under a
chain limit of three; jobs of up to four objects under limits of two objects, one fingerprint and
two units of time. All cycles of length one to three appear, and every verdict of every reader.

Deadlock is checked in every run but `analysis_inputs`, where a behaviour is one input
and ends with it: elsewhere the only stops are `StayDown`, a service that was stopped
or killed and is not started again, `Ended`, a walk that is over, and `AllDone`, every
job having ended.

What each safety property says:

- `TypeOK`: types, and the queue never above its capacity.
- `AdmissionStillHolds`: the key looked up and the room seen under the lock are
  still free when the INSERT and `put_nowait` use them.
- `OneJobPerKey`: answers under one key name one job and come from one request.
- `QueueIsBacked`: a queued item is stored QUEUED, recorded, has its upload and is
  in nobody's hands.
- `NoPhantomWork`: while the server serves, an unfinished stored job is in the
  queue, with a worker or with its call. A failed call and a dead worker after a
  storage error are the stated exceptions.
- `OneWorkerPerJob`: no double execution.
- `UploadIsTransient`: in the first life of the process an upload outlives its
  finished job only until the next step of whoever finished it.
- `StoppedIsClean`: a graceful stop without storage errors leaves finished jobs
  and no files, even though workers and `shutdown` empty one queue together.

Of the walk:

- `TypeOK`: types, and calls nested no deeper than the recursion depth.
- `BudgetsHold`: children and bytes per job, depth, size and expansion per child.
- `PartitionBudgetHolds`: the partitions of the whole job together; it holds when nothing
  extracted from a partition is a disk with a partition table of its own.
- `UsageIsTrue`: the counters the limits are checked against are what was
  materialised, up to partitions still being walked. A job whose walk an exception ended, raised or
  PARTIAL_ERROR, may have counted one child that it does not hold.
- `EdgesAreTrue`: the reported graph is the tree that was walked.
- `CompleteMeansWhole`: COMPLETE is only said of a tree of which every member was
  taken, but for directories and what the code loses without a word, which the property names:
  the members a listing parser drops (trait `unlisted`), and two objects `LeftUnopened`: a PDF,
  CFB or RTF document at the depth limit, which `_kind()` does not know, and the root if the
  depth limit is 0. No limit, refusal or error is among them.
- `ChildFilesMatch`: one file per derived object while the walk lasts, none when it is
  over, however it ends.

Of the execution:

- `TypeOK`: types, and one thread for a submitted job and all that derives from it.
- `VerdictIsActedOn`: a job COMPLETE has no positive result, of its own or of a derived
  object it lists; a job QUARANTINED has one, and a file under its digest.
- `CleanIsEarned`: CLEAN needs a scanner that said so and no result that is an error or
  positive, derived objects included, and every scanner asked for is accounted for by a result or
  among the errors of its job. What left no result does not prevent it: a refused scanner, and a
  derived job that FAILED because a scanner raised (`scanning.py:177`).
- `NothingSkippedSilently`: every requested name left a result or an error.
- `PartialIsSaid`: completeness COMPLETE is not said over a partial document or an
  erring document or executable analyzer.
- `QuarantineIsWhole`: no half copy, and other bytes only if the source was rewritten
  between the verification and the copy.
- `StagingIsTransient`: a job that ended left nothing staged.
- `QualificationIsEarned`: QUALIFIED, in the table or in a result, was once earned.

Of the pure parts, where "exactly" means that sound inputs are accepted too:

- `TablesAreTrue`: an RDB has no error exactly if its list is sound within the walk's limit, and is
  VALID exactly if it is sound within the validator's, which is larger: what the walk takes without
  an error is VALID, and a list between the limits is VALID and cut with an error. Overlaps show;
  partitions lie in the image.
- `HashesCoverPartitions`: the bounded view of a partition, and `hash_range` over it, is each byte
  once. Only tests call `hash_range`; the hash recorded for a partition's copy is `hash_file`'s.
- `FatVerdictsAreTrue`: VALID exactly if the file system is sound as a graph.
- `FatImagesAreReadWhole`: what is VALID the parser reads to the end, every file it names once,
  unless it refuses the root or names a row the validator has not judged. What is under a row
  that the parser itself passes over for its long name is not read.
- `FloppiesAreReadAlike`: parser and validator accept the same floppies, up to names
  and kinds of entries only the parser refuses, and blocks read as two things and
  the node limit only the validator minds. It is of images not also taken for FAT, which
  `parse_disk_image` tries first.
- `MediaAreReadWhole`: ISO: VALID exactly if descriptors, directories and records are
  in order and fewer than the limit, and
  only a block size of zero makes it raise. LHA: VALID exactly if all members up to
  the limit are without fault; a header size that was zeroed is the end mark.
- `CompoundFilesAreReadOrRefused`: a file that is read has sound chains, no stream
  longer than it says, and a hierarchy of just the entries the links lead to.
- `VerdictsAreConservative`: a process that was killed, failed or could not be isolated is an
  ERROR, and no sign of a detection ends CLEAN. A scanner that is allowed to run without
  bubblewrap, where it is not installed or not used, is no isolation failure and may end CLEAN.
- `JobsAreBounded`: requests keep the object, fingerprint and time budgets, and every
  object gets a context; derived jobs add at most one request each.
- `AnswersAreEarned`: EXACT_MATCH and NO_EXACT_MATCH come from an answer that was accepted, read
  and parsed, and are its own; a record that is kept names the object's digest and size; a request
  without such an answer, or with another object's record within the limit, leaves an error and
  nothing of an answer.

What modelling them showed, without a statement of the repository against it: a rigid
disk block with a wrong checksum or block size hides a sound boot record (the tables are
not both tried), and the observation `RDB_CHECKSUM_VALID` is False for a bad block size
as well (`structural.py:500`). `RDB_IDENTIFIER_INVALID` and `ISO_TRUNCATED_DESCRIPTOR`
cannot be reached. An ISO volume of block size zero makes the validator raise at the
first padding byte, and the finding on the block size is lost with the rest
(`structural.py:586`). FAT rows and LHA members past the node limit are left out without
a finding (422, 614), and the ISO limit is looked at between directories only (568).
Streams of a compound file are cut in silence where their chain is too short
(`document.py:496-501`). A job whose source is rewritten between verification and copy
puts other bytes under its digest.

Statements of the repository that the code does not keep and no run refutes; the properties
beside them are what it does keep:

- `docs/m14-container-recursion.md:41-43` has limits produce events and PARTIAL_LIMIT. A document
  at the depth limit leaves neither (`CompleteMeansWhole`).
- `docs/m17-retro-media-validation.md:36-37` has no count from media bypass the node bound. The
  ISO walk looks at the bound between directories and reads any single one whole
  (`structural.py:568`); it then does not say VALID (`MediaAreReadWhole`).
- `docs/rab-correlation-protocol-v1.md:57-58` has any inconsistency of identity reject a response.
  Records past the limit are cut off before they are compared, and an answer's state, exact state
  and errors need not agree with its records (`providers.py:154-191`, `AnswersAreEarned`).
- "Errors prevent an all-clean claim" (`scanning.py:26`) is of results: what was refused or raised
  leaves no result (`CleanIsEarned`).

Six runs end in a violation, each of one statement of the repository:

- `rab_cli`: `cli.py:83` builds a context, and so an `RABService`, for every local
  command but `rab`. Beside a live server it saves a QUEUED job FAILED; the worker
  then saves it RUNNING. A terminal state is left.
- `rab_leak`: the process dies after COMPLETE is saved and before the upload is
  removed. The start-up clean-up looks at interrupted jobs only.
- `rab_dead_worker`: a storage error in the `finally` save of `execute_queued`, once
  COMPLETE is stored, makes the `except` clause of `_worker` call
  `transition(FAILED)` from COMPLETE. That raises, the thread ends, and what is
  queued stays queued.
- `container_nested_disk`: `docs/m14c-partitioned-images.md` promises a job-total
  partition limit. A partition is charged (`containers.py:346`) when its own walk has
  returned, so the partitions inside it are admitted against a total that does not
  hold it yet, and together they pass the limit.
- `scan_lost_positive`: `docs/m11-rab-protocol.md:27` has MALICIOUS, SUSPICIOUS and PUA
  copied to quarantine. `admit()` comes last; when a step after the positive result
  raises, the job ends FAILED and its bytes are not preserved.
- `scan_attribution`: `docs/scanner-adapters.md:9` promises exact process and output
  attribution. The id of the job lies in the shared adapter while the scanner runs; a
  second worker overwrites it. It takes `worker_concurrency` of two or more; the
  default is one.

### Fairness

`FairSpec` gives weak fairness to a step of each start-up procedure, call handler,
worker and shutdown: each is a thread that runs whenever it is not blocked, and
`queue.get`, `queue.put` and the lock wake their waiters. `RestartAfterCrash` is
weakly fair because the unit has `Restart=on-failure`. Nothing makes a client
call, an administrator start the service, a CLI command run, or a crash, kill or
storage error happen; `AcceptedJobsFinish` therefore assumes that the service is
not killed in its shutdown and left down. `ContainerRecursion` and
`ScanExecution` state no liveness and need no fairness: the end of a job whose analyzers
and scanners return is `AcceptedJobsFinish`.

### Deliberate mistakes

An operator `BugX` is the definition `X` with a plausible mistake:

| Mistake | Breaks |
| --- | --- |
| `BugInterruptible`: reconciliation forgets RUNNING | `NoPhantomWork`, `AcceptedJobsFinish` |
| `BugWithoutUpload`: nothing is unlinked | `UploadIsTransient`, `StoppedIsClean` |
| `BugSameRequest`: the fingerprint is not compared | `OneJobPerKey` |
| `BugLockFree`: no intake lock | `AdmissionStillHolds` |
| `BugHasRoom`: full is seen one item late | `TypeOK` |
| `BugLeave`: the lock is kept by an exception | `CallsEnd` |
| `BugRejectUpload`: the incoming file is kept | `StoppedIsClean` |
| `BugAnswerDuplicate`: a retry enqueues the job again | `OneWorkerPerJob` |
| `BugQueueRow`: the last save of `create_queued` is missed | `QueueIsBacked` |
| `BugMayFail`: the error handler overwrites an outcome | `ImplementsContract` |
| `BugPillsDue`: one None for all workers | `ShutdownEnds` |
| `BugTooDeep`: the depth is compared one level late | `TypeOK` (walk) |
| `BugCanStartChild`: one child too many | `BudgetsHold` |
| `BugPartitionFits`: the job's partition bytes are not compared | `PartitionBudgetHolds` |
| `BugCharge`: every child is charged as a partition | `UsageIsTrue` |
| `BugObjectOf`: the last derived object instead of the one being walked | `EdgesAreTrue` |
| `BugDepthEvents`: the depth limit leaves no event | `CompleteMeansWhole` |
| `BugLeftByMaterialize`: a half-written child stays | `ChildFilesMatch` |
| `BugWalkOver`: the walk ends while a derived job runs | `TypeOK` (execution) |
| `BugHeard`: the verdict after the walk leaves out the derived objects | `VerdictIsActedOn` |
| `BugAggregate`: a CLEAN beside an ERROR wins | `CleanIsEarned` |
| `BugSkipped`: an absent scanner leaves no error | `NothingSkippedSilently` |
| `BugCompleteness`: a partial document and an erring executable are not noted | `PartialIsSaid` |
| `BugOpenIncoming`: the `.incoming` file is not opened exclusively | `QuarantineIsWhole` |
| `BugLeftStaged`: the staging directory stays | `StagingIsTransient` |
| `BugProbedRow`: a probe qualifies what was degraded | `QualificationIsEarned` |
| `BugOverlap`: partitions are compared in the order of the table | `TablesAreTrue` |
| `BugReadSize`: a read is not cut at the end of the view | `HashesCoverPartitions` |
| `BugOwned`: crosslinks are not looked for | `FatVerdictsAreTrue` |
| `BugReadChain`: a start below the first cluster is followed | `FatImagesAreReadWhole` |
| `BugMet`: an entry may be met twice | `FloppiesAreReadAlike` |
| `BugLimited`: the node limit leaves no finding | `MediaAreReadWhole` |
| `BugChainRefused`: a chain may be one longer than the limit | `CompoundFilesAreReadOrRefused` |
| `BugRun`: an isolation failure is not noticed | `VerdictsAreConservative` |
| `BugInTime`: the deadline is not looked at | `JobsAreBounded` |
| `BugBound`: a match of another object is kept | `AnswersAreEarned` |

## Proofs

`RabServiceProofs` proves, for any sets of calls, keys, meanings and workers (the
workers finitely many), any capacity and any bounds, CLI commands included:

- `TypeCorrect`. Inductive with two facts: before the poisoning phase the queue
  holds jobs only (`PillsComeLast`), which is why the drain loop may treat what
  it takes as a job; and the start-up procedure of the server runs only in phase
  `starting` (`StartsFirst`), without which the first fact would not survive
  `FinishStart`.
- `AdmissionIsStable`. Inductive with `OneHolder`, only the lock's holder is
  inside the `with`, and `CallsWhileUp`, no call executes unless the server
  serves: the latter is what keeps the `None`s of the shutdown out of a room a
  call has counted on.
- `RetriesGetTheSameJob`. Inductive with `OneRecordPerKey`, the UNIQUE constraint,
  and `AnswersAreRecorded`, an answer names a recorded job of the same request.
- `NoDoubleExecution`. Inductive with `PlaceInv`: a job whose call has not enqueued
  it is neither queued nor held, a job is queued once, and a held job is not
  queued.

Each proof is one lemma per group of actions, and a stutter or "quiet step" lemma
for those that touch nothing the invariant reads. The assumptions are
`CapacityAssumption`, `WorkersAssumption` and `DistinctAssumption` of `RabService`.

Its second part says once, per group of actions, what
a step does to a job and to a worker (`CallIs`, `WorkIs`, `DrainIs`, `DiesIs`, ...), so that the
invariants are proved against a dozen effects and not against forty actions. `ServiceInv`
joins the invariants above with

- `ProcessInv`: a process that is down has no queue and no workers, a worker holds a job
  exactly while it is at work, and only a draining shutdown has popped one;
- `JobInv`: what the `ScanJob` object that queue and workers share says, and what is
  stored at least: no row before the first `save`, no record before the INSERT;
- `PhantomInv`: an unfinished row has somebody who will see to it, also while the start-up
  procedure has listed it and not yet failed it.

From these:

- `NoJobIsForgotten`, CLI commands included: their reconciliation only ever finishes rows.
- `GracefulStopIsClean`, CLI commands included. Inductive with `StopInv`: in a process that
  has never been killed, an incoming file belongs to a call before its rename, and without
  storage errors an upload belongs to a call, a queued or held job, or the one just popped.
- `QueuedJobsAreBacked` and `UploadsAreTransient`, under `MaxCliRuns = 0`. Inductive with
  `BackedInv`: the rows then say what the process's own objects say, at each program counter;
  and with `UploadInv`: a worker dies only after it has removed the upload it held.

Its third part is the contract, also under `MaxCliRuns = 0`:

- `ServiceKeepsItsContract`, the refinement. What a client sees of a job is its row once the
  record is there; so the INSERT of `RecordJob` is `Admit` of the contract, every later `save` is an
  `Advance` the state machine allows (`JobInv` and `BackedInv` give the state it starts from), an answer
  is `Answer` (`AnswersAreRecorded` and `OneRecordPerKey` give the request it is for), and everything
  else is a stutter, death and restart included: rows and records are on disk, and the
  reconciliation of a start is an `Advance` to FAILED.
- `FinishedStaysFinished`, from the same steps.

The hypothesis `MaxCliRuns = 0` is what the code needs, not what the proof needs: a local
command runs the server's start-up procedure on the live server's rows, the run `rab_cli` shows a
finished job reopened after it, and the constant counts nothing else.

`ScanExecutionProofs` proves all eight invariants of the run `scan_execution`, for any jobs, lists of
names with repetitions, workloads, scanners, analyzers and digests (`JobsAssumption`: derived
jobs are one level deep and not submitted; `NamesAssumption`), and any number of crashes:

- `TypesHold`, `StagingIsLeftEmpty`. Inductive with `WalkOrder`, one derived job at a time and
  its parent waits for it, and `Staged`, which ties a thread's place to its status and its
  position in the list of names.
- `QualificationIsAlwaysEarned`. Inductive with `TurnIsEarned`: what a thread has read of a row
  before it writes it back was earned when it was read, and nothing un-earns it.
- `QuarantineStaysWhole`. Inductive with `OneCopies`, the `.incoming` file opened with `xb` is a lock
  on its digest, and `CopiesFit`, its file is there as long as its copier.
- `NothingIsSkippedSilently`. Inductive with `ToldOf`: every name before the loop's position has
  left its result or error, and a job
  gets past the loop only at its end.
- `PartialIsAlwaysSaid`: completeness only ever leaves COMPLETE.
- `VerdictIsAlwaysActedOn`, `CleanIsAlwaysEarned`. Inductive with `VerdictOf`: once the loop is over
  the verdict is `Aggregate` of the job's own results and of those of its derived jobs, which have
  ended and change no more. `AggregateIs` says what that function returns, for any set of verdicts.

`Without`, the names a job is derived with, is a recursive function over a list. The library's
induction theorems take an operator as parameter and cannot be used; the lemma `Induction`
of `InductionFacts`, over sets of numbers, is proved from the well-foundedness of `<` instead
(`NatLessThanWellFounded`, `WFMin`), and from it that the recursive definition has a solution
(`KeptExists`) and what it returns.

`ContainerRecursionProofs` proves, for any contents, nested in any way and holding
themselves, and any budgets (`RootAssumption`, `ContentsAssumption`,
`BudgetAssumption`). Every action does one of five things to call stack and graph
(`ActionKinds`): advance a call, return from it, give up, nothing, or take a member.

- `CallsStayShallow`. Inductive with `Nested`: the depth of a call is its height in
  the stack and the depth of its node, and only calls above the limit are opened.
- `GraphIsTrue`. Inductive with `EdgesBehind`, what hangs below the node of a call are
  members before its next one, and `OneCallPerNode`; without them a member could be
  taken twice.
- `BudgetsAlwaysHold`, from both: a child's expansion ratio is against the size of its
  parent in the graph, which `GraphIsTrue` keeps where it was.
- `CompleteIsWhole`, with the exceptions the property names. Inductive with `WholeInv`: as long as
  there is no event, error or exception, every node is whole or on the stack, and a call's node is
  taken up to its next member and not cut.
- `ChildFilesAlwaysMatch`. Inductive with `TypeOK`: files are numbered like the derived
  objects, and only `TakeMember` adds to either.

Its last part is what is counted. `Total`, the sum of a sequence, is a fold of the
community modules: it exists (`FoldExists` of `InductionFacts`), `TotalIs` unfolds it into
partial sums, and a handful of lemmas say what becomes of it when a sequence gets one more at
the end or the front.

- `CountersAreTrue`. Inductive with the invariants above: a member taken adds the same to the
  counter and to the graph, a call that returns hands on the charge it was opened with, and no
  other step touches either.
- `FlatDisksKeepTheBudget`, if the contents are `Flat`: there is a set of objects closed under
  "is taken from", with what is taken from disks in it and no disk. The run `container_nested_disk`
  shows what happens without: the partitions of an inner disk are checked against a counter
  that the partition they lie in has not reached yet. Inductive with `ChargedInside`: a call with
  an open charge, and every call above it, walks an object of that set; so while the members
  of a disk are taken no charge is open and the counter is exact.

`PartitionProofs`, for any image, any limit of partitions and any chunk size:

- `EveryTableIsTrue`, for both limits. The loop over the linked blocks is a recursive function over
  its turns; `ListWalkIs` shows that it exists and goes turn by turn. By induction over the turns:
  no more blocks are seen than the limit allows and what is kept lies in the image (`Within`), so
  that after the limit's turns and one more the walk has come to its end mark or broken off
  (`WalkEnds`); as long as there is no error, the blocks seen are a list that leads to the next
  pointer, and their pieces are what is kept (`Taking`); and along a sound list the walk takes block
  after block (`Along`). Hence a walk without an error took a sound list, and a sound list is taken
  whole. `Overlap` compares neighbours of a sorted sequence: that a sorting exists is by induction
  over the length (`SortExists`), and sorted neighbours that do not meet mean that no two do
  (`OverlapIs`). The rows of the boot record are a fold (`KeptRowsIs`).
- `EveryHashCovers`. By induction over the chunks: what has been hashed is the first sectors of
  the partition in their order, one chunk more each time until there are no more.

`MediaProofs`, for any volume and any archive, and any limits:

- `EveryVolumeIsReadWhole`. The walk over the pending directories, by induction over its turns with
  `Underway`: what is pending or seen can be reached from the root (`OnTheWay`); turns and pending
  directories together are no more than the records counted and one (`InTurns`), so that the walk
  has halted when the turns are used up; as
  long as there is no finding, what was seen is sound, all it names is pending or seen, and the
  count is the records of what was seen, each directory once (`Counted`). A halted walk without a
  finding has therefore seen a set closed under "names", which is all directories, and the other
  way round. That only a block size of zero makes the validator raise comes from the same induction.
- `EveryArchiveIsReadWhole`. The fold over the members with `Weighed`: without a finding, the
  members so far, up to the limit, are without fault and each was counted.

`CompoundProofs`, for any compound file and any limits:

- `EveryCompoundFileIsReadOrRefused`, from three walks that are recursive functions over their
  turns or folds, each shown to exist and to go step by step. A chain (`ChainIs`), with `OnChain`:
  its list is part of every closed set of sectors, holds each once, and with the current sector
  all it leads to; so a chain that came to the end mark is the whole closure, and each of the three
  refusals contradicts soundness, the one for the limit by counting. A stream (`WholeIs`,
  `SmallSectorsAre`, `CutIs`): the bytes of different sectors differ, so none is in it twice. The
  directory's tree (`TreeIs`), with `Placing`: what is placed is led to, once each, what it leads to is
  placed or among the calls, and each turn uses up one of at most three calls an entry adds, so
  that no call is left when the turns are used up, whatever cycles the links make.

`AnalysisProofs`, of the state machine `AnalyzedInputs`, whose invariant is that what was handed is
a proper input (`InputsAreProper`):

- `DisksAreTrue`, `DisksAreHashed`, `VolumesAndArchivesAreRead`, `CompoundFilesAreRead`, from the
  theorems above.
- `EveryVerdictIsConservative` and `ProcessesAreJudged`, of all seven scanners and processes with
  any exit code and any lines on their streams: the run takes some of the lines and four exit codes.
- `EveryJobIsBounded`, `NoFailureIsAbsence`, and from them `CorrelationsAreBounded` and
  `CorrelationsAreEarned`: of jobs with any number of objects, any replies with any status from 200
  to 599, saying anything, and any durations. By induction over the eligible objects with `Budgeted`
  (once an object was skipped, the job is beyond its object budget or its deadline and stays there;
  the fingerprints sent are counted) and `Answered` (a request's context is its object's reply,
  every later one is a skip). What is eligible, the run through it and the jobs of the derived
  objects are three folds, each shown to exist and to go object by object.

Model-checked only:

- `FatVerdictsAreTrue`, `FatImagesAreReadWhole` and `FloppiesAreReadAlike`, over the bounded inputs
  of `analysis_inputs`: `FatImages` and `AdfImages` walk trees with recursive operators, which the
  prover cannot take;
- liveness: fairness and `ENABLED` are beyond the prover.

Where a theorem has a hypothesis, nothing is claimed without it: `rab_cli` and
`container_nested_disk` have the counterexamples to `FinishedIsFinal` beside a command and to
`PartitionBudgetHolds` of nested disks.

## Plan

1. Proofs: the file systems, with their trees walked by a function or a stack, as compound
   files are; what one life of the service after a death still promises of uploads.
2. The Amiga HUNK loader and the VBA decompression as further readers of untrusted
   structure.
3. The compound-file reader with entries shared by storages, beside the walk that opens
   them.

## Not modelled

Parsers that read bytes in one pass (static and executable features, PDF, RTF and ZIP
documents), archive tools, YAML loading, rendering, authentication and the operator's
bootstrap script have little control to check. Names and texts, and with them the clipping
of what the remote service says, are data. Python's recursion limit is not modelled: a
directory nested deeper than about a thousand levels makes a reader raise
`RecursionError`. Neither are the 128 volume descriptors an ISO image is limited to.
