---------------------------- MODULE RabService ----------------------------
(***************************************************************************)
(* The RAB analysis-job service of src/avbox/protocol/service.py over the  *)
(* SQLite store of src/avbox/application/jobs.py: intake of an upload      *)
(* under the intake lock, the bounded in-process queue, the worker         *)
(* threads, graceful shutdown, a crash or a kill at any step, the          *)
(* reconciliation a start runs, and a storage error at any database call.  *)
(*                                                                         *)
(* One element of Jobs is one call of submit_stream; the file the call     *)
(* streams into and the job it creates when it is admitted carry the same  *)
(* identity.  Persisted state is rows, marked, records (SQLite) and        *)
(* incoming, objects (the upload directory); the rest dies with the        *)
(* process.  The local CLI builds the same service object over the same    *)
(* database, so it runs the same start-up procedure beside the server.     *)
(*                                                                         *)
(* An operator BugX is no part of the service.  It is the definition X,    *)
(* which follows it, with a plausible mistake in it; README.md says which  *)
(* property each mistake breaks.                                           *)
(***************************************************************************)
EXTENDS JobStates, Naturals, Sequences, FiniteSets

CONSTANTS
    Jobs,           \* calls of submit_stream, and the jobs they create
    Keys,           \* idempotency keys, scoped to the authenticated client
    Meanings,       \* semantic fingerprints: request id, profile, object
    Workers,        \* worker threads, settings.worker_concurrency of them
    QueueCapacity,  \* settings.queue_capacity
    NoJob,          \* no job, no row, no lock holder
    Poison,         \* the None a worker takes as its order to return
    MaxBoots,       \* bound: server starts
    MaxFaults,      \* bound: storage errors
    MaxCliRuns      \* bound: local CLI commands run beside the server

ASSUME CapacityAssumption == QueueCapacity \in Nat \ {0}
ASSUME WorkersAssumption == IsFiniteSet(Workers)
ASSUME BoundsAssumption == MaxBoots \in Nat /\ MaxFaults \in Nat /\ MaxCliRuns \in Nat
ASSUME DistinctAssumption ==
    /\ Poison \notin Jobs
    /\ NoJob \notin Jobs \cup Status \cup {Poison}

Requests == [key : Keys, meaning : Meanings]
Booters == {"server", "cli"}

VARIABLES
    phase,      \* the server process
    boots,      \* server starts so far
    booter,     \* how far each process is in the start-up procedure
    todo,       \* what the start-up step in progress still has to visit
    found,      \* interrupted_jobs # 0, per process
    cliRuns,    \* CLI commands so far
    faults,     \* storage errors so far
    pc,         \* where each call of submit_stream is
    req,        \* what each call asks for
    reply,      \* the job each answered call was given
    lock,       \* holder of the intake lock
    rows,       \* table jobs: the status column
    marked,     \* jobs whose stored errors hold the restart interruption
    records,    \* table rab_jobs
    incoming,   \* upload_root/incoming-<uuid> files
    objects,    \* upload_root/<job id>/object files
    mem,        \* status of the ScanJob object queue and worker share
    queue,      \* the bounded in-process queue
    wpc,        \* where each worker is
    wjob,       \* the job each worker holds
    popped,     \* the job shutdown has taken and not yet cleaned up
    pills       \* how many Poison shutdown still has to put

serverVars == <<phase, boots, popped, pills>>
bootVars == <<booter, todo, found>>
boundVars == <<cliRuns, faults>>
callVars == <<pc, req, reply, lock>>
storeVars == <<rows, marked, records>>
fileVars == <<incoming, objects>>
workVars == <<mem, queue, wpc, wjob>>

vars == <<serverVars, bootVars, boundVars, callVars, storeVars, fileVars, workVars>>

\* What no step of a call, of a worker's run, of a start-up procedure touches.
outsideCall == <<serverVars, bootVars, cliRuns, req, objects>>
outsideRun == <<serverVars, bootVars, cliRuns, callVars, records, fileVars, queue, wjob>>
outsideBoot == <<boots, popped, pills, boundVars, callVars, records, incoming>>

StartingUp == phase = "starting"
ShuttingDown == phase \in {"draining", "poisoning"}
Serving == phase = "up"
Alive == Serving \/ ShuttingDown

\* Calls still executing, and those of them inside `with self.lock`.
Executing == {"receive", "waiting", "locked", "created", "staged", "queued", "moved",
              "recorded", "respond"}
InLock == {"locked", "created", "staged", "queued", "moved", "recorded"}

\* Another storage error is allowed, and counted.
Fault == faults < MaxFaults /\ faults' = faults + 1

Init ==
    /\ phase = "starting" /\ boots = 1 /\ popped = NoJob /\ pills = 0
    /\ booter = [p \in Booters |-> IF p = "server" THEN "list" ELSE "off"]
    /\ todo = [p \in Booters |-> {}]
    /\ found = [p \in Booters |-> FALSE]
    /\ cliRuns = 0 /\ faults = 0
    /\ pc = [j \in Jobs |-> "idle"]
    /\ req \in [Jobs -> Requests]
    /\ reply = [j \in Jobs |-> NoJob]
    /\ lock = NoJob
    /\ rows = [j \in Jobs |-> NoJob]
    /\ marked = {} /\ records = {} /\ incoming = {} /\ objects = {}
    /\ mem = [j \in Jobs |-> NoJob]
    /\ queue = <<>>
    /\ wpc = [w \in Workers |-> "off"]
    /\ wjob = [w \in Workers |-> NoJob]

-----------------------------------------------------------------------------
(* Start-up: JobService.reconcile_interrupted, then                        *)
(* RABService._clean_interrupted_uploads, then the worker threads.         *)

BugInterruptible == {"STAGED", "QUEUED"}
Interruptible == {"STAGED", "QUEUED", "RUNNING"}

\* _remove_upload: the file and its directory go, a missing one is no error.
BugWithoutUpload(j) == objects
WithoutUpload(j) == objects \ {j}

\* jobs.list() of reconcile_interrupted: one SELECT, from here on a snapshot.
ListJobs(p) ==
    /\ booter[p] = "list"
    /\ LET stale == {j \in Jobs : rows[j] \in Interruptible}
       IN  /\ todo' = [todo EXCEPT ![p] = stale]
           /\ found' = [found EXCEPT ![p] = stale # {}]
    /\ booter' = [booter EXCEPT ![p] = "reconcile"]
    /\ UNCHANGED <<outsideBoot, phase, rows, marked, objects, workVars>>

\* One job of the snapshot is saved FAILED, whatever its row says by now.
ReconcileOne(p, j) ==
    /\ booter[p] = "reconcile"
    /\ j \in todo[p]
    /\ rows' = [rows EXCEPT ![j] = "FAILED"]
    /\ marked' = marked \cup {j}
    /\ todo' = [todo EXCEPT ![p] = @ \ {j}]
    /\ UNCHANGED <<outsideBoot, phase, booter, found, objects, workVars>>

\* The second jobs.list(): nothing to clean when no job was interrupted.
ListInterrupted(p) ==
    /\ booter[p] = "reconcile"
    /\ todo[p] = {}
    /\ todo' = [todo EXCEPT ![p] = IF found[p] THEN {j \in marked : rows[j] # NoJob} ELSE {}]
    /\ booter' = [booter EXCEPT ![p] = "clean"]
    /\ UNCHANGED <<outsideBoot, phase, found, rows, marked, objects, workVars>>

\* The path is in the job's record, which is looked up now.
CleanOne(p, j) ==
    /\ booter[p] = "clean"
    /\ j \in todo[p]
    /\ objects' = IF j \in records THEN WithoutUpload(j) ELSE objects
    /\ todo' = [todo EXCEPT ![p] = @ \ {j}]
    /\ UNCHANGED <<outsideBoot, phase, booter, found, rows, marked, workVars>>

\* The server starts its workers and serves; the CLI goes on to its command.
FinishStart(p) ==
    /\ booter[p] = "clean"
    /\ todo[p] = {}
    /\ booter' = [booter EXCEPT ![p] = "off"]
    /\ found' = [found EXCEPT ![p] = FALSE]
    /\ phase' = IF p = "server" THEN "up" ELSE phase
    /\ wpc' = IF p = "server" THEN [w \in Workers |-> "idle"] ELSE wpc
    /\ UNCHANGED <<outsideBoot, todo, rows, marked, objects, mem, queue, wjob>>

\* Any local command but `rab` builds a context, and with it an RABService.
StartCli ==
    /\ cliRuns < MaxCliRuns
    /\ booter["cli"] = "off"
    /\ cliRuns' = cliRuns + 1
    /\ booter' = [booter EXCEPT !["cli"] = "list"]
    /\ UNCHANGED <<serverVars, todo, found, faults, callVars, storeVars, fileVars,
                   workVars>>

-----------------------------------------------------------------------------
(* Intake: submit_stream.                                                  *)

\* The recorded jobs under the key of call j.
SameKey(j) == {k \in records : req[k].key = req[j].key}

BugSameRequest(j, k) == TRUE
SameRequest(j, k) == req[k] = req[j]

BugLockFree == TRUE
LockFree == lock = NoJob

BugHasRoom == Len(queue) <= QueueCapacity
HasRoom == Len(queue) < QueueCapacity

\* Call j leaves by a refusal or an exception: its incoming file is unlinked, and
\* the lock released if it holds it.  What it has saved stays.
BugLeave(j, to) ==
    /\ pc' = [pc EXCEPT ![j] = to]
    /\ incoming' = incoming \ {j}
    /\ UNCHANGED lock
Leave(j, to) ==
    /\ pc' = [pc EXCEPT ![j] = to]
    /\ incoming' = incoming \ {j}
    /\ lock' = IF pc[j] \in InLock THEN NoJob ELSE lock

\* The call opens incoming-<uuid> and streams the body into it.
Receive(j) ==
    /\ Serving
    /\ pc[j] = "idle"
    /\ pc' = [pc EXCEPT ![j] = "receive"]
    /\ incoming' = incoming \cup {j}
    /\ UNCHANGED <<outsideCall, faults, reply, lock, storeVars, workVars>>

\* The body is too large, does not hash to the declared value, or breaks off.
BugRejectUpload(j) ==
    /\ pc[j] = "receive"
    /\ pc' = [pc EXCEPT ![j] = "rejected"]
    /\ UNCHANGED <<outsideCall, faults, incoming, reply, lock, storeVars, workVars>>
RejectUpload(j) ==
    /\ pc[j] = "receive"
    /\ Leave(j, "rejected")
    /\ UNCHANGED <<outsideCall, faults, reply, storeVars, workVars>>

\* The body is complete and hashes to the declared value.
AcceptUpload(j) ==
    /\ pc[j] = "receive"
    /\ pc' = [pc EXCEPT ![j] = "waiting"]
    /\ UNCHANGED <<outsideCall, faults, incoming, reply, lock, storeVars, workVars>>

\* `with self.lock`.
Acquire(j) ==
    /\ pc[j] = "waiting"
    /\ LockFree
    /\ lock' = j
    /\ pc' = [pc EXCEPT ![j] = "locked"]
    /\ UNCHANGED <<outsideCall, faults, incoming, reply, storeVars, workVars>>

\* The key is known with the same fingerprint: the recorded job is the answer.
BugAnswerDuplicate(j) ==
    /\ pc[j] = "locked"
    /\ \E k \in SameKey(j) :
          /\ SameRequest(j, k) /\ HasRoom
          /\ reply' = [reply EXCEPT ![j] = k]
          /\ queue' = Append(queue, k)
    /\ Leave(j, "accepted")
    /\ UNCHANGED <<outsideCall, faults, storeVars, mem, wpc, wjob>>
AnswerDuplicate(j) ==
    /\ pc[j] = "locked"
    /\ \E k \in SameKey(j) :
          /\ SameRequest(j, k) /\ rows[k] # NoJob
          /\ reply' = [reply EXCEPT ![j] = k]
    /\ Leave(j, "accepted")
    /\ UNCHANGED <<outsideCall, faults, storeVars, workVars>>

\* The refusals under the lock: 409 for a known key with another fingerprint; for
\* a new key 503, when an analyzer of the profile is not qualified (which is
\* decided outside this module, so it may be so at any time), or 429, no room.
RefuseInLock(j) ==
    /\ pc[j] = "locked"
    /\ \/ \E k \in SameKey(j) : ~SameRequest(j, k)
       \/ SameKey(j) = {}
    /\ Leave(j, "rejected")
    /\ UNCHANGED <<outsideCall, faults, reply, storeVars, workVars>>

\* create_queued: the new job is saved CREATED, then STAGED, then QUEUED.
SaveNew(j, from, to, status) ==
    /\ pc[j] = from
    /\ pc' = [pc EXCEPT ![j] = to]
    /\ rows' = [rows EXCEPT ![j] = status]
    /\ mem' = [mem EXCEPT ![j] = status]
    /\ marked' = marked \ {j}
    /\ UNCHANGED <<outsideCall, faults, incoming, reply, lock, records, queue, wpc, wjob>>

CreateRow(j) == SameKey(j) = {} /\ HasRoom /\ SaveNew(j, "locked", "created", "CREATED")
StageRow(j) == SaveNew(j, "created", "staged", "STAGED")
BugQueueRow(j) == SaveNew(j, "staged", "queued", "STAGED")
QueueRow(j) == SaveNew(j, "staged", "queued", "QUEUED")

\* mkdir <job id>, rename incoming-<uuid> to <job id>/object.
MoveUpload(j) ==
    /\ pc[j] = "queued"
    /\ pc' = [pc EXCEPT ![j] = "moved"]
    /\ incoming' = incoming \ {j}
    /\ objects' = objects \cup {j}
    /\ UNCHANGED <<serverVars, bootVars, boundVars, req, reply, lock, storeVars, workVars>>

\* save_rab_job: a plain INSERT against UNIQUE(client_id, idempotency_key).
RecordJob(j) ==
    /\ pc[j] = "moved"
    /\ IF SameKey(j) = {}
       THEN /\ pc' = [pc EXCEPT ![j] = "recorded"]
            /\ records' = records \cup {j}
            /\ UNCHANGED <<lock, incoming>>
       ELSE Leave(j, "failed") /\ UNCHANGED records
    /\ UNCHANGED <<outsideCall, faults, reply, rows, marked, workVars>>

\* queue.put_nowait, which raises on a full queue, and the release of the lock.
Enqueue(j) ==
    /\ pc[j] = "recorded"
    /\ IF Len(queue) < QueueCapacity
       THEN /\ queue' = Append(queue, j)
            /\ lock' = NoJob
            /\ pc' = [pc EXCEPT ![j] = "respond"]
            /\ UNCHANGED incoming
       ELSE Leave(j, "failed") /\ UNCHANGED queue
    /\ UNCHANGED <<outsideCall, faults, reply, storeVars, mem, wpc, wjob>>

\* accepted() reads row and record back (404 without them) and names the job.
Respond(j) ==
    /\ pc[j] = "respond"
    /\ IF rows[j] # NoJob /\ j \in records
       THEN /\ reply' = [reply EXCEPT ![j] = j]
            /\ pc' = [pc EXCEPT ![j] = "accepted"]
            /\ UNCHANGED <<lock, incoming>>
       ELSE Leave(j, "failed") /\ UNCHANGED reply
    /\ UNCHANGED <<outsideCall, faults, storeVars, workVars>>

\* A database call of the handler (or mkdir, rename) raises.
CallFault(j) ==
    /\ pc[j] \in Executing \ {"receive", "waiting", "recorded"}
    /\ Fault
    /\ Leave(j, "failed")
    /\ UNCHANGED <<outsideCall, reply, storeVars, workVars>>

Handler(j) ==
    \/ RejectUpload(j) \/ AcceptUpload(j) \/ Acquire(j) \/ AnswerDuplicate(j)
    \/ RefuseInLock(j)
    \/ CreateRow(j) \/ StageRow(j) \/ QueueRow(j) \/ MoveUpload(j)
    \/ RecordJob(j) \/ Enqueue(j) \/ Respond(j)

-----------------------------------------------------------------------------
(* The worker threads: _worker around ScanService.execute_queued.          *)

\* queue.get(); None ends the thread.
Get(w) ==
    /\ Alive
    /\ wpc[w] = "idle"
    /\ queue # <<>>
    /\ queue' = Tail(queue)
    /\ IF Head(queue) = Poison
       THEN /\ wpc' = [wpc EXCEPT ![w] = "exited"]
            /\ UNCHANGED wjob
       ELSE /\ wpc' = [wpc EXCEPT ![w] = "got"]
            /\ wjob' = [wjob EXCEPT ![w] = Head(queue)]
    /\ UNCHANGED <<serverVars, bootVars, boundVars, callVars, storeVars, fileVars, mem>>

\* Worker w sets the job object it holds to status s and saves it, then goes on to
\* `next`; or the save raises, the object is changed all the same, and the worker
\* goes to `error`.  The saved document is the worker's own: no restart marker.
SaveRun(w, s, next, error) ==
    /\ mem' = [mem EXCEPT ![wjob[w]] = s]
    /\ \/ /\ rows' = [rows EXCEPT ![wjob[w]] = s]
          /\ marked' = marked \ {wjob[w]}
          /\ wpc' = [wpc EXCEPT ![w] = next]
          /\ UNCHANGED faults
       \/ /\ Fault
          /\ wpc' = [wpc EXCEPT ![w] = error]
          /\ UNCHANGED <<rows, marked>>
    /\ UNCHANGED outsideRun

\* execute_queued moves the job to RUNNING before it opens its try block.
Begin(w) ==
    /\ wpc[w] = "got"
    /\ mem[wjob[w]] = "QUEUED"
    /\ SaveRun(w, "RUNNING", "running", "failing")

\* The scan ends in a verdict, or in an exception: the upload is hashed again at
\* the end, so a run whose upload is gone can only fail.  If the save of the
\* outcome raises, the except clause has no move from COMPLETE or QUARANTINED to
\* FAILED and raises too: the finally clause runs with an exception pending.
End(w) ==
    /\ wpc[w] = "running"
    /\ \E s \in IF wjob[w] \in objects THEN Finished ELSE {"FAILED"} :
          SaveRun(w, s, "saving", "unwinding")

\* The finally clause: staging is removed and the job saved again.
FinalSave(w) ==
    /\ wpc[w] \in {"saving", "unwinding"}
    /\ SaveRun(w, mem[wjob[w]],
               IF wpc[w] = "saving" THEN "reporting" ELSE "failing", "failing")

\* _worker reads the job back for its log line.
ReadBack(w) ==
    /\ wpc[w] = "reporting"
    /\ \/ wpc' = [wpc EXCEPT ![w] = "cleaning"] /\ UNCHANGED faults
       \/ wpc' = [wpc EXCEPT ![w] = "failing"] /\ Fault
    /\ UNCHANGED <<outsideRun, mem, rows, marked>>

BugMayFail(status) == TRUE
MayFail(status) == status = "FAILED" \/ CanTransition(status, "FAILED")

\* The except clause of _worker: the stored job goes to FAILED if it is not FAILED
\* yet.  From COMPLETE or QUARANTINED that raises, as a failing database call does:
\* the thread dies after its finally clause.
HandleError(w) ==
    /\ wpc[w] = "failing"
    /\ \/ /\ MayFail(rows[wjob[w]])
          /\ rows' = [rows EXCEPT ![wjob[w]] = "FAILED"]
          /\ wpc' = [wpc EXCEPT ![w] = "cleaning"]
          /\ UNCHANGED faults
       \/ /\ \/ ~MayFail(rows[wjob[w]]) /\ UNCHANGED faults
             \/ Fault
          /\ wpc' = [wpc EXCEPT ![w] = "dying"]
          /\ UNCHANGED rows
    /\ UNCHANGED <<outsideRun, mem, marked>>

\* The finally clause of _worker: the upload is removed; the thread goes on to the
\* next item, or ends with the exception that is pending.
RemoveUpload(w) ==
    /\ wpc[w] \in {"cleaning", "dying"}
    /\ objects' = WithoutUpload(wjob[w])
    /\ mem' = [mem EXCEPT ![wjob[w]] = NoJob]
    /\ IF wpc[w] = "cleaning"
       THEN /\ wpc' = [wpc EXCEPT ![w] = "idle"]
            /\ wjob' = [wjob EXCEPT ![w] = NoJob]
       ELSE /\ wpc' = [wpc EXCEPT ![w] = "dead"]
            /\ UNCHANGED wjob
    /\ UNCHANGED <<serverVars, bootVars, boundVars, callVars, storeVars, incoming, queue>>

Work(w) ==
    \/ Get(w) \/ Begin(w) \/ End(w) \/ FinalSave(w) \/ ReadBack(w)
    \/ HandleError(w) \/ RemoveUpload(w)

-----------------------------------------------------------------------------
(* RABService.shutdown, which the API runs once no request is being served. *)

BeginShutdown ==
    /\ Serving
    /\ \A j \in Jobs : pc[j] \notin Executing
    /\ phase' = "draining"
    /\ UNCHANGED <<boots, popped, pills, bootVars, boundVars, callVars, storeVars,
                   fileVars, workVars>>

\* queue.get_nowait() hands shutdown a job, which is saved FAILED.
DrainOne ==
    /\ phase = "draining"
    /\ popped = NoJob
    /\ queue # <<>>
    /\ popped' = Head(queue)
    /\ queue' = Tail(queue)
    /\ rows' = [rows EXCEPT ![Head(queue)] = "FAILED"]
    /\ mem' = [mem EXCEPT ![Head(queue)] = NoJob]
    /\ marked' = marked \ {Head(queue)}
    /\ UNCHANGED <<phase, boots, pills, bootVars, boundVars, callVars, records, fileVars,
                   wpc, wjob>>

DrainCleanUp ==
    /\ popped # NoJob
    /\ objects' = WithoutUpload(popped)
    /\ popped' = NoJob
    /\ UNCHANGED <<phase, boots, pills, bootVars, boundVars, callVars, storeVars,
                   incoming, workVars>>

BugPillsDue == 1
PillsDue == Cardinality(Workers)

\* queue.Empty ends the loop; one None is due per worker.
DrainDone ==
    /\ phase = "draining"
    /\ popped = NoJob
    /\ queue = <<>>
    /\ phase' = "poisoning"
    /\ pills' = PillsDue
    /\ UNCHANGED <<boots, popped, bootVars, boundVars, callVars, storeVars, fileVars,
                   workVars>>

\* queue.put(None) waits for room.
PutPill ==
    /\ phase = "poisoning"
    /\ pills > 0
    /\ HasRoom
    /\ queue' = Append(queue, Poison)
    /\ pills' = pills - 1
    /\ UNCHANGED <<phase, boots, popped, bootVars, boundVars, callVars, storeVars,
                   fileVars, mem, wpc, wjob>>

\* worker.join() for every worker, dead ones included, and the process ends.
Join ==
    /\ phase = "poisoning"
    /\ pills = 0
    /\ \A w \in Workers : wpc[w] \in {"exited", "dead"}
    /\ phase' = "stopped"
    /\ wpc' = [w \in Workers |-> "off"]
    /\ wjob' = [w \in Workers |-> NoJob]
    /\ queue' = <<>>
    /\ UNCHANGED <<boots, popped, pills, bootVars, boundVars, callVars, storeVars,
                   fileVars, mem>>

Shutdown == DrainOne \/ DrainCleanUp \/ DrainDone \/ PutPill \/ Join

-----------------------------------------------------------------------------
(* The process dies: everything outside SQLite and the upload directory is  *)
(* lost.  A crash is restarted by systemd (Restart=on-failure); a stop that *)
(* outlasts TimeoutStopSec ends in a kill, and stays down until an          *)
(* administrator starts the service again.                                  *)

LoseMemory ==
    /\ booter' = [booter EXCEPT !["server"] = "off"]
    /\ todo' = [todo EXCEPT !["server"] = {}]
    /\ found' = [found EXCEPT !["server"] = FALSE]
    /\ pc' = [j \in Jobs |-> IF pc[j] \in Executing THEN "lost" ELSE pc[j]]
    /\ lock' = NoJob
    /\ mem' = [j \in Jobs |-> NoJob]
    /\ queue' = <<>>
    /\ wpc' = [w \in Workers |-> "off"]
    /\ wjob' = [w \in Workers |-> NoJob]
    /\ popped' = NoJob
    /\ pills' = 0
    /\ UNCHANGED <<boots, cliRuns, req, reply, storeVars, fileVars>>

Crash ==
    /\ StartingUp \/ Serving
    /\ boots < MaxBoots
    /\ phase' = "crashed"
    /\ LoseMemory
    /\ UNCHANGED faults

KillStop ==
    /\ ShuttingDown
    /\ phase' = "killed"
    /\ LoseMemory
    /\ UNCHANGED faults

\* The save of a drained job raises: shutdown() is left with the job still stored
\* QUEUED and the rest of the queue undrained, and the process exits.
DrainFault ==
    /\ phase = "draining"
    /\ popped = NoJob
    /\ queue # <<>>
    /\ Fault
    /\ phase' = "killed"
    /\ LoseMemory

Start ==
    /\ boots < MaxBoots
    /\ phase' = "starting"
    /\ boots' = boots + 1
    /\ booter' = [booter EXCEPT !["server"] = "list"]
    /\ UNCHANGED <<popped, pills, todo, found, boundVars, callVars, storeVars, fileVars,
                   workVars>>

RestartAfterCrash == phase = "crashed" /\ Start
StartAgain == phase \in {"stopped", "killed"} /\ Start

\* The service is down for good: the one state that may have no successor.
StayDown == phase \in {"stopped", "killed"} /\ UNCHANGED vars

-----------------------------------------------------------------------------

BootStep(p) ==
    \/ ListJobs(p) \/ ListInterrupted(p) \/ FinishStart(p)
    \/ \E j \in Jobs : ReconcileOne(p, j) \/ CleanOne(p, j)

Next ==
    \/ \E p \in Booters : BootStep(p)
    \/ StartCli
    \/ \E j \in Jobs : Receive(j) \/ Handler(j) \/ CallFault(j)
    \/ \E w \in Workers : Work(w)
    \/ BeginShutdown \/ Shutdown
    \/ Crash \/ KillStop \/ DrainFault \/ RestartAfterCrash \/ StartAgain \/ StayDown

Spec == Init /\ [][Next]_vars

\* Threads that can run do run, systemd restarts what crashed; nothing makes a
\* client call, an administrator act or a fault happen.
Fairness ==
    /\ \A p \in Booters : WF_vars(BootStep(p))
    /\ \A j \in Jobs : WF_vars(Handler(j))
    /\ \A w \in Workers : WF_vars(Work(w))
    /\ WF_vars(Shutdown)
    /\ WF_vars(RestartAfterCrash)

FairSpec == Spec /\ Fairness

-----------------------------------------------------------------------------
(* Properties.                                                             *)

\* Every variable keeps its type, and the queue its bound.
TypeOK ==
    /\ phase \in {"starting", "up", "draining", "poisoning", "stopped",
                  "crashed", "killed"}
    /\ boots \in Nat /\ cliRuns \in Nat /\ faults \in Nat /\ pills \in Nat
    /\ booter \in [Booters -> {"off", "list", "reconcile", "clean"}]
    /\ todo \in [Booters -> SUBSET Jobs]
    /\ found \in [Booters -> BOOLEAN]
    /\ pc \in [Jobs -> Executing \cup
                       {"idle", "accepted", "rejected", "failed", "lost"}]
    /\ req \in [Jobs -> Requests]
    /\ reply \in [Jobs -> Jobs \cup {NoJob}]
    /\ lock \in Jobs \cup {NoJob}
    /\ rows \in [Jobs -> Status \cup {NoJob}]
    /\ marked \subseteq Jobs /\ records \subseteq Jobs
    /\ incoming \subseteq Jobs /\ objects \subseteq Jobs
    /\ mem \in [Jobs -> Status \cup {NoJob}]
    /\ queue \in Seq(Jobs \cup {Poison})
    /\ Len(queue) <= QueueCapacity
    /\ wpc \in [Workers -> {"off", "idle", "got", "running", "saving",
                            "unwinding", "reporting", "failing", "cleaning",
                            "dying", "exited", "dead"}]
    /\ wjob \in [Workers -> Jobs \cup {NoJob}]
    /\ popped \in Jobs \cup {NoJob}

\* What submit_stream finds out first stays true while it uses it: until the
\* record is inserted no other call has taken the key (three commits, a mkdir and
\* a rename later), and until put_nowait the queue has room, however many workers,
\* calls and faults come between.
AdmissionStillHolds ==
    \A j \in Jobs :
        /\ pc[j] \in {"created", "staged", "queued", "moved"} => SameKey(j) = {}
        /\ pc[j] \in InLock \ {"locked"} => HasRoom

\* Whatever retries, crashes and restarts happen, two clients' calls with one
\* idempotency key are given the same job, and only if they asked for the same.
OneJobPerKey ==
    \A a, b \in Jobs :
        (reply[a] # NoJob /\ reply[b] # NoJob /\ req[a].key = req[b].key)
            => reply[a] = reply[b] /\ req[a] = req[b]

QueuedJobs == {queue[i] : i \in DOMAIN queue} \ {Poison}

\* A queued item is what the worker will assume it is: saved QUEUED, recorded,
\* its upload in place, queued once and in nobody's hands.
QueueIsBacked ==
    /\ \A j \in QueuedJobs :
          /\ rows[j] = "QUEUED" /\ mem[j] = "QUEUED"
          /\ j \in records /\ j \in objects
          /\ \A w \in Workers : wjob[w] # j
    /\ \A m, n \in DOMAIN queue : (queue[m] = queue[n] /\ queue[m] # Poison) => m = n

\* No phantom work: while the server runs, a job stored as staged, queued or
\* running is in the queue, with a worker, or in the hands of its own call.  The
\* leftovers of a storage error are the exception the code makes: the row of a call
\* that failed, and the job of a worker thread that died.
NoPhantomWork ==
    Alive =>
        \A j \in Jobs :
            rows[j] \in Status \ (Finished \cup {"CREATED"}) =>
                \/ j \in QueuedJobs
                \/ \E w \in Workers : wjob[w] = j
                \/ pc[j] \in Executing
                \/ pc[j] = "failed" /\ faults > 0

\* Two threads never execute one job.
OneWorkerPerJob ==
    \A v, w \in Workers : (wjob[v] = wjob[w] /\ wjob[v] # NoJob) => v = w

\* As long as the process has not died, an upload outlives its job only until the
\* worker or the shutdown that finished the job gets to its next step.
UploadIsTransient ==
    (Alive /\ boots = 1) =>
        \A j \in objects :
            rows[j] \in Finished =>
                \/ popped = j
                \/ \E w \in Workers : wjob[w] = j /\ wpc[w] # "dead"

\* A graceful stop leaves no unfinished job, no upload and no incoming file, even
\* when workers take items while shutdown drains the queue.
StoppedIsClean ==
    (phase = "stopped" /\ boots = 1 /\ faults = 0) =>
        /\ \A j \in Jobs : rows[j] \in Finished \cup {NoJob}
        /\ objects = {} /\ incoming = {}

\* A stored job that has finished keeps its state: "FAILED and QUARANTINED are
\* terminal" (docs/job-lifecycle.md).
FinishedIsFinal ==
    [][\A j \in Jobs : rows[j] \in Finished => rows'[j] = rows[j]]_vars

\* What status() and results() show of a job: nothing without a row and a record.
Shown(j) == IF j \in records THEN rows[j] ELSE NoJob

Contract == INSTANCE RabContract WITH
    view <- [j \in Jobs |-> Shown(j)],
    asked <- [j \in Jobs |-> IF j \in records THEN req[j] ELSE NoJob],
    answers <- {<<req[j], reply[j]>> : j \in {k \in Jobs : reply[k] # NoJob}}

\* The service implements RabContract: through queue, workers, storage errors and
\* restarts, what status() and results() show moves only along the state machine
\* and never out of a finished state, a job appears QUEUED under a key that is new,
\* and submit_stream() names only the job admitted for the very same request.
ImplementsContract == Contract!Spec

-----------------------------------------------------------------------------
\* Every call is answered, refused or lost with the process that served it.
CallsEnd == \A j \in Jobs : pc[j] \in Executing ~> pc[j] \notin Executing

\* Every accepted job finishes: "bounded workers transition RUNNING to COMPLETE/
\* QUARANTINED/FAILED" and a restart leaves no phantom work (docs/job-lifecycle.md).
\* Only a service that was killed and is never started again leaves a job behind.
AcceptedJobsFinish ==
    []<>(phase # "killed") =>
        \A j \in Jobs : Shown(j) # NoJob ~> Shown(j) \in Finished

\* shutdown() returns, unless systemd kills the process first.
ShutdownEnds == ShuttingDown ~> phase \in {"stopped", "killed"}

\* While the service keeps serving, the upload of a completed job goes away:
\* "Clean: retain job/results and delete uploaded/staging bytes"
\* (docs/m11-rab-protocol.md).
UploadsGoAway ==
    []<>Serving => \A j \in Jobs : Shown(j) = "COMPLETE" ~> j \notin objects
=============================================================================
