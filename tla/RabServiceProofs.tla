------------------------- MODULE RabServiceProofs -------------------------
(***************************************************************************)
(* Theorems about RabService, for any number of calls, keys and workers,   *)
(* any queue capacity and any bounds: intake and the workers; where a      *)
(* stored job and its upload are while the service runs; what a stop       *)
(* leaves; and that the service implements RabContract as long as no local *)
(* command reconciles beside it.                                           *)
(***************************************************************************)
EXTENDS RabService, FiniteSetTheorems, TLAPS

\* Workers are told to stop only after the queue has been drained of jobs, so what
\* shutdown takes while it drains is a job.
PillsComeLast == phase # "poisoning" => queue \in Seq(Jobs)

\* The server runs the start-up procedure only before it serves.
StartsFirst == booter["server"] # "off" => phase = "starting"

TypeInv == TypeOK /\ PillsComeLast /\ StartsFirst

\* The two ends of the bounded queue.
LEMMA AppendBounded ==
  ASSUME NEW T, NEW x \in T, NEW q \in Seq(T), Len(q) < QueueCapacity
  PROVE  Append(q, x) \in Seq(T) /\ Len(Append(q, x)) <= QueueCapacity
  BY CapacityAssumption

LEMMA TailBounded ==
  ASSUME NEW T, NEW q \in Seq(T), q # <<>>, Len(q) <= QueueCapacity
  PROVE  Head(q) \in T /\ Tail(q) \in Seq(T) /\ Len(Tail(q)) <= QueueCapacity
  BY CapacityAssumption

\* A function updated at any point, of its domain or not, keeps its type.
LEMMA UpdateType ==
  ASSUME NEW S, NEW T, NEW f \in [S -> T], NEW x, NEW v, x \in S => v \in T
  PROVE  [f EXCEPT ![x] = v] \in [S -> T]
  OBVIOUS

LEMMA InitTypeInv == Init => TypeInv
  <1> SUFFICES ASSUME Init PROVE TypeInv
    OBVIOUS
  <1> USE DEF Init
  <1>1. TypeOK
    BY CapacityAssumption DEF TypeOK, Status, Booters, Executing
  <1>2. PillsComeLast
    BY DEF PillsComeLast
  <1>3. StartsFirst
    BY DEF StartsFirst, Booters
  <1> QED
    BY <1>1, <1>2, <1>3 DEF TypeInv

\* The start-up procedure, of the server and of the CLI, keeps every type.
LEMMA BootTypeInv ==
  ASSUME TypeInv, NEW p \in Booters, BootStep(p)
  PROVE  TypeInv'
  <1> USE DEF TypeInv, TypeOK, PillsComeLast, StartsFirst, serverVars, bootVars, boundVars,
              callVars, storeVars, fileVars, workVars, outsideBoot
  <1>1. CASE ListJobs(p)
    BY <1>1 DEF ListJobs
  <1>2. CASE ListInterrupted(p)
    BY <1>2 DEF ListInterrupted
  <1>3. CASE FinishStart(p)
    <2>1. CASE p = "server"
      BY <1>3, <2>1 DEF FinishStart, Booters
    <2>2. CASE p = "cli"
      BY <1>3, <2>2 DEF FinishStart, Booters
    <2> QED
      BY <2>1, <2>2 DEF Booters
  <1>4. ASSUME NEW j \in Jobs, ReconcileOne(p, j) PROVE TypeInv'
    BY <1>4 DEF ReconcileOne, Status
  <1>5. ASSUME NEW j \in Jobs, CleanOne(p, j) PROVE TypeInv'
    BY <1>5 DEF CleanOne, WithoutUpload
  <1> HIDE DEF TypeInv
  <1> QED
    BY <1>1, <1>2, <1>3, <1>4, <1>5 DEF BootStep

\* So does every step of submit_stream.
LEMMA CallTypeInv ==
  ASSUME TypeInv, NEW j \in Jobs, Receive(j) \/ Handler(j) \/ CallFault(j)
  PROVE  TypeInv'
  <1> USE DEF TypeInv, TypeOK, PillsComeLast, StartsFirst, serverVars, bootVars, boundVars,
              callVars, storeVars, fileVars, workVars, outsideCall, Executing
  <1>1. CASE Receive(j)
    BY <1>1 DEF Receive
  <1>2. CASE RejectUpload(j)
    BY <1>2 DEF RejectUpload, Leave
  <1>3. CASE AcceptUpload(j) \/ Acquire(j)
    BY <1>3 DEF AcceptUpload, Acquire
  <1>4. CASE AnswerDuplicate(j)
    BY <1>4 DEF AnswerDuplicate, Leave, SameKey
  <1>5. CASE RefuseInLock(j)
    BY <1>5 DEF RefuseInLock, Leave
  <1>6. CASE CreateRow(j)
    BY <1>6 DEF CreateRow, SaveNew, Status
  <1>7. CASE StageRow(j)
    BY <1>7 DEF StageRow, SaveNew, Status
  <1>8. CASE QueueRow(j)
    BY <1>8 DEF QueueRow, SaveNew, Status
  <1>9. CASE MoveUpload(j)
    BY <1>9 DEF MoveUpload
  <1>10. CASE RecordJob(j)
    BY <1>10 DEF RecordJob, Leave
  <1>11. CASE Enqueue(j)
    <2>1. CASE Len(queue) < QueueCapacity
      <3>1. queue' = Append(queue, j)
        BY <1>11, <2>1 DEF Enqueue
      <3>2. queue \in Seq(Jobs \cup {Poison}) /\ j \in Jobs \cup {Poison}
        OBVIOUS
      <3>3. queue' \in Seq(Jobs \cup {Poison}) /\ Len(queue') <= QueueCapacity
        BY ONLY <2>1, <3>1, <3>2, AppendBounded
      <3>4. phase # "poisoning" => queue' \in Seq(Jobs)
        <4>1. ASSUME queue \in Seq(Jobs) PROVE queue' \in Seq(Jobs)
          BY ONLY <2>1, <3>1, <4>1, j \in Jobs, AppendBounded
        <4> QED
          BY <4>1
      <3> QED
        BY <1>11, <2>1, <3>3, <3>4 DEF Enqueue
    <2>2. CASE ~(Len(queue) < QueueCapacity)
      BY <1>11, <2>2 DEF Enqueue, Leave
    <2> QED
      BY <2>1, <2>2
  <1>12. CASE Respond(j)
    BY <1>12 DEF Respond, Leave
  <1>13. CASE CallFault(j)
    BY <1>13 DEF CallFault, Leave, Fault
  <1> HIDE DEF TypeInv
  <1> QED
    BY <1>1, <1>2, <1>3, <1>4, <1>5, <1>6, <1>7, <1>8, <1>9, <1>10, <1>11, <1>12, <1>13
       DEF Handler

\* Every step of a worker thread.
LEMMA WorkTypeInv ==
  ASSUME TypeInv, NEW w \in Workers, Work(w)
  PROVE  TypeInv'
  <1> USE DEF TypeInv, TypeOK, PillsComeLast, StartsFirst, serverVars, bootVars, boundVars,
              callVars, storeVars, fileVars, workVars, outsideRun
  <1>1. CASE Get(w)
    <2>1. queue \in Seq(Jobs \cup {Poison}) /\ queue # <<>> /\ Len(queue) <= QueueCapacity
      BY <1>1 DEF Get
    <2>2. queue' = Tail(queue)
      BY <1>1 DEF Get
    <2>3. /\ Head(queue) \in Jobs \cup {Poison}
          /\ queue' \in Seq(Jobs \cup {Poison}) /\ Len(queue') <= QueueCapacity
      BY ONLY <2>1, <2>2, TailBounded
    <2>4. phase # "poisoning" => queue' \in Seq(Jobs)
      <3>1. ASSUME queue \in Seq(Jobs) PROVE queue' \in Seq(Jobs)
        BY ONLY <2>1, <2>2, <3>1, TailBounded
      <3> QED
        BY <3>1
    <2> QED
      BY <1>1, <2>3, <2>4 DEF Get
  <1>2. ASSUME NEW s, wjob[w] \in Jobs => s \in Status \cup {NoJob}, NEW next, NEW error,
               SaveRun(w, s, next, error),
               {next, error} \subseteq {"running", "saving", "unwinding", "reporting",
                                        "failing"}
        PROVE  TypeInv'
    <2>1. mem' \in [Jobs -> Status \cup {NoJob}]
      BY <1>2, UpdateType DEF SaveRun
    <2>2. rows' \in [Jobs -> Status \cup {NoJob}]
      <3>1. rows' = [rows EXCEPT ![wjob[w]] = s] \/ rows' = rows
        BY <1>2 DEF SaveRun
      <3>2. rows \in [Jobs -> Status \cup {NoJob}]
        OBVIOUS
      <3> QED
        BY ONLY <1>2, <3>1, <3>2, UpdateType
    <2>3. /\ wpc' \in [Workers -> {"off", "idle", "got", "running", "saving",
                                    "unwinding", "reporting", "failing", "cleaning",
                                    "dying", "exited", "dead"}]
          /\ marked' \subseteq Jobs /\ faults' \in Nat
      BY <1>2 DEF SaveRun, Fault
    <2> QED
      BY <1>2, <2>1, <2>2, <2>3 DEF SaveRun
  <1>3. CASE Begin(w)
    BY <1>2, <1>3 DEF Begin, Status
  <1>4. CASE End(w)
    BY <1>2, <1>4 DEF End, Status, Finished
  <1>5. CASE FinalSave(w)
    BY <1>2, <1>5 DEF FinalSave
  <1>6. CASE ReadBack(w)
    BY <1>6 DEF ReadBack, Fault
  <1>7. CASE HandleError(w)
    <2>1. rows' \in [Jobs -> Status \cup {NoJob}]
      BY <1>7, UpdateType, "FAILED" \in Status \cup {NoJob} DEF HandleError, Status
    <2> QED
      BY <1>7, <2>1 DEF HandleError, Fault
  <1>8. CASE RemoveUpload(w)
    BY <1>8 DEF RemoveUpload, WithoutUpload
  <1> HIDE DEF TypeInv
  <1> QED
    BY <1>1, <1>3, <1>4, <1>5, <1>6, <1>7, <1>8 DEF Work

\* Every step of a graceful shutdown.
LEMMA ShutdownTypeInv ==
  ASSUME TypeInv, BeginShutdown \/ Shutdown
  PROVE  TypeInv'
  <1> USE DEF TypeInv, TypeOK, PillsComeLast, StartsFirst, serverVars, bootVars, boundVars,
              callVars, storeVars, fileVars, workVars
  <1>1. CASE BeginShutdown
    BY <1>1 DEF BeginShutdown, Serving
  <1>2. CASE DrainOne
    <2>1. queue \in Seq(Jobs) /\ queue # <<>> /\ Len(queue) <= QueueCapacity
      BY <1>2 DEF DrainOne
    <2>2. queue' = Tail(queue)
      BY <1>2 DEF DrainOne
    <2>3. Head(queue) \in Jobs /\ queue' \in Seq(Jobs) /\ Len(queue') <= QueueCapacity
      BY ONLY <2>1, <2>2, TailBounded
    <2>4. queue' \in Seq(Jobs \cup {Poison})
      BY <2>3
    <2> QED
      BY <1>2, <2>3, <2>4 DEF DrainOne, Status
  <1>3. CASE DrainCleanUp
    BY <1>3 DEF DrainCleanUp, WithoutUpload
  <1>4. CASE DrainDone
    <2>1. pills' \in Nat
      BY <1>4, WorkersAssumption, FS_CardinalityType DEF DrainDone, PillsDue
    <2> QED
      BY <1>4, <2>1 DEF DrainDone
  <1>5. CASE PutPill
    <2>1. queue \in Seq(Jobs \cup {Poison}) /\ Len(queue) < QueueCapacity
      BY <1>5 DEF PutPill, HasRoom
    <2>2. queue' = Append(queue, Poison)
      BY <1>5 DEF PutPill
    <2>3. queue' \in Seq(Jobs \cup {Poison}) /\ Len(queue') <= QueueCapacity
      BY ONLY <2>1, <2>2, AppendBounded, Poison \in Jobs \cup {Poison}
    <2> QED
      BY <1>5, <2>3 DEF PutPill
  <1>6. CASE Join
    BY <1>6, CapacityAssumption DEF Join
  <1> HIDE DEF TypeInv
  <1> QED
    BY <1>1, <1>2, <1>3, <1>4, <1>5, <1>6 DEF Shutdown

\* The end of the process, and its next start.
LEMMA ProcessTypeInv ==
  ASSUME TypeInv,
         Crash \/ KillStop \/ DrainFault \/ RestartAfterCrash \/ StartAgain \/ StayDown
            \/ StartCli
  PROVE  TypeInv'
  <1> USE DEF TypeInv, TypeOK, PillsComeLast, StartsFirst, vars, serverVars, bootVars,
              boundVars, callVars, storeVars, fileVars, workVars
  <1>1. ASSUME LoseMemory, phase' \in {"crashed", "killed"}, faults' \in Nat
        PROVE  TypeInv'
    BY <1>1, CapacityAssumption DEF LoseMemory, Executing, Booters
  <1>2. CASE Crash
    BY <1>1, <1>2 DEF Crash
  <1>3. CASE KillStop
    BY <1>1, <1>3 DEF KillStop
  <1>4. CASE DrainFault
    BY <1>1, <1>4 DEF DrainFault, Fault
  <1>5. CASE RestartAfterCrash \/ StartAgain
    BY <1>5 DEF RestartAfterCrash, StartAgain, Start, Booters
  <1>6. CASE StayDown
    BY <1>6 DEF StayDown
  <1>7. CASE StartCli
    BY <1>7 DEF StartCli, Booters
  <1> HIDE DEF TypeInv
  <1> QED
    BY <1>2, <1>3, <1>4, <1>5, <1>6, <1>7

LEMMA StutterTypeInv == TypeInv /\ UNCHANGED vars => TypeInv'
  BY DEF TypeInv, TypeOK, PillsComeLast, StartsFirst, vars, serverVars, bootVars, boundVars,
         callVars, storeVars, fileVars, workVars

LEMMA NextTypeInv == TypeInv /\ [Next]_vars => TypeInv'
  BY BootTypeInv, CallTypeInv, WorkTypeInv, ShutdownTypeInv, ProcessTypeInv, StutterTypeInv
     DEF Next

\* The service never leaves its types: in particular the in-process queue never
\* holds more than queue_capacity items, the None of the shutdown included.
THEOREM TypeCorrect == Spec => []TypeOK
  <1>1. TypeInv => TypeOK
    BY DEF TypeInv
  <1> QED
    BY <1>1, InitTypeInv, NextTypeInv, PTL DEF Spec

-----------------------------------------------------------------------------
(* What submit_stream decides under the lock stays true while it acts on it. *)

\* Only the holder of the intake lock is inside `with self.lock`.
OneHolder == \A j \in Jobs : pc[j] \in InLock => lock = j

\* No call is executing unless the server serves: uvicorn ends every request before
\* the shutdown, and a process that dies takes its calls with it.
CallsWhileUp == phase # "up" => \A j \in Jobs : pc[j] \notin Executing

AdmitInv == OneHolder /\ CallsWhileUp /\ AdmissionStillHolds

LEMMA InitAdmitInv == Init => AdmitInv
  BY DEF Init, AdmitInv, OneHolder, CallsWhileUp, AdmissionStillHolds, InLock, Executing

\* A step that leaves calls, lock and records alone, and the queue no longer than it
\* was, disturbs nothing of this, unless it changes the phase.
LEMMA QuietAdmitInv ==
  ASSUME TypeInv, AdmitInv,
         UNCHANGED <<pc, req, lock, records>>, Len(queue') <= Len(queue), Len(queue') \in Nat,
         phase' = phase \/ phase' = "up" \/ \A j \in Jobs : pc[j] \notin Executing
  PROVE  AdmitInv'
  <1>1. Len(queue) \in Nat /\ QueueCapacity \in Nat
    BY CapacityAssumption DEF TypeInv, TypeOK
  <1>2. OneHolder' /\ CallsWhileUp'
    BY DEF AdmitInv, OneHolder, CallsWhileUp
  <1>3. AdmissionStillHolds'
    BY <1>1 DEF AdmitInv, AdmissionStillHolds, SameKey, HasRoom
  <1> QED
    BY <1>2, <1>3 DEF AdmitInv

\* Nor does a call that leaves.
LEMMA LeaveAdmitInv ==
  ASSUME TypeInv, AdmitInv, NEW j \in Jobs, NEW to, to \notin Executing, Leave(j, to),
         UNCHANGED <<phase, req, records, queue>>
  PROVE  AdmitInv'
  <1>1. pc' = [pc EXCEPT ![j] = to] /\ pc \in [Jobs -> Executing \cup
                {"idle", "accepted", "rejected", "failed", "lost"}]
    BY DEF Leave, TypeInv, TypeOK
  <1>2. to \notin InLock
    BY DEF InLock, Executing
  <1>3. OneHolder'
    BY <1>1, <1>2 DEF AdmitInv, OneHolder, Leave
  <1>4. CallsWhileUp'
    BY <1>1 DEF AdmitInv, CallsWhileUp
  <1>5. AdmissionStillHolds'
    BY <1>1, <1>2 DEF AdmitInv, AdmissionStillHolds, SameKey, HasRoom, InLock
  <1> QED
    BY <1>3, <1>4, <1>5 DEF AdmitInv

\* Nor does a call that goes one step on, under the lock.
LEMMA StepInLockAdmitInv ==
  ASSUME TypeInv, AdmitInv, NEW j \in Jobs, pc[j] \in InLock, HasRoom, SameKey(j) = {},
         NEW to \in InLock, pc' = [pc EXCEPT ![j] = to],
         UNCHANGED <<phase, req, lock, records, queue>>
  PROVE  AdmitInv'
  <1>1. pc \in [Jobs -> Executing \cup {"idle", "accepted", "rejected", "failed", "lost"}]
    BY DEF TypeInv, TypeOK
  <1>2. pc[j] \in Executing
    BY DEF InLock, Executing
  <1>3. \A k \in Jobs : pc'[k] = IF k = j THEN to ELSE pc[k]
    BY <1>1
  <1>4. OneHolder'
    BY <1>3 DEF AdmitInv, OneHolder
  <1>5. CallsWhileUp'
    BY <1>2, <1>3 DEF AdmitInv, CallsWhileUp
  <1>6. HasRoom' /\ \A k \in Jobs : SameKey(k)' = SameKey(k)
    BY DEF HasRoom, SameKey
  <1>7. AdmissionStillHolds'
    BY <1>3, <1>6 DEF AdmitInv, AdmissionStillHolds
  <1> QED
    BY <1>4, <1>5, <1>7 DEF AdmitInv

LEMMA CallAdmitInv ==
  ASSUME TypeInv, AdmitInv, NEW j \in Jobs, Receive(j) \/ Handler(j) \/ CallFault(j)
  PROVE  AdmitInv'
  <1>0. /\ pc \in [Jobs -> Executing \cup {"idle", "accepted", "rejected", "failed", "lost"}]
        /\ Len(queue) \in Nat /\ queue \in Seq(Jobs \cup {Poison})
        /\ NoJob \notin Jobs /\ lock \in Jobs \cup {NoJob} /\ QueueCapacity \in Nat
    BY DistinctAssumption, CapacityAssumption DEF TypeInv, TypeOK
  <1>1. CASE Receive(j) \/ AcceptUpload(j)
    BY <1>0, <1>1 DEF Receive, AcceptUpload, Executing, Serving, AdmitInv, OneHolder,
       CallsWhileUp, AdmissionStillHolds, SameKey, HasRoom, InLock, outsideCall, storeVars, workVars,
       serverVars
  <1>2. CASE RejectUpload(j) \/ AnswerDuplicate(j) \/ RefuseInLock(j) \/ CallFault(j)
    <2>1. \E to \in {"accepted", "rejected", "failed"} : Leave(j, to)
      BY <1>2 DEF RejectUpload, AnswerDuplicate, RefuseInLock, CallFault
    <2>2. UNCHANGED <<phase, req, records, queue>>
      BY <1>2 DEF RejectUpload, AnswerDuplicate, RefuseInLock, CallFault, outsideCall,
         storeVars, workVars, serverVars
    <2> QED
      BY <2>1, <2>2, LeaveAdmitInv DEF Executing
  <1>3. CASE Acquire(j)
    BY <1>0, <1>3 DEF Acquire, LockFree, AdmitInv, OneHolder, CallsWhileUp, Executing,
       AdmissionStillHolds, SameKey, HasRoom, InLock, outsideCall, storeVars, workVars,
       serverVars
  <1>4. CASE CreateRow(j) \/ StageRow(j) \/ QueueRow(j)
    <2>1. \E to \in {"created", "staged", "queued"} : pc' = [pc EXCEPT ![j] = to]
      BY <1>4 DEF CreateRow, StageRow, QueueRow, SaveNew
    <2>2. UNCHANGED <<phase, req, lock, records, queue>>
      BY <1>4 DEF CreateRow, StageRow, QueueRow, SaveNew, outsideCall, serverVars
    <2>3. pc[j] \in {"locked", "created", "staged"} /\ HasRoom /\ SameKey(j) = {}
      BY <1>4 DEF CreateRow, StageRow, QueueRow, SaveNew, AdmitInv, AdmissionStillHolds, InLock
    <2> QED
      BY <2>1, <2>2, <2>3, StepInLockAdmitInv DEF InLock
  <1>5. CASE MoveUpload(j)
    <2>1. pc' = [pc EXCEPT ![j] = "moved"] /\ UNCHANGED <<phase, req, lock, records, queue>>
      BY <1>5 DEF MoveUpload, storeVars, workVars, serverVars
    <2>2. pc[j] = "queued" /\ HasRoom /\ SameKey(j) = {}
      BY <1>5 DEF MoveUpload, AdmitInv, AdmissionStillHolds, InLock
    <2> QED
      BY <2>1, <2>2, StepInLockAdmitInv DEF InLock
  <1>6. CASE RecordJob(j)
    <2>1. CASE SameKey(j) = {}
      BY <1>0, <1>6, <2>1 DEF RecordJob, AdmitInv, OneHolder, CallsWhileUp, Executing,
         AdmissionStillHolds, SameKey, HasRoom, InLock, outsideCall, workVars, serverVars
    <2>2. CASE SameKey(j) # {}
      <3>1. Leave(j, "failed") /\ UNCHANGED <<phase, req, records, queue>>
        BY <1>6, <2>2 DEF RecordJob, outsideCall, workVars, serverVars
      <3> QED
        BY <3>1, LeaveAdmitInv DEF Executing
    <2> QED
      BY <2>1, <2>2
  <1>7. CASE Enqueue(j)
    <2>1. CASE Len(queue) < QueueCapacity
      BY <1>0, <1>7, <2>1 DEF Enqueue, AdmitInv, OneHolder, CallsWhileUp, Executing,
         AdmissionStillHolds, SameKey, HasRoom, InLock, outsideCall, storeVars, serverVars
    <2>2. CASE ~(Len(queue) < QueueCapacity)
      <3>1. Leave(j, "failed") /\ UNCHANGED <<phase, req, records, queue>>
        BY <1>7, <2>2 DEF Enqueue, outsideCall, storeVars, serverVars
      <3> QED
        BY <3>1, LeaveAdmitInv DEF Executing
    <2> QED
      BY <2>1, <2>2
  <1>8. CASE Respond(j)
    <2>1. CASE rows[j] # NoJob /\ j \in records
      BY <1>0, <1>8, <2>1 DEF Respond, AdmitInv, OneHolder, CallsWhileUp, Executing,
         AdmissionStillHolds, SameKey, HasRoom, InLock, outsideCall, storeVars, workVars,
         serverVars
    <2>2. CASE ~(rows[j] # NoJob /\ j \in records)
      <3>1. Leave(j, "failed") /\ UNCHANGED <<phase, req, records, queue>>
        BY <1>8, <2>2 DEF Respond, outsideCall, storeVars, workVars, serverVars
      <3> QED
        BY <3>1, LeaveAdmitInv DEF Executing
    <2> QED
      BY <2>1, <2>2
  <1> QED
    BY <1>1, <1>2, <1>3, <1>4, <1>5, <1>6, <1>7, <1>8 DEF Handler

\* Start-up, workers, shutdown and the end of the process.
LEMMA OtherAdmitInv ==
  ASSUME TypeInv, AdmitInv,
         \/ \E p \in Booters : BootStep(p)
         \/ \E w \in Workers : Work(w)
         \/ StartCli \/ BeginShutdown \/ Shutdown
         \/ Crash \/ KillStop \/ DrainFault \/ RestartAfterCrash \/ StartAgain \/ StayDown
  PROVE  AdmitInv'
  <1> USE DEF vars, serverVars, bootVars, boundVars, callVars, storeVars, fileVars, workVars
  <1>0. /\ queue \in Seq(Jobs \cup {Poison}) /\ Len(queue) \in Nat
        /\ phase # "up" => \A j \in Jobs : pc[j] \notin Executing
    BY DEF TypeInv, TypeOK, AdmitInv, CallsWhileUp
  <1>1. ASSUME NEW p \in Booters, BootStep(p) PROVE AdmitInv'
    <2>1. UNCHANGED <<pc, req, lock, records, queue>> /\ phase' \in {phase, "up"}
      BY <1>1 DEF BootStep, ListJobs, ListInterrupted, FinishStart, ReconcileOne, CleanOne,
         outsideBoot
    <2> QED
      BY <1>0, <2>1, QuietAdmitInv
  <1>2. ASSUME NEW w \in Workers, Work(w) PROVE AdmitInv'
    <2>1. UNCHANGED <<pc, req, lock, records, phase>>
      BY <1>2 DEF Work, Get, Begin, End, FinalSave, SaveRun, ReadBack, HandleError,
         RemoveUpload, outsideRun
    <2>2. queue' = queue \/ (queue # <<>> /\ queue' = Tail(queue))
      BY <1>2 DEF Work, Get, Begin, End, FinalSave, SaveRun, ReadBack, HandleError,
         RemoveUpload, outsideRun
    <2>3. Len(queue') <= Len(queue) /\ Len(queue') \in Nat
      BY <1>0, <2>2
    <2> QED
      BY <2>1, <2>3, QuietAdmitInv
  <1>3. CASE StartCli \/ StayDown \/ DrainCleanUp
    <2>1. UNCHANGED <<pc, req, lock, records, queue, phase>>
      BY <1>3 DEF StartCli, StayDown, DrainCleanUp
    <2> QED
      BY <1>0, <2>1, QuietAdmitInv
  <1>4. CASE BeginShutdown \/ RestartAfterCrash \/ StartAgain \/ DrainDone
    <2>1. UNCHANGED <<pc, req, lock, records, queue>>
      BY <1>4 DEF BeginShutdown, RestartAfterCrash, StartAgain, Start, DrainDone
    <2>2. \A j \in Jobs : pc[j] \notin Executing
      BY <1>0, <1>4 DEF BeginShutdown, RestartAfterCrash, StartAgain, DrainDone
    <2> QED
      BY <1>0, <2>1, <2>2, QuietAdmitInv
  <1>5. CASE DrainOne \/ PutPill \/ Join \/ Crash \/ KillStop \/ DrainFault
    <2>1. \A j \in Jobs : pc'[j] \notin Executing
      <3>1. CASE DrainOne \/ PutPill \/ Join
        BY <1>0, <3>1 DEF DrainOne, PutPill, Join
      <3>2. CASE Crash \/ KillStop \/ DrainFault
        BY <3>2 DEF Crash, KillStop, DrainFault, LoseMemory, Executing
      <3> QED
        BY <1>5, <3>1, <3>2
    <2> QED
      BY <2>1 DEF AdmitInv, OneHolder, CallsWhileUp, AdmissionStillHolds, InLock, Executing
  <1> QED
    BY <1>1, <1>2, <1>3, <1>4, <1>5 DEF Shutdown

LEMMA NextAdmitInv == TypeInv /\ AdmitInv /\ [Next]_vars => AdmitInv'
  <1> SUFFICES ASSUME TypeInv, AdmitInv, [Next]_vars PROVE AdmitInv'
    OBVIOUS
  <1>1. CASE Next
    BY <1>1, CallAdmitInv, OtherAdmitInv DEF Next
  <1>2. CASE UNCHANGED vars
    BY <1>2 DEF vars, serverVars, bootVars, boundVars, callVars, storeVars, fileVars,
       workVars, AdmitInv, OneHolder, CallsWhileUp, AdmissionStillHolds, SameKey, HasRoom
  <1> QED
    BY <1>1, <1>2

\* Check-then-act in submit_stream is safe: from the idempotency lookup to the INSERT
\* nobody else takes the key, and from queue.full() to put_nowait() the queue keeps
\* its room, for any number of concurrent calls and workers, any faults, restarts
\* and CLI commands.
THEOREM AdmissionIsStable == Spec => []AdmissionStillHolds
  <1>1. AdmitInv => AdmissionStillHolds
    BY DEF AdmitInv
  <1> QED
    BY <1>1, InitTypeInv, NextTypeInv, InitAdmitInv, NextAdmitInv, PTL DEF Spec

-----------------------------------------------------------------------------
(* Idempotency. *)

\* UNIQUE(client_id, idempotency_key), and what every answer rests on.
OneRecordPerKey == \A a, b \in records : req[a].key = req[b].key => a = b
AnswersAreRecorded ==
    \A a \in Jobs : reply[a] # NoJob => reply[a] \in records /\ req[reply[a]] = req[a]

KeyInv == OneRecordPerKey /\ AnswersAreRecorded

\* Steps that neither record a job nor answer a call.
LEMMA QuietKeyInv == KeyInv /\ UNCHANGED <<req, reply, records>> => KeyInv'
  BY DEF KeyInv, OneRecordPerKey, AnswersAreRecorded

LEMMA NextKeyInv == TypeInv /\ KeyInv /\ [Next]_vars => KeyInv'
  <1> SUFFICES ASSUME TypeInv, KeyInv, [Next]_vars PROVE KeyInv'
    OBVIOUS
  <1> USE DEF vars, serverVars, bootVars, boundVars, callVars, storeVars, fileVars, workVars
  <1>1. ASSUME NEW j \in Jobs, Receive(j) \/ Handler(j) \/ CallFault(j) PROVE KeyInv'
    <2>1. CASE AnswerDuplicate(j)
      <3>1. PICK k \in SameKey(j) : /\ SameRequest(j, k)
                                    /\ reply' = [reply EXCEPT ![j] = k]
        BY <2>1 DEF AnswerDuplicate
      <3>2. k \in records /\ req[k] = req[j] /\ UNCHANGED <<req, records>>
        BY <2>1, <3>1 DEF SameKey, SameRequest, AnswerDuplicate, outsideCall
      <3> QED
        BY <3>1, <3>2 DEF KeyInv, OneRecordPerKey, AnswersAreRecorded, TypeInv, TypeOK
    <2>2. CASE RecordJob(j)
      <3>1. CASE SameKey(j) = {}
        BY <2>2, <3>1 DEF RecordJob, SameKey, KeyInv, OneRecordPerKey, AnswersAreRecorded,
           outsideCall
      <3>2. CASE SameKey(j) # {}
        BY <2>2, <3>2, QuietKeyInv DEF RecordJob, outsideCall
      <3> QED
        BY <3>1, <3>2
    <2>3. CASE Respond(j)
      BY <2>3 DEF Respond, KeyInv, OneRecordPerKey, AnswersAreRecorded, outsideCall,
         TypeInv, TypeOK
    <2>4. CASE Receive(j) \/ RejectUpload(j) \/ AcceptUpload(j) \/ Acquire(j)
               \/ RefuseInLock(j) \/ CreateRow(j) \/ StageRow(j) \/ QueueRow(j)
               \/ MoveUpload(j) \/ Enqueue(j) \/ CallFault(j)
      BY <2>4, QuietKeyInv DEF Receive, RejectUpload, AcceptUpload, Acquire, RefuseInLock,
         CreateRow, StageRow, QueueRow, SaveNew, MoveUpload, Enqueue, CallFault, outsideCall
    <2> QED
      BY <1>1, <2>1, <2>2, <2>3, <2>4 DEF Handler
  <1>2. ASSUME NEW p \in Booters, BootStep(p) PROVE KeyInv'
    BY <1>2, QuietKeyInv DEF BootStep, ListJobs, ListInterrupted, FinishStart, ReconcileOne,
       CleanOne, outsideBoot
  <1>3. ASSUME NEW w \in Workers, Work(w) PROVE KeyInv'
    BY <1>3, QuietKeyInv DEF Work, Get, Begin, End, FinalSave, SaveRun, ReadBack,
       HandleError, RemoveUpload, outsideRun
  <1>4. CASE StartCli \/ BeginShutdown \/ Shutdown \/ Crash \/ KillStop \/ DrainFault
             \/ RestartAfterCrash \/ StartAgain \/ StayDown \/ UNCHANGED vars
    BY <1>4, QuietKeyInv DEF StartCli, BeginShutdown, Shutdown, DrainOne, DrainCleanUp,
       DrainDone, PutPill, Join, Crash, KillStop, DrainFault, LoseMemory, RestartAfterCrash,
       StartAgain, Start, StayDown
  <1> QED
    BY <1>1, <1>2, <1>3, <1>4 DEF Next

\* A retry under the same idempotency key is given the job of the first call, and a
\* call that asks for something else is never given it, whatever crashes, storage
\* errors, restarts and CLI commands come between.
THEOREM RetriesGetTheSameJob == Spec => []OneJobPerKey
  <1>1. Init => KeyInv
    BY DEF Init, KeyInv, OneRecordPerKey, AnswersAreRecorded
  <1>2. KeyInv => OneJobPerKey
    BY DEF KeyInv, OneRecordPerKey, AnswersAreRecorded, OneJobPerKey
  <1> QED
    BY <1>1, <1>2, NextKeyInv, InitTypeInv, NextTypeInv, PTL DEF Spec

-----------------------------------------------------------------------------
(* A job is in one place: with its call, in the queue, or with one worker.   *)

\* The calls that have not enqueued their job.
Fresh == {j \in Jobs : pc[j] \in InLock \cup {"idle", "receive", "waiting"}}

QueueOfOthers == \A i \in 1..Len(queue) : queue[i] \notin Fresh
QueuedOnce ==
    \A i, k \in 1..Len(queue) : (queue[i] = queue[k] /\ queue[i] # Poison) => i = k
TakenFromQueue ==
    \A w \in Workers :
        wjob[w] # NoJob =>
            wjob[w] \notin Fresh /\ \A i \in 1..Len(queue) : queue[i] # wjob[w]

PlaceInv == QueueOfOthers /\ QueuedOnce /\ TakenFromQueue /\ OneWorkerPerJob

\* Calls only ever leave Fresh; queue and workers stay as they are.
LEMMA QuietPlaceInv ==
  PlaceInv /\ UNCHANGED <<queue, wjob>> /\ Fresh' \subseteq Fresh => PlaceInv'
  BY DEF PlaceInv, QueueOfOthers, QueuedOnce, TakenFromQueue, OneWorkerPerJob

\* Nothing is queued and no worker holds a job.
LEMMA EmptyPlaceInv ==
  queue = <<>> /\ (\A w \in Workers : wjob[w] = NoJob) => PlaceInv
  BY DEF PlaceInv, QueueOfOthers, QueuedOnce, TakenFromQueue, OneWorkerPerJob

LEMMA CallPlaceInv ==
  ASSUME TypeInv, PlaceInv, NEW j \in Jobs, Receive(j) \/ Handler(j) \/ CallFault(j)
  PROVE  PlaceInv'
  <1> USE DEF serverVars, bootVars, boundVars, callVars, storeVars, fileVars, workVars,
              outsideCall
  <1>0. /\ pc \in [Jobs -> Executing \cup {"idle", "accepted", "rejected", "failed", "lost"}]
        /\ queue \in Seq(Jobs \cup {Poison}) /\ wjob \in [Workers -> Jobs \cup {NoJob}]
        /\ Poison \notin Jobs
    BY DistinctAssumption DEF TypeInv, TypeOK
  <1>1. Fresh' \subseteq Fresh
    <2>1. pc' = [pc EXCEPT ![j] = pc'[j]]
      BY <1>0 DEF Handler, Receive, RejectUpload, AcceptUpload, Acquire, AnswerDuplicate,
         RefuseInLock, CreateRow, StageRow, QueueRow, SaveNew, MoveUpload, RecordJob, Enqueue, Respond,
         CallFault, Leave
    <2>2. pc'[j] \in InLock \cup {"idle", "receive", "waiting"}
             => pc[j] \in InLock \cup {"idle", "receive", "waiting"}
      BY <1>0 DEF Handler, Receive, RejectUpload, AcceptUpload, Acquire, AnswerDuplicate,
         RefuseInLock, CreateRow, StageRow, QueueRow, SaveNew, MoveUpload, RecordJob, Enqueue, Respond,
         CallFault, Leave, InLock
    <2> QED
      BY <1>0, <2>1, <2>2 DEF Fresh
  <1>2. CASE UNCHANGED <<queue, wjob>>
    BY <1>1, <1>2, QuietPlaceInv
  <1>3. CASE Enqueue(j) /\ queue' # queue
    <2>1. queue' = Append(queue, j) /\ wjob' = wjob /\ j \in Fresh /\ j \notin Fresh'
      BY <1>0, <1>3 DEF Enqueue, Fresh, InLock
    <2>2. /\ Len(queue') = Len(queue) + 1 /\ Len(queue) \in Nat
          /\ \A i \in 1..Len(queue) : queue'[i] = queue[i]
          /\ queue'[Len(queue')] = j
      BY <1>0, <2>1
    <2>3. QueueOfOthers'
      BY <1>1, <2>1, <2>2 DEF PlaceInv, QueueOfOthers
    <2>4. QueuedOnce'
      BY <2>1, <2>2 DEF PlaceInv, QueueOfOthers, QueuedOnce
    <2>5. TakenFromQueue' /\ OneWorkerPerJob'
      BY <1>1, <2>1, <2>2 DEF PlaceInv, TakenFromQueue, OneWorkerPerJob
    <2> QED
      BY <2>3, <2>4, <2>5 DEF PlaceInv
  <1> QED
    BY <1>2, <1>3 DEF Handler, Receive, RejectUpload, AcceptUpload, Acquire, AnswerDuplicate,
       RefuseInLock, CreateRow, StageRow, QueueRow, SaveNew, MoveUpload, RecordJob, Enqueue, Respond,
       CallFault

LEMMA WorkPlaceInv ==
  ASSUME TypeInv, PlaceInv, NEW w \in Workers, Work(w)
  PROVE  PlaceInv'
  <1> USE DEF serverVars, bootVars, boundVars, callVars, storeVars, fileVars, workVars,
              outsideRun
  <1>0. /\ queue \in Seq(Jobs \cup {Poison}) /\ wjob \in [Workers -> Jobs \cup {NoJob}]
        /\ Len(queue) \in Nat
    BY DEF TypeInv, TypeOK
  <1>1. Fresh' = Fresh
    BY DEF Fresh, Work, Get, Begin, End, FinalSave, SaveRun, ReadBack, HandleError,
       RemoveUpload
  <1>2. CASE Get(w)
    <2>1. /\ queue' = Tail(queue) /\ queue # <<>>
          /\ \/ wjob' = wjob
             \/ Head(queue) # Poison /\ wjob' = [wjob EXCEPT ![w] = Head(queue)]
      BY <1>2 DEF Get
    <2>2. /\ Len(queue') \in Nat /\ Len(queue) = Len(queue') + 1
          /\ Head(queue) = queue[1]
          /\ \A i \in 1..Len(queue') : queue'[i] = queue[i + 1]
          /\ \A i \in 1..Len(queue') : i + 1 \in 1..Len(queue) /\ i + 1 # 1
          /\ 1 \in 1..Len(queue)
      BY <1>0, <2>1
    <2>3. QueueOfOthers'
      BY <1>1, <2>2 DEF PlaceInv, QueueOfOthers
    <2>4. QueuedOnce'
      <3> SUFFICES ASSUME NEW i \in 1..Len(queue'), NEW k \in 1..Len(queue'),
                          queue'[i] = queue'[k], queue'[i] # Poison
                   PROVE  i = k
        BY DEF QueuedOnce
      <3>1. i + 1 = k + 1
        BY <2>2 DEF PlaceInv, QueuedOnce
      <3> QED
        BY <3>1
    <2>5. \A i \in 1..Len(queue') : Head(queue) # Poison => queue'[i] # Head(queue)
      BY <2>2 DEF PlaceInv, QueuedOnce
    <2>6. TakenFromQueue'
      <3> SUFFICES ASSUME NEW v \in Workers, wjob'[v] # NoJob
                   PROVE  wjob'[v] \notin Fresh /\ \A i \in 1..Len(queue') : queue'[i] # wjob'[v]
        BY <1>1 DEF TakenFromQueue
      <3>1. CASE wjob'[v] = wjob[v]
        BY <2>2, <3>1 DEF PlaceInv, TakenFromQueue
      <3>2. CASE wjob'[v] # wjob[v]
        <4>1. wjob'[v] = Head(queue) /\ Head(queue) # Poison
          BY <1>0, <2>1, <3>2
        <4>2. Head(queue) \notin Fresh
          BY <2>2 DEF PlaceInv, QueueOfOthers
        <4> QED
          BY <2>5, <4>1, <4>2
      <3> QED
        BY <3>1, <3>2
    <2>7. OneWorkerPerJob'
      BY <1>0, <2>1, <2>2 DEF PlaceInv, TakenFromQueue, OneWorkerPerJob
    <2> QED
      BY <2>3, <2>4, <2>6, <2>7 DEF PlaceInv
  <1>3. CASE RemoveUpload(w)
    <2>1. queue' = queue /\ (wjob' = wjob \/ wjob' = [wjob EXCEPT ![w] = NoJob])
      BY <1>3 DEF RemoveUpload
    <2> QED
      BY <1>0, <1>1, <2>1 DEF PlaceInv, QueueOfOthers, QueuedOnce, TakenFromQueue,
         OneWorkerPerJob
  <1>4. CASE Begin(w) \/ End(w) \/ FinalSave(w) \/ ReadBack(w) \/ HandleError(w)
    BY <1>1, <1>4, QuietPlaceInv DEF Begin, End, FinalSave, SaveRun, ReadBack, HandleError
  <1> QED
    BY <1>2, <1>3, <1>4 DEF Work

LEMMA ShutdownPlaceInv ==
  ASSUME TypeInv, PlaceInv, BeginShutdown \/ Shutdown
  PROVE  PlaceInv'
  <1> USE DEF serverVars, bootVars, boundVars, callVars, storeVars, fileVars, workVars
  <1>0. /\ queue \in Seq(Jobs \cup {Poison}) /\ wjob \in [Workers -> Jobs \cup {NoJob}]
        /\ Len(queue) \in Nat
        /\ Poison \notin Jobs /\ NoJob # Poison
    BY DistinctAssumption DEF TypeInv, TypeOK
  <1>1. Fresh' = Fresh
    BY DEF Fresh, Shutdown, BeginShutdown, DrainOne, DrainCleanUp, DrainDone, PutPill, Join
  <1>2. CASE BeginShutdown \/ DrainCleanUp \/ DrainDone
    BY <1>1, <1>2, QuietPlaceInv DEF BeginShutdown, DrainCleanUp, DrainDone
  <1>3. CASE DrainOne
    <2>1. queue' = Tail(queue) /\ queue # <<>> /\ wjob' = wjob
      BY <1>3 DEF DrainOne
    <2>2. /\ Len(queue') \in Nat /\ Len(queue) = Len(queue') + 1
          /\ \A i \in 1..Len(queue') : queue'[i] = queue[i + 1] /\ i + 1 \in 1..Len(queue)
      BY <1>0, <2>1
    <2>3. QueueOfOthers'
      BY <1>1, <2>2 DEF PlaceInv, QueueOfOthers
    <2>4. QueuedOnce'
      <3> SUFFICES ASSUME NEW i \in 1..Len(queue'), NEW k \in 1..Len(queue'),
                          queue'[i] = queue'[k], queue'[i] # Poison
                   PROVE  i = k
        BY DEF QueuedOnce
      <3>1. i + 1 = k + 1
        BY <2>2 DEF PlaceInv, QueuedOnce
      <3> QED
        BY <3>1
    <2>5. TakenFromQueue' /\ OneWorkerPerJob'
      BY <1>1, <2>1, <2>2 DEF PlaceInv, TakenFromQueue, OneWorkerPerJob
    <2> QED
      BY <2>3, <2>4, <2>5 DEF PlaceInv
  <1>4. CASE PutPill
    <2>1. queue' = Append(queue, Poison) /\ wjob' = wjob
      BY <1>4 DEF PutPill
    <2>2. /\ Len(queue') = Len(queue) + 1
          /\ \A i \in 1..Len(queue) : queue'[i] = queue[i]
          /\ queue'[Len(queue')] = Poison
      BY <1>0, <2>1
    <2>3. QueueOfOthers'
      BY <1>0, <1>1, <2>2 DEF PlaceInv, QueueOfOthers, Fresh
    <2>4. QueuedOnce'
      BY <1>0, <2>2 DEF PlaceInv, QueuedOnce
    <2>5. TakenFromQueue' /\ OneWorkerPerJob'
      BY <1>0, <1>1, <2>1, <2>2 DEF PlaceInv, TakenFromQueue, OneWorkerPerJob
    <2> QED
      BY <2>3, <2>4, <2>5 DEF PlaceInv
  <1>5. CASE Join
    <2>1. queue' = <<>> /\ \A w \in Workers : wjob'[w] = NoJob
      BY <1>5 DEF Join
    <2> QED
      BY <2>1 DEF PlaceInv, QueueOfOthers, QueuedOnce, TakenFromQueue, OneWorkerPerJob
  <1> QED
    BY <1>2, <1>3, <1>4, <1>5 DEF Shutdown

LEMMA NextPlaceInv == TypeInv /\ PlaceInv /\ [Next]_vars => PlaceInv'
  <1> SUFFICES ASSUME TypeInv, PlaceInv, [Next]_vars PROVE PlaceInv'
    OBVIOUS
  <1> USE DEF vars, serverVars, bootVars, boundVars, callVars, storeVars, fileVars, workVars
  <1>1. ASSUME NEW p \in Booters, BootStep(p) PROVE PlaceInv'
    <2>1. UNCHANGED <<pc, queue, wjob>>
      BY <1>1 DEF BootStep, ListJobs, ListInterrupted, FinishStart, ReconcileOne, CleanOne,
         outsideBoot
    <2> QED
      BY <2>1, QuietPlaceInv DEF Fresh
  <1>2. CASE Crash \/ KillStop \/ DrainFault
    <2>1. queue' = <<>> /\ \A w \in Workers : wjob'[w] = NoJob
      BY <1>2 DEF Crash, KillStop, DrainFault, LoseMemory
    <2> QED
      BY <2>1 DEF PlaceInv, QueueOfOthers, QueuedOnce, TakenFromQueue, OneWorkerPerJob
  <1>3. CASE StartCli \/ RestartAfterCrash \/ StartAgain \/ StayDown \/ UNCHANGED vars
    <2>1. UNCHANGED <<pc, queue, wjob>>
      BY <1>3 DEF StartCli, RestartAfterCrash, StartAgain, Start, StayDown
    <2> QED
      BY <2>1, QuietPlaceInv DEF Fresh
  <1> QED
    BY <1>1, <1>2, <1>3, CallPlaceInv, WorkPlaceInv, ShutdownPlaceInv DEF Next

\* No job is ever executed by two workers: not after a retry, a restart or a CLI
\* command, nor while shutdown and workers empty the queue together.
THEOREM NoDoubleExecution == Spec => []OneWorkerPerJob
  <1>1. Init => PlaceInv
    BY EmptyPlaceInv DEF Init
  <1>2. PlaceInv => OneWorkerPerJob
    BY DEF PlaceInv
  <1> QED
    BY <1>1, <1>2, NextPlaceInv, InitTypeInv, NextTypeInv, PTL DEF Spec

(***************************************************************************)
(* The queue, and where a job and its upload are.                          *)
(***************************************************************************)

InQueue(j) == \E i \in 1 .. Len(queue) : queue[i] = j
Held(j) == \E w \in Workers : wjob[w] = j

\* Calls that have not saved their job, not recorded it, not enqueued it.
Unsaved == {"idle", "receive", "waiting", "locked"}
Unrecorded == Unsaved \cup {"created", "staged", "queued", "moved"}
Uploading == {"receive", "waiting", "locked", "created", "staged", "queued"}
Saved == {"created", "staged", "queued", "moved", "recorded"}

\* Only a serving process has a queue with something in it and workers; only one that starts goes
\* through the start-up procedure; only one that drains has taken a job.
Down == {"starting", "stopped", "crashed", "killed"}
Free == {"off", "idle", "exited"}
ProcessInv ==
    /\ phase \in Down => queue = <<>> /\ \A w \in Workers : wpc[w] = "off"
    /\ \A w \in Workers : wpc[w] \in Free <=> wjob[w] = NoJob
    /\ phase = "starting" <=> booter["server"] # "off"
    /\ phase # "draining" => popped = NoJob
    /\ phase = "poisoning" => \A j \in Jobs : ~InQueue(j)
    /\ boots >= 1

\* What the object that queue and workers share says of a job, and what is stored of it at least.
JobFact(j) ==
    /\ pc[j] \in Unsaved => rows[j] = NoJob /\ j \notin objects
    /\ pc[j] \in Unrecorded => j \notin records
    /\ pc[j] \in Saved \/ j \in records => rows[j] # NoJob
    /\ \A p \in Booters : j \in todo[p] => rows[j] # NoJob
    /\ pc[j] \in {"queued", "moved", "recorded"} \/ InQueue(j) => mem[j] = "QUEUED"
    /\ reply[j] # NoJob => pc[j] = "accepted"
RunFact(w) ==
    /\ wpc[w] = "got" => mem[wjob[w]] = "QUEUED"
    /\ wpc[w] \in {"saving", "unwinding", "reporting"} => mem[wjob[w]] \in Finished
    /\ wpc[w] \in {"reporting", "cleaning"} => rows[wjob[w]] \in Finished
JobInv == (\A j \in Jobs : JobFact(j)) /\ (\A w \in Workers : RunFact(w))

\* Where an unfinished job is.
Placed(j) == pc[j] \in Saved \/ InQueue(j) \/ Held(j) \/ (pc[j] = "failed" /\ faults > 0)
PhantomInv ==
    \A j \in Jobs : rows[j] \in Interruptible =>
        /\ Alive => Placed(j)
        /\ booter["server"] = "reconcile" => j \in todo["server"]
        /\ booter["server"] # "clean"

\* What a process that has never been killed leaves behind.
FirstLife == boots = 1 /\ phase \notin {"crashed", "killed"}
StopInv ==
    FirstLife =>
        /\ \A j \in Jobs : j \in incoming => pc[j] \in Uploading
        /\ phase = "starting" => objects = {} /\ \A j \in Jobs : rows[j] = NoJob
        /\ faults = 0 =>
              /\ \A w \in Workers : wpc[w] \notin {"unwinding", "failing", "dying", "dead"}
              /\ \A j \in Jobs : rows[j] \in Finished \cup {NoJob} \/ Placed(j)
              /\ \A j \in Jobs : j \in objects =>
                    pc[j] \in {"moved", "recorded"} \/ InQueue(j) \/ Held(j) \/ popped = j

\* Without local commands, the rows say what the process knows.
BackFact(j) ==
    /\ pc[j] = "created" => rows[j] = "CREATED"
    /\ pc[j] = "staged" => rows[j] = "STAGED"
    /\ pc[j] \in {"queued", "moved", "recorded"} \/ InQueue(j) => rows[j] = "QUEUED"
    /\ pc[j] \in {"moved", "recorded"} \/ InQueue(j) => j \in objects
    /\ pc[j] = "recorded" \/ InQueue(j) => j \in records
    /\ popped = j => ~InQueue(j)
RowFact(w) ==
    /\ wpc[w] = "got" => rows[wjob[w]] = "QUEUED"
    /\ wpc[w] \in {"running", "unwinding"} => rows[wjob[w]] = "RUNNING"
    /\ wpc[w] = "saving" => rows[wjob[w]] = mem[wjob[w]]
BackedInv ==
    /\ booter["cli"] = "off" /\ cliRuns = 0
    /\ booter["server"] = "reconcile" => \A j \in todo["server"] : rows[j] \in Interruptible
    /\ (\A j \in Jobs : BackFact(j)) /\ (\A w \in Workers : RowFact(w))

\* An upload that outlives its job is on its way out: a dead worker has removed the one it held.
Leaving(j) == popped = j \/ \E w \in Workers : wjob[w] = j /\ wpc[w] # "dead"
UploadInv ==
    /\ Alive /\ boots = 1 => \A j \in Jobs : j \in objects /\ rows[j] \in Finished => Leaving(j)
    /\ \A w \in Workers : wpc[w] = "dead" => wjob[w] \notin objects

-----------------------------------------------------------------------------
(* What each step does to a job, wherever it is.                             *)

LEMMA QueueTail ==
  ASSUME TypeInv, PlaceInv, queue # <<>>, queue' = Tail(queue)
  PROVE  /\ Head(queue) \in Jobs \cup {Poison} /\ InQueue(Head(queue))
         /\ \A k : k # Head(queue) => (InQueue(k)' <=> InQueue(k))
         /\ \A k : k = Head(queue) /\ k # Poison => ~InQueue(k)'
  <1>1. queue \in Seq(Jobs \cup {Poison}) /\ Len(queue) \in Nat
    BY DEF TypeInv, TypeOK
  <1>2. /\ Len(queue') \in Nat /\ Len(queue) = Len(queue') + 1
        /\ Head(queue) = queue[1] /\ 1 \in 1 .. Len(queue)
        /\ \A i \in 1 .. Len(queue') : queue'[i] = queue[i + 1] /\ i + 1 \in 1 .. Len(queue)
        /\ Head(queue) \in Jobs \cup {Poison}
    BY <1>1
  <1>3. ASSUME NEW k, InQueue(k)' PROVE InQueue(k)
    BY <1>2, <1>3 DEF InQueue
  <1>4. ASSUME NEW k, k # Head(queue), InQueue(k) PROVE InQueue(k)'
    <2>1. PICK i \in 1 .. Len(queue) : queue[i] = k
      BY <1>4 DEF InQueue
    <2>2. i # 1
      BY <1>2, <1>4, <2>1
    <2>3. i - 1 \in 1 .. Len(queue') /\ (i - 1) + 1 = i
      BY <1>2, <2>2
    <2>4. queue'[i - 1] = queue[i]
      BY <1>2, <2>3
    <2> QED
      BY <2>1, <2>3, <2>4 DEF InQueue
  <1>5. ASSUME NEW k, k = Head(queue), k # Poison, InQueue(k)' PROVE FALSE
    <2>1. PICK i \in 1 .. Len(queue') : queue'[i] = k
      BY <1>5 DEF InQueue
    <2>2. i + 1 = 1
      BY <1>2, <1>5, <2>1 DEF PlaceInv, QueuedOnce
    <2> QED
      BY <1>2, <2>2
  <1> QED
    BY <1>2, <1>3, <1>4, <1>5 DEF InQueue

LEMMA QueueAppend ==
  ASSUME TypeInv, NEW x, queue' = Append(queue, x)
  PROVE  \A k : InQueue(k)' <=> InQueue(k) \/ k = x
  <1>1. queue \in Seq(Jobs \cup {Poison})
    BY DEF TypeInv, TypeOK
  <1>2. /\ Len(queue') = Len(queue) + 1 /\ Len(queue) \in Nat
        /\ \A i \in 1 .. Len(queue) : queue'[i] = queue[i]
        /\ queue'[Len(queue')] = x
    BY <1>1
  <1> QED
    BY <1>2 DEF InQueue

\* A step leaves what is stored and known of a job as it is.
Kept(k) ==
    /\ rows'[k] = rows[k] /\ mem'[k] = mem[k]
    /\ k \in records' <=> k \in records
    /\ k \in objects' <=> k \in objects
Unmoved(k) == InQueue(k)' <=> InQueue(k)
Counted == faults' \in Nat /\ faults' >= faults

\* submit_stream: the ways of a call and of its job.
Goes(j, from, to) == pc[j] = from /\ pc'[j] = to
Leaves(j) ==
    /\ Kept(j) /\ Unmoved(j)
    /\ j \in incoming' => j \in incoming /\ pc[j] = "respond"
    /\ \/ pc[j] = "receive" /\ pc'[j] = "rejected" /\ reply' = reply
       \/ pc[j] = "locked" /\ pc'[j] = "rejected" /\ reply' = reply
       \/ /\ pc[j] = "locked" /\ pc'[j] = "accepted"
          /\ \E k \in records : req[k] = req[j] /\ rows[k] # NoJob /\ reply' = [reply EXCEPT ![j] = k]
       \/ /\ pc[j] = "respond" /\ pc'[j] = "accepted"
          /\ j \in records /\ rows[j] # NoJob /\ reply' = [reply EXCEPT ![j] = j]
       \/ pc[j] = "respond" /\ pc'[j] = "failed" /\ reply' = reply
       \/ pc[j] \in {"locked"} \cup Saved /\ pc'[j] = "failed" /\ reply' = reply /\ faults' > 0
Saves(j, from, to, status) ==
    /\ Goes(j, from, to) /\ Unmoved(j)
    /\ rows'[j] = status /\ mem'[j] = status
    /\ j \in records' <=> j \in records
    /\ j \in objects' <=> j \in objects
CallMoves(j) ==
    /\ UNCHANGED <<phase, boots, popped, booter, todo, cliRuns, req, wpc, wjob>> /\ Counted
    /\ \A k \in Jobs : k # j =>
          /\ Kept(k) /\ Unmoved(k) /\ pc'[k] = pc[k]
          /\ k \in incoming' => k \in incoming
    /\ pc[j] # "accepted"
    /\ \/ Goes(j, "idle", "receive") /\ Kept(j) /\ Unmoved(j) /\ reply' = reply /\ phase = "up"
       \/ Goes(j, "receive", "waiting") /\ Kept(j) /\ Unmoved(j) /\ reply' = reply
       \/ Goes(j, "waiting", "locked") /\ Kept(j) /\ Unmoved(j) /\ reply' = reply
       \/ Leaves(j)
       \/ Saves(j, "locked", "created", "CREATED") /\ reply' = reply
       \/ Saves(j, "created", "staged", "STAGED") /\ reply' = reply
       \/ Saves(j, "staged", "queued", "QUEUED") /\ reply' = reply
       \/ /\ Goes(j, "queued", "moved") /\ Unmoved(j) /\ reply' = reply
          /\ rows' = rows /\ mem' = mem /\ records' = records /\ j \in objects'
          /\ j \notin incoming'
       \/ /\ Goes(j, "moved", "recorded") /\ Unmoved(j) /\ reply' = reply
          /\ rows' = rows /\ mem' = mem /\ records' = records \cup {j} /\ objects' = objects
          /\ SameKey(j) = {} /\ incoming' = incoming
       \/ /\ Goes(j, "recorded", "respond") /\ InQueue(j)' /\ reply' = reply /\ Kept(j)
          /\ incoming' = incoming

LEMMA CallIs ==
  ASSUME TypeInv, AdmitInv, NEW j \in Jobs, Receive(j) \/ Handler(j) \/ CallFault(j)
  PROVE  CallMoves(j)
  <1> USE DEF serverVars, bootVars, boundVars, callVars, storeVars, fileVars, workVars,
              outsideCall
  <1>0. /\ pc \in [Jobs -> Executing \cup {"idle", "accepted", "rejected", "failed", "lost"}]
        /\ rows \in [Jobs -> Status \cup {NoJob}] /\ mem \in [Jobs -> Status \cup {NoJob}]
        /\ faults \in Nat
    BY DEF TypeInv, TypeOK
  <1>1. ASSUME queue' = queue PROVE \A k : Unmoved(k)
    BY <1>1 DEF Unmoved, InQueue
  <1>2. CASE Receive(j)
    BY <1>0, <1>1, <1>2 DEF Receive, CallMoves, Goes, Kept, Counted, Serving
  <1>3. CASE RejectUpload(j)
    BY <1>0, <1>1, <1>3 DEF RejectUpload, Leave, CallMoves, Leaves, Kept, Counted
  <1>4. CASE AcceptUpload(j) \/ Acquire(j)
    BY <1>0, <1>1, <1>4 DEF AcceptUpload, Acquire, CallMoves, Goes, Kept, Counted
  <1>5. CASE AnswerDuplicate(j)
    <2>1. PICK k \in SameKey(j) : /\ SameRequest(j, k) /\ rows[k] # NoJob
                                  /\ reply' = [reply EXCEPT ![j] = k]
      BY <1>5 DEF AnswerDuplicate
    <2>2. /\ k \in records /\ req[k] = req[j] /\ rows[k] # NoJob
          /\ reply' = [reply EXCEPT ![j] = k]
      BY <2>1 DEF SameKey, SameRequest
    <2>3. /\ pc[j] = "locked" /\ pc'[j] = "accepted" /\ j \notin incoming'
          /\ \A i \in Jobs : i # j => pc'[i] = pc[i] /\ (i \in incoming' => i \in incoming)
          /\ UNCHANGED <<rows, mem, records, objects, queue, faults>>
          /\ UNCHANGED <<phase, boots, popped, booter, todo, cliRuns, req, wpc, wjob>>
      BY <1>0, <1>5 DEF AnswerDuplicate, Leave
    <2>4. Leaves(j)
      BY <1>1, <2>2, <2>3 DEF Leaves, Kept
    <2> QED
      BY <1>0, <1>1, <2>3, <2>4 DEF CallMoves, Kept, Counted
  <1>6. CASE RefuseInLock(j)
    BY <1>0, <1>1, <1>6 DEF RefuseInLock, Leave, CallMoves, Leaves, Kept, Counted
  <1>7. CASE CreateRow(j) \/ StageRow(j) \/ QueueRow(j)
    <2>1. ASSUME NEW from, NEW to, NEW status, SaveNew(j, from, to, status), from # "accepted"
          PROVE  /\ Saves(j, from, to, status) /\ reply' = reply
                 /\ UNCHANGED <<phase, boots, popped, booter, todo, cliRuns, req, wpc, wjob>>
                 /\ Counted /\ pc[j] # "accepted"
                 /\ \A k \in Jobs : k # j => /\ Kept(k) /\ Unmoved(k) /\ pc'[k] = pc[k]
                                             /\ k \in incoming' => k \in incoming
      BY <1>0, <1>1, <2>1 DEF SaveNew, Saves, Goes, Kept, Counted
    <2>2. CASE CreateRow(j)
      BY <2>1, <2>2 DEF CreateRow, CallMoves
    <2>3. CASE StageRow(j)
      BY <2>1, <2>3 DEF StageRow, CallMoves
    <2>4. CASE QueueRow(j)
      BY <2>1, <2>4 DEF QueueRow, CallMoves
    <2> QED
      BY <1>7, <2>2, <2>3, <2>4
  <1>8. CASE MoveUpload(j)
    BY <1>0, <1>1, <1>8 DEF MoveUpload, CallMoves, Goes, Kept, Counted
  <1>9. CASE RecordJob(j)
    <2>1. SameKey(j) = {}
      BY <1>9 DEF RecordJob, AdmitInv, AdmissionStillHolds
    <2> QED
      BY <1>0, <1>1, <1>9, <2>1 DEF RecordJob, CallMoves, Goes, Kept, Counted
  <1>10. CASE Enqueue(j)
    <2>1. HasRoom
      BY <1>10 DEF Enqueue, AdmitInv, AdmissionStillHolds, InLock
    <2>2. \A k : InQueue(k)' <=> InQueue(k) \/ k = j
      BY <1>10, <2>1, QueueAppend DEF Enqueue, HasRoom
    <2> QED
      BY <1>0, <1>10, <2>1, <2>2 DEF Enqueue, HasRoom, CallMoves, Goes, Kept, Unmoved, Counted
  <1>11. CASE Respond(j)
    <2>1. /\ pc[j] = "respond" /\ \A k \in Jobs : k # j => pc'[k] = pc[k]
          /\ UNCHANGED <<rows, mem, records, objects, queue, faults>>
          /\ UNCHANGED <<phase, boots, popped, booter, todo, cliRuns, req, wpc, wjob>>
      BY <1>0, <1>11 DEF Respond, Leave
    <2>2. CASE rows[j] # NoJob /\ j \in records
      BY <1>0, <1>1, <1>11, <2>1, <2>2 DEF Respond, CallMoves, Leaves, Kept, Counted
    <2>3. CASE ~(rows[j] # NoJob /\ j \in records)
      BY <1>0, <1>1, <1>11, <2>1, <2>3 DEF Respond, Leave, CallMoves, Leaves, Kept, Counted
    <2> QED
      BY <2>2, <2>3
  <1>12. CASE CallFault(j)
    <2>1. pc[j] \in {"locked", "respond"} \cup Saved
      BY <1>12 DEF CallFault, Executing, Saved
    <2>2. faults' > 0
      BY <1>0, <1>12 DEF CallFault, Fault
    <2> QED
      BY <1>0, <1>1, <1>12, <2>1, <2>2 DEF CallFault, Fault, Leave, CallMoves, Leaves, Kept, Counted, Saved
  <1> QED
    BY <1>2, <1>3, <1>4, <1>5, <1>6, <1>7, <1>8, <1>9, <1>10, <1>11, <1>12 DEF Handler

\* Where a job is excludes the other places: in the queue, with a worker, with its call.
LEMMA Elsewhere ==
  ASSUME TypeInv, PlaceInv
  PROVE  /\ \A j \in Jobs : InQueue(j) => pc[j] \notin Unsaved \cup Saved /\ ~Held(j)
         /\ \A w \in Workers : wjob[w] # NoJob =>
               /\ wjob[w] \in Jobs /\ pc[wjob[w]] \notin Unsaved \cup Saved /\ ~InQueue(wjob[w])
               /\ \A v \in Workers : v # w => wjob[v] # wjob[w]
  <1>0. NoJob \notin Jobs /\ wjob \in [Workers -> Jobs \cup {NoJob}]
    BY DistinctAssumption DEF TypeInv, TypeOK
  <1>1. Unsaved \cup Saved \subseteq InLock \cup {"idle", "receive", "waiting"}
    BY DEF Unsaved, Saved, InLock
  <1>2. ASSUME NEW j \in Jobs, InQueue(j)
        PROVE  pc[j] \notin Unsaved \cup Saved /\ ~Held(j)
    BY <1>0, <1>1, <1>2 DEF InQueue, Held, PlaceInv, QueueOfOthers, TakenFromQueue, Fresh
  <1>3. ASSUME NEW w \in Workers, wjob[w] # NoJob
        PROVE  /\ wjob[w] \in Jobs /\ pc[wjob[w]] \notin Unsaved \cup Saved /\ ~InQueue(wjob[w])
               /\ \A v \in Workers : v # w => wjob[v] # wjob[w]
    BY <1>0, <1>1, <1>3 DEF InQueue, PlaceInv, TakenFromQueue, OneWorkerPerJob, Fresh
  <1> QED
    BY <1>2, <1>3

\* A worker: it takes an item from the queue, or goes on with the job it holds.
Works(w, from, to) == wpc[w] = from /\ wpc'[w] = to
Runs(w, j) ==
    /\ wjob[w] = j /\ wjob'[w] = j /\ objects' = objects
    /\ \/ /\ Works(w, "got", "running") /\ mem'[j] = "RUNNING" /\ rows'[j] = "RUNNING"
       \/ /\ Works(w, "got", "failing") /\ rows'[j] = rows[j] /\ faults' > 0
       \/ /\ Works(w, "running", "saving")
          /\ mem'[j] \in Finished /\ rows'[j] = mem'[j]
       \/ /\ Works(w, "running", "unwinding")
          /\ mem'[j] \in Finished /\ rows'[j] = rows[j] /\ faults' > 0
       \/ /\ Works(w, "saving", "reporting") \/ Works(w, "unwinding", "failing")
          /\ mem'[j] = mem[j] /\ rows'[j] = mem[j]
       \/ /\ wpc[w] \in {"saving", "unwinding"} /\ wpc'[w] = "failing"
          /\ mem'[j] = mem[j] /\ rows'[j] = rows[j] /\ faults' > 0
       \/ /\ Works(w, "reporting", "cleaning") \/ (Works(w, "reporting", "failing") /\ faults' > 0)
          /\ mem'[j] = mem[j] /\ rows'[j] = rows[j]
       \/ /\ Works(w, "failing", "cleaning") /\ rows'[j] = "FAILED" /\ MayFail(rows[j])
       \/ /\ Works(w, "failing", "dying") /\ rows'[j] = rows[j]
Removes(w, j) ==
    /\ wjob[w] = j /\ rows'[j] = rows[j] /\ mem'[j] = NoJob /\ objects' = objects \ {j}
    /\ \/ Works(w, "cleaning", "idle") /\ wjob'[w] = NoJob
       \/ Works(w, "dying", "dead") /\ wjob'[w] = j
Takes(w, j) ==
    /\ Works(w, "idle", "got") /\ wjob'[w] = j /\ Kept(j)
    /\ InQueue(j) /\ ~InQueue(j)'
WorkMoves(w) ==
    /\ UNCHANGED <<phase, boots, popped, booter, todo, cliRuns, pc, req, reply, records, incoming>>
    /\ Counted
    /\ \A v \in Workers : v # w => wpc'[v] = wpc[v] /\ wjob'[v] = wjob[v]
    /\ \/ /\ Works(w, "idle", "exited") /\ wjob'[w] = wjob[w] /\ Alive
          /\ \A k \in Jobs : Kept(k) /\ Unmoved(k)
       \/ /\ Alive
          /\ \E j \in Jobs : Takes(w, j) /\ \A k \in Jobs : k # j => Kept(k) /\ Unmoved(k)
       \/ \E j \in Jobs :
             /\ Runs(w, j) \/ Removes(w, j)
             /\ ~InQueue(j) /\ \A k \in Jobs : Unmoved(k) /\ (k # j => Kept(k))

LEMMA WorkIs ==
  ASSUME TypeInv, PlaceInv, ProcessInv, NEW w \in Workers, Work(w)
  PROVE  WorkMoves(w)
  <1> USE DEF serverVars, bootVars, boundVars, callVars, storeVars, fileVars, workVars,
              outsideRun
  <1>0. /\ wpc \in [Workers -> {"off", "idle", "got", "running", "saving", "unwinding",
                                "reporting", "failing", "cleaning", "dying", "exited", "dead"}]
        /\ wjob \in [Workers -> Jobs \cup {NoJob}] /\ NoJob \notin Jobs
        /\ rows \in [Jobs -> Status \cup {NoJob}] /\ mem \in [Jobs -> Status \cup {NoJob}]
        /\ faults \in Nat
    BY DistinctAssumption DEF TypeInv, TypeOK
  <1>1. ASSUME queue' = queue PROVE \A k : Unmoved(k)
    BY <1>1 DEF Unmoved, InQueue
  <1>2. ASSUME wpc[w] \notin Free
        PROVE  wjob[w] \in Jobs /\ ~InQueue(wjob[w])
    BY <1>0, <1>2, Elsewhere DEF ProcessInv
  <1>3. CASE Get(w)
    <2>1. /\ queue # <<>> /\ queue' = Tail(queue) /\ Alive /\ wpc[w] = "idle"
          /\ UNCHANGED <<rows, mem, records, objects, faults>>
          /\ UNCHANGED <<phase, boots, popped, booter, todo, cliRuns, pc, req, reply, incoming>>
      BY <1>3 DEF Get
    <2>2. /\ Head(queue) \in Jobs \cup {Poison} /\ InQueue(Head(queue))
          /\ \A k : k # Head(queue) => (InQueue(k)' <=> InQueue(k))
          /\ \A k : k = Head(queue) /\ k # Poison => ~InQueue(k)'
      BY <2>1, QueueTail
    <2>3. \A k \in Jobs : Kept(k)
      BY <2>1 DEF Kept
    <2>4. CASE Head(queue) = Poison
      <3>1. wpc' = [wpc EXCEPT ![w] = "exited"] /\ wjob' = wjob
        BY <1>3, <2>4 DEF Get
      <3>2. \A k \in Jobs : Unmoved(k)
        BY <2>2, <2>4, DistinctAssumption DEF Unmoved
      <3> QED
        BY <1>0, <2>1, <2>3, <3>1, <3>2 DEF WorkMoves, Works, Counted
    <2>5. CASE Head(queue) # Poison
      <3>1. wpc' = [wpc EXCEPT ![w] = "got"] /\ wjob' = [wjob EXCEPT ![w] = Head(queue)]
        BY <1>3, <2>5 DEF Get
      <3>2. PICK j \in Jobs : j = Head(queue)
        BY <2>2, <2>5
      <3>3. Takes(w, j)
        BY <1>0, <2>1, <2>2, <2>3, <2>5, <3>1, <3>2 DEF Takes, Works
      <3>4. \A k \in Jobs : k # j => Kept(k) /\ Unmoved(k)
        BY <2>2, <2>3, <3>2 DEF Unmoved
      <3> QED
        BY <1>0, <2>1, <3>1, <3>3, <3>4 DEF WorkMoves, Counted
    <2> QED
      BY <2>4, <2>5
  <1>4. ASSUME NEW j \in Jobs, wjob[w] = j, ~InQueue(j), Runs(w, j) \/ Removes(w, j),
               UNCHANGED <<phase, boots, popped, booter, todo, cliRuns, pc, req, reply, records,
                           incoming, queue>>,
               Counted, \A k \in Jobs : k # j => Kept(k),
               \A v \in Workers : v # w => wpc'[v] = wpc[v] /\ wjob'[v] = wjob[v]
        PROVE  WorkMoves(w)
    BY <1>1, <1>4 DEF WorkMoves
  <1>5. ASSUME NEW s, NEW next, NEW error, SaveRun(w, s, next, error), wpc[w] \notin Free
        PROVE  /\ wjob' = wjob /\ mem'[wjob[w]] = s /\ objects' = objects
               /\ \/ rows'[wjob[w]] = s /\ wpc'[w] = next
                  \/ rows'[wjob[w]] = rows[wjob[w]] /\ wpc'[w] = error /\ faults' > 0
               /\ UNCHANGED <<phase, boots, popped, booter, todo, cliRuns, pc, req, reply, records,
                              incoming, queue>>
               /\ Counted /\ \A k \in Jobs : k # wjob[w] => Kept(k)
               /\ \A v \in Workers : v # w => wpc'[v] = wpc[v] /\ wjob'[v] = wjob[v]
    <2>1. wjob[w] \in Jobs
      BY <1>2, <1>5
    <2>2. CASE rows' = [rows EXCEPT ![wjob[w]] = s] /\ wpc' = [wpc EXCEPT ![w] = next] /\ faults' = faults
      BY <1>0, <1>5, <2>1, <2>2 DEF SaveRun, Counted, Kept
    <2>3. CASE Fault /\ wpc' = [wpc EXCEPT ![w] = error] /\ rows' = rows
      BY <1>0, <1>5, <2>1, <2>3 DEF SaveRun, Counted, Kept, Fault
    <2> QED
      BY <1>5, <2>2, <2>3 DEF SaveRun
  <1>6. CASE Begin(w)
    <2>1. wpc[w] = "got" /\ SaveRun(w, "RUNNING", "running", "failing") /\ wpc[w] \notin Free
      BY <1>6 DEF Begin, Free
    <2>2. Runs(w, wjob[w])
      BY <1>5, <2>1 DEF Runs, Works
    <2> QED
      BY <1>2, <1>4, <1>5, <2>1, <2>2
  <1>7. CASE End(w)
    <2>1. PICK s \in Finished : SaveRun(w, s, "saving", "unwinding")
      BY <1>7 DEF End, Finished
    <2>2. wpc[w] = "running" /\ wpc[w] \notin Free
      BY <1>7 DEF End, Free
    <2>3. Runs(w, wjob[w])
      BY <1>5, <2>1, <2>2 DEF Runs, Works
    <2> QED
      BY <1>2, <1>4, <1>5, <2>1, <2>2, <2>3
  <1>8. CASE FinalSave(w)
    <2>1. /\ SaveRun(w, mem[wjob[w]], IF wpc[w] = "saving" THEN "reporting" ELSE "failing", "failing")
          /\ wpc[w] \in {"saving", "unwinding"} /\ wpc[w] \notin Free
      BY <1>8 DEF FinalSave, Free
    <2>2. Runs(w, wjob[w])
      BY <1>5, <2>1 DEF Runs, Works
    <2> QED
      BY <1>2, <1>4, <1>5, <2>1, <2>2
  <1>9. CASE ReadBack(w)
    <2>1. wpc[w] = "reporting" /\ wpc[w] \notin Free
      BY <1>9 DEF ReadBack, Free
    <2>2. Runs(w, wjob[w]) /\ Counted
      BY <1>0, <1>9, <2>1 DEF ReadBack, Runs, Works, Counted, Fault
    <2> QED
      BY <1>0, <1>2, <1>4, <1>9, <2>1, <2>2 DEF ReadBack, Kept
  <1>10. CASE HandleError(w)
    <2>1. wpc[w] = "failing" /\ wpc[w] \notin Free
      BY <1>10 DEF HandleError, Free
    <2>2. wjob[w] \in Jobs
      BY <1>2, <2>1
    <2>3. Runs(w, wjob[w]) /\ Counted /\ \A k \in Jobs : k # wjob[w] => Kept(k)
      <3>1. CASE /\ MayFail(rows[wjob[w]]) /\ rows' = [rows EXCEPT ![wjob[w]] = "FAILED"]
                 /\ wpc' = [wpc EXCEPT ![w] = "cleaning"] /\ faults' = faults
        BY <1>0, <1>10, <2>1, <2>2, <3>1 DEF HandleError, Runs, Works, Counted, Kept
      <3>2. CASE (faults' = faults \/ Fault) /\ wpc' = [wpc EXCEPT ![w] = "dying"] /\ rows' = rows
        BY <1>0, <1>10, <2>1, <2>2, <3>2 DEF HandleError, Runs, Works, Counted, Kept, Fault
      <3> QED
        BY <1>10, <3>1, <3>2 DEF HandleError
    <2>4. \A v \in Workers : v # w => wpc'[v] = wpc[v] /\ wjob'[v] = wjob[v]
      BY <1>0, <1>10 DEF HandleError
    <2> QED
      BY <1>2, <1>4, <1>10, <2>1, <2>2, <2>3, <2>4 DEF HandleError
  <1>11. CASE RemoveUpload(w)
    <2>1. wpc[w] \in {"cleaning", "dying"} /\ wpc[w] \notin Free
      BY <1>11 DEF RemoveUpload, Free
    <2>2. wjob[w] \in Jobs
      BY <1>2, <2>1
    <2>3. Removes(w, wjob[w])
      BY <1>0, <1>11, <2>1, <2>2 DEF RemoveUpload, WithoutUpload, Removes, Works
    <2>4. Counted /\ \A k \in Jobs : k # wjob[w] => Kept(k)
      BY <1>0, <1>11, <2>2 DEF RemoveUpload, WithoutUpload, Counted, Kept
    <2>5. \A v \in Workers : v # w => wpc'[v] = wpc[v] /\ wjob'[v] = wjob[v]
      BY <1>0, <1>11 DEF RemoveUpload
    <2> QED
      BY <1>2, <1>4, <1>11, <2>1, <2>2, <2>3, <2>4, <2>5 DEF RemoveUpload
  <1> QED
    BY <1>3, <1>6, <1>7, <1>8, <1>9, <1>10, <1>11 DEF Work

\* Shutdown hands itself a job, which it saves FAILED, or gives a worker its order to return.
Drains(j) ==
    /\ InQueue(j) /\ ~InQueue(j)' /\ popped = NoJob /\ popped' = j
    /\ rows'[j] = "FAILED" /\ mem'[j] = NoJob
    /\ \A k \in Jobs : k # j => rows'[k] = rows[k] /\ mem'[k] = mem[k] /\ Unmoved(k)

LEMMA DrainIs ==
  ASSUME TypeInv, PlaceInv, DrainOne
  PROVE  \E j \in Jobs : Drains(j)
  <1>1. /\ queue # <<>> /\ queue' = Tail(queue) /\ popped = NoJob /\ popped' = Head(queue)
        /\ rows' = [rows EXCEPT ![Head(queue)] = "FAILED"]
        /\ mem' = [mem EXCEPT ![Head(queue)] = NoJob] /\ phase = "draining"
    BY DEF DrainOne
  <1>2. /\ rows \in [Jobs -> Status \cup {NoJob}] /\ mem \in [Jobs -> Status \cup {NoJob}]
        /\ queue \in Seq(Jobs)
    BY <1>1 DEF TypeInv, TypeOK, PillsComeLast
  <1>3. /\ InQueue(Head(queue)) /\ Head(queue) \in Jobs
        /\ \A k : k # Head(queue) => (InQueue(k)' <=> InQueue(k))
        /\ \A k : k = Head(queue) /\ k # Poison => ~InQueue(k)'
    BY <1>1, <1>2, QueueTail
  <1>4. PICK j \in Jobs : j = Head(queue)
    BY <1>3
  <1>5. Drains(j)
    BY <1>1, <1>2, <1>3, <1>4, DistinctAssumption DEF Drains, Unmoved
  <1> QED
    BY <1>5

LEMMA PutPillIs ==
  ASSUME TypeInv, PutPill
  PROVE  \A k \in Jobs : Unmoved(k)
  BY QueueAppend, DistinctAssumption DEF PutPill, Unmoved

\* A queue that stays as it is, and one with nothing in it.
LEMMA QueueSame == queue' = queue => \A k : Unmoved(k)
  BY DEF Unmoved, InQueue
LEMMA QueueEmpty == queue = <<>> => \A k : ~InQueue(k)
  BY DEF InQueue

-----------------------------------------------------------------------------
(* Where the process is.                                                     *)

\* A call takes a step only while the server serves.
LEMMA CallsServed ==
  ASSUME AdmitInv, NEW j \in Jobs, CallMoves(j)
  PROVE  phase = "up" /\ phase' = "up"
  BY DEF AdmitInv, CallsWhileUp, CallMoves, Goes, Saves, Leaves, Executing, Saved

LEMMA CallProcessInv ==
  ASSUME AdmitInv, ProcessInv, NEW j \in Jobs, CallMoves(j)
  PROVE  ProcessInv'
  <1>1. phase' = "up" /\ phase = "up"
    BY CallsServed
  <1>2. UNCHANGED <<boots, popped, booter, wpc, wjob>>
    BY DEF CallMoves
  <1> QED
    BY <1>1, <1>2 DEF ProcessInv, Down

LEMMA BootProcessInv ==
  ASSUME TypeInv, ProcessInv, NEW p \in Booters, BootStep(p)
  PROVE  ProcessInv'
  <1> USE DEF workVars, outsideBoot
  <1>0. booter \in [Booters -> {"off", "list", "reconcile", "clean"}] /\ "server" \in Booters
    BY DEF TypeInv, TypeOK, Booters
  <1>1. CASE FinishStart(p) /\ p = "server"
    <2>1. /\ phase = "starting" /\ \A w \in Workers : wjob[w] = NoJob
      BY <1>0, <1>1 DEF FinishStart, ProcessInv, Down, Free
    <2>2. /\ phase' = "up" /\ wpc' = [w \in Workers |-> "idle"] /\ booter'["server"] = "off"
          /\ UNCHANGED <<wjob, popped, boots>>
      BY <1>0, <1>1 DEF FinishStart
    <2> QED
      BY <2>1, <2>2 DEF ProcessInv, Down, Free
  <1>2. CASE ~(FinishStart(p) /\ p = "server")
    <2>1. UNCHANGED <<phase, boots, popped, queue, wpc, wjob>>
      BY <1>2 DEF BootStep, ListJobs, ListInterrupted, FinishStart, ReconcileOne, CleanOne
    <2>2. booter'["server"] # "off" <=> booter["server"] # "off"
      BY <1>0, <1>2 DEF BootStep, ListJobs, ListInterrupted, FinishStart, ReconcileOne, CleanOne, Booters
    <2>3. \A j \in Jobs : InQueue(j)' <=> InQueue(j)
      BY <2>1, QueueSame DEF Unmoved
    <2> QED
      BY <2>1, <2>2, <2>3 DEF ProcessInv
  <1> QED
    BY <1>1, <1>2

LEMMA WorkProcessInv ==
  ASSUME ProcessInv, NEW w \in Workers, WorkMoves(w)
  PROVE  ProcessInv'
  <1>1. /\ UNCHANGED <<phase, boots, popped, booter>>
        /\ \A v \in Workers : v # w => wpc'[v] = wpc[v] /\ wjob'[v] = wjob[v]
    BY DEF WorkMoves
  <1> DEFINE Keeps == /\ wpc[w] # "off" /\ \A j \in Jobs : InQueue(j)' => InQueue(j)
                      /\ wpc'[w] \in Free <=> wjob'[w] = NoJob
  <1>2. Keeps
    <2>1. CASE Works(w, "idle", "exited") /\ wjob'[w] = wjob[w] /\ \A k \in Jobs : Unmoved(k)
      BY <2>1 DEF Works, Free, ProcessInv, Unmoved
    <2>2. ASSUME NEW j \in Jobs, Takes(w, j), \A k \in Jobs : k # j => Kept(k) /\ Unmoved(k)
          PROVE  Keeps
      BY <2>2, DistinctAssumption DEF Takes, Works, Free, Unmoved
    <2>3. ASSUME NEW j \in Jobs, Runs(w, j) \/ Removes(w, j), \A k \in Jobs : Unmoved(k)
          PROVE  Keeps
      <3>1. \A k \in Jobs : InQueue(k)' => InQueue(k)
        BY <2>3 DEF Unmoved
      <3>2. CASE Runs(w, j)
        BY <3>1, <3>2, DistinctAssumption DEF Runs, Works, Free
      <3>3. CASE Removes(w, j)
        BY <3>1, <3>3, DistinctAssumption DEF Removes, Works, Free
      <3> QED
        BY <2>3, <3>2, <3>3
    <2> QED
      BY <2>1, <2>2, <2>3 DEF WorkMoves
  <1>3. phase \notin Down
    BY <1>2 DEF ProcessInv, Keeps
  <1> QED
    BY <1>1, <1>2, <1>3 DEF ProcessInv, Keeps

LEMMA ShutdownProcessInv ==
  ASSUME TypeInv, PlaceInv, ProcessInv, BeginShutdown \/ Shutdown
  PROVE  ProcessInv'
  <1> USE DEF bootVars, workVars
  <1>1. CASE BeginShutdown
    BY <1>1, QueueSame DEF BeginShutdown, Serving, ProcessInv, Down, Free, Unmoved
  <1>2. CASE DrainOne
    <2>1. phase = "draining" /\ UNCHANGED <<phase, boots, booter, wpc, wjob>>
      BY <1>2 DEF DrainOne
    <2> QED
      BY <2>1 DEF ProcessInv, Down
  <1>3. CASE DrainCleanUp
    <2>1. popped' = NoJob /\ UNCHANGED <<phase, boots, booter, queue, wpc, wjob>>
      BY <1>3 DEF DrainCleanUp
    <2> QED
      BY <2>1, QueueSame DEF ProcessInv, Unmoved
  <1>4. CASE DrainDone
    <2>1. /\ phase = "draining" /\ phase' = "poisoning" /\ queue = <<>> /\ popped = NoJob
          /\ UNCHANGED <<boots, popped, booter, queue, wpc, wjob>>
      BY <1>4 DEF DrainDone
    <2>2. \A j \in Jobs : ~InQueue(j)'
      BY <2>1, QueueEmpty, QueueSame DEF Unmoved
    <2> QED
      BY <2>1, <2>2 DEF ProcessInv, Down
  <1>5. CASE PutPill
    <2>1. phase = "poisoning" /\ UNCHANGED <<phase, boots, popped, booter, wpc, wjob>>
      BY <1>5 DEF PutPill
    <2> QED
      BY <1>5, <2>1, PutPillIs DEF ProcessInv, Down, Unmoved
  <1>6. CASE Join
    <2>1. /\ phase = "poisoning" /\ phase' = "stopped" /\ queue' = <<>>
          /\ wpc' = [w \in Workers |-> "off"] /\ wjob' = [w \in Workers |-> NoJob]
          /\ UNCHANGED <<boots, popped, booter>>
      BY <1>6 DEF Join
    <2> QED
      BY <2>1 DEF ProcessInv, Down, Free
  <1> QED
    BY <1>1, <1>2, <1>3, <1>4, <1>5, <1>6 DEF Shutdown

\* The process dies.
Dies == Crash \/ KillStop \/ DrainFault
\* It starts again.
Restarts == RestartAfterCrash \/ StartAgain

LEMMA DiesIs ==
  ASSUME TypeInv, Dies
  PROVE  /\ phase # "starting" \/ phase' = "crashed"
         /\ phase' \in {"crashed", "killed"} /\ LoseMemory /\ Counted
         /\ \A k : ~InQueue(k)'
  BY DEF Dies, Crash, KillStop, DrainFault, LoseMemory, ShuttingDown, Counted, Fault, InQueue,
     TypeInv, TypeOK

LEMMA RestartsIs ==
  ASSUME TypeInv, Restarts
  PROVE  /\ phase \in {"crashed", "stopped", "killed"} /\ phase' = "starting"
         /\ boots' = boots + 1 /\ booter' = [booter EXCEPT !["server"] = "list"]
         /\ UNCHANGED <<popped, todo, faults, cliRuns, pc, req, reply, rows, records, incoming,
                        objects, mem, queue, wpc, wjob>>
         /\ \A k : Unmoved(k)
  BY QueueSame DEF Restarts, RestartAfterCrash, StartAgain, Start, boundVars, callVars, storeVars,
     fileVars, workVars

\* A local command starts, or nothing happens: the server's state stays as it is.
Idles == StartCli \/ StayDown \/ UNCHANGED vars
LEMMA IdlesIs ==
  ASSUME TypeInv, Idles
  PROVE  /\ booter'["server"] = booter["server"]
         /\ UNCHANGED <<phase, boots, popped, todo, faults, pc, req, reply, rows, records, incoming,
                        objects, mem, queue, wpc, wjob>>
         /\ \A k : Unmoved(k)
  BY QueueSame DEF Idles, StartCli, StayDown, vars, serverVars, bootVars, boundVars, callVars,
     storeVars, fileVars, workVars, TypeInv, TypeOK, Booters

LEMMA NextProcessInv ==
  ASSUME TypeInv, AdmitInv, PlaceInv, ProcessInv, [Next]_vars
  PROVE  ProcessInv'
  <1>0. booter \in [Booters -> {"off", "list", "reconcile", "clean"}] /\ "server" \in Booters
        /\ boots \in Nat
    BY DEF TypeInv, TypeOK, Booters
  <1>1. ASSUME NEW j \in Jobs, Receive(j) \/ Handler(j) \/ CallFault(j) PROVE ProcessInv'
    BY <1>1, CallIs, CallProcessInv
  <1>2. ASSUME NEW w \in Workers, Work(w) PROVE ProcessInv'
    BY <1>2, WorkIs, WorkProcessInv
  <1>3. CASE Dies
    <2>1. /\ phase' \in {"crashed", "killed"} /\ queue' = <<>> /\ popped' = NoJob
          /\ wpc' = [w \in Workers |-> "off"] /\ wjob' = [w \in Workers |-> NoJob]
          /\ booter'["server"] = "off" /\ boots' = boots
      BY <1>0, <1>3, DiesIs DEF LoseMemory
    <2> QED
      BY <2>1 DEF ProcessInv, Free
  <1>4. CASE Restarts
    <2>1. /\ phase \in Down /\ phase \notin {"starting", "draining"} /\ phase' = "starting"
          /\ booter'["server"] = "list" /\ boots' >= 1
          /\ UNCHANGED <<popped, queue, wpc, wjob>>
      BY <1>0, <1>4, RestartsIs DEF Down
    <2> QED
      BY <2>1 DEF ProcessInv, Down
  <1>5. CASE Idles
    BY <1>5, IdlesIs DEF ProcessInv, Unmoved
  <1> QED
    BY <1>1, <1>2, <1>3, <1>4, <1>5, BootProcessInv, ShutdownProcessInv DEF Next, Dies, Restarts, Idles

-----------------------------------------------------------------------------
(* What is known and stored of a job.                                        *)

\* A step that keeps the job a worker has in hand, and where the worker is.
LEMMA RunFactKept ==
  ASSUME ProcessInv, TypeInv, NEW w \in Workers, RunFact(w), wpc'[w] = wpc[w], wjob'[w] = wjob[w],
         wjob[w] \in Jobs => rows'[wjob[w]] = rows[wjob[w]] /\ mem'[wjob[w]] = mem[wjob[w]]
  PROVE  RunFact(w)'
  <1>1. wpc[w] \in Free \/ wjob[w] \in Jobs
    BY DEF ProcessInv, TypeInv, TypeOK
  <1> QED
    BY <1>1 DEF RunFact, Free

LEMMA JobFactKept ==
  ASSUME NEW j \in Jobs, JobFact(j), Kept(j), Unmoved(j), pc'[j] = pc[j], reply'[j] = reply[j],
         \A p \in Booters : j \in todo'[p] => j \in todo[p] \/ rows[j] # NoJob
  PROVE  JobFact(j)'
  BY DEF JobFact, Kept, Unmoved

LEMMA CallJobInv ==
  ASSUME TypeInv, PlaceInv, ProcessInv, JobInv, NEW j \in Jobs, CallMoves(j)
  PROVE  JobInv'
  <1>0. /\ reply \in [Jobs -> Jobs \cup {NoJob}] /\ NoJob \notin Jobs /\ NoJob \notin Status
    BY DistinctAssumption DEF TypeInv, TypeOK
  <1>1. /\ UNCHANGED <<todo, wpc, wjob>> /\ pc[j] # "accepted"
        /\ \A k \in Jobs : k # j => Kept(k) /\ Unmoved(k) /\ pc'[k] = pc[k]
    BY DEF CallMoves
  <1>2. JobFact(j) /\ reply[j] = NoJob
    BY <1>1 DEF JobInv, JobFact
  <1>3. \A k \in Jobs : k # j => reply'[k] = reply[k]
    <2>1. reply' = reply \/ (\E k : reply' = [reply EXCEPT ![j] = k])
      BY DEF CallMoves, Leaves
    <2> QED
      BY <1>0, <2>1
  <1>4. ASSUME NEW k \in Jobs, k # j PROVE JobFact(k)'
    BY <1>1, <1>3, <1>4, JobFactKept DEF JobInv
  <1>5. JobFact(j)'
    <2> USE DEF Goes, Kept, Unmoved
    <2>1. CASE pc[j] \in Unsaved /\ pc'[j] \in Unsaved /\ Kept(j) /\ Unmoved(j) /\ reply' = reply
      BY <1>1, <1>2, <2>1 DEF JobFact, Unsaved, Unrecorded, Saved
    <2>2. CASE Leaves(j)
      BY <1>0, <1>1, <1>2, <2>2 DEF JobFact, Unsaved, Unrecorded, Saved, Leaves
    <2>3. CASE reply' = reply /\ (Saves(j, "locked", "created", "CREATED")
                                    \/ Saves(j, "created", "staged", "STAGED")
                                    \/ Saves(j, "staged", "queued", "QUEUED"))
      <3>1. /\ pc[j] \in {"locked", "created", "staged"} /\ pc'[j] \in {"created", "staged", "queued"}
            /\ pc'[j] = "queued" => mem'[j] = "QUEUED"
            /\ rows'[j] \in Status /\ Unmoved(j)
            /\ j \in records' <=> j \in records
        BY <2>3 DEF Saves, Status
      <3>2. ~InQueue(j)
        BY <3>1, Elsewhere DEF Unsaved, Saved
      <3> QED
        BY <1>0, <1>1, <1>2, <2>3, <3>1, <3>2 DEF JobFact, Unsaved, Unrecorded, Saved
    <2>4. CASE Goes(j, "queued", "moved") /\ reply' = reply /\ rows' = rows /\ mem' = mem
                 /\ records' = records
      BY <1>1, <1>2, <2>4 DEF JobFact, Unsaved, Unrecorded, Saved
    <2>5. CASE Goes(j, "moved", "recorded") /\ reply' = reply /\ rows' = rows /\ mem' = mem
      BY <1>1, <1>2, <2>5 DEF JobFact, Unsaved, Unrecorded, Saved
    <2>6. CASE Goes(j, "recorded", "respond") /\ reply' = reply /\ Kept(j)
      BY <1>1, <1>2, <2>6 DEF JobFact, Unsaved, Unrecorded, Saved
    <2> QED
      BY <2>1, <2>2, <2>3, <2>4, <2>5, <2>6 DEF CallMoves, Unsaved
  <1>6. ASSUME NEW w \in Workers PROVE RunFact(w)'
    <2>1. wjob[w] \in Jobs => Kept(wjob[w])
      <3>1. wjob[w] = j => pc[j] \notin Unsaved \cup Saved
        BY <1>0, Elsewhere
      <3>2. pc[j] \notin Unsaved \cup Saved => Leaves(j)
        BY DEF CallMoves, Goes, Saves, Unsaved, Saved
      <3> QED
        BY <1>1, <3>1, <3>2 DEF Leaves
    <2> QED
      BY <1>1, <2>1, RunFactKept DEF JobInv, Kept
  <1> QED
    BY <1>4, <1>5, <1>6 DEF JobInv

LEMMA WorkJobInv ==
  ASSUME TypeInv, PlaceInv, ProcessInv, JobInv, NEW w \in Workers, WorkMoves(w)
  PROVE  JobInv'
  <1>0. NoJob \notin Jobs /\ NoJob \notin Status
    BY DistinctAssumption
  <1>1. /\ UNCHANGED <<todo, pc, reply, records>>
        /\ \A v \in Workers : v # w => wpc'[v] = wpc[v] /\ wjob'[v] = wjob[v]
    BY DEF WorkMoves
  <1>2. ASSUME \A k \in Jobs : Kept(k), Works(w, "idle", "exited"), \A k \in Jobs : Unmoved(k)
        PROVE  JobInv'
    <2>1. \A v \in Workers : v # w => RunFact(v)'
      BY <1>1, <1>2, RunFactKept DEF JobInv, Kept
    <2>2. RunFact(w)'
      BY <1>2 DEF RunFact, Works
    <2>3. \A k \in Jobs : JobFact(k)'
      BY <1>1, <1>2, JobFactKept DEF JobInv
    <2> QED
      BY <2>1, <2>2, <2>3 DEF JobInv
  <1>3. ASSUME NEW j \in Jobs, Takes(w, j), \A k \in Jobs : k # j => Kept(k) /\ Unmoved(k)
        PROVE  JobInv'
    <2>1. \A v \in Workers : v # w => RunFact(v)'
      BY <1>1, <1>3, RunFactKept DEF JobInv, Kept, Takes
    <2>2. RunFact(w)'
      BY <1>3 DEF JobInv, JobFact, RunFact, Works, Takes, Kept
    <2>3. \A k \in Jobs : k # j => JobFact(k)'
      BY <1>1, <1>3, JobFactKept DEF JobInv
    <2>4. JobFact(j)'
      BY <1>1, <1>3 DEF JobInv, JobFact, Takes, Kept
    <2> QED
      BY <2>1, <2>2, <2>3, <2>4 DEF JobInv
  <1>4. ASSUME NEW j \in Jobs, Runs(w, j) \/ Removes(w, j), ~InQueue(j),
               \A k \in Jobs : Unmoved(k) /\ (k # j => Kept(k))
        PROVE  JobInv'
    <2>0. /\ wjob[w] = j /\ pc[j] \notin Unsaved \cup Saved
          /\ \A v \in Workers : v # w => wjob[v] # j
      BY <1>0, <1>4, Elsewhere DEF Runs, Removes
    <2>1. \A v \in Workers : v # w => RunFact(v)'
      BY <1>1, <1>4, <2>0, RunFactKept DEF JobInv, Kept
    <2>2. RunFact(w)'
      <3>1. RunFact(w)
        BY DEF JobInv
      <3>2. CASE Runs(w, j)
        BY <3>1, <3>2 DEF RunFact, Works, Runs, Finished
      <3>3. CASE Removes(w, j)
        BY <3>1, <3>3 DEF RunFact, Works, Removes
      <3> QED
        BY <1>4, <3>2, <3>3
    <2>3. \A k \in Jobs : k # j => JobFact(k)'
      BY <1>1, <1>4, JobFactKept DEF JobInv
    <2>4. rows'[j] = rows[j] \/ rows'[j] # NoJob
      BY <1>0, <1>4 DEF Runs, Removes, Works, Finished, Status, JobInv, RunFact
    <2>5. JobFact(j)'
      BY <1>1, <1>4, <2>0, <2>4 DEF JobInv, JobFact, Unmoved, Unsaved, Saved, Unrecorded
    <2> QED
      BY <2>1, <2>2, <2>3, <2>5 DEF JobInv
  <1> QED
    BY <1>2, <1>3, <1>4 DEF WorkMoves

\* Saving a job FAILED from outside, as reconciliation and shutdown do, does no harm.
LEMMA BootJobInv ==
  ASSUME TypeInv, ProcessInv, JobInv, NEW p \in Booters, BootStep(p)
  PROVE  JobInv'
  <1> USE DEF outsideBoot, callVars, boundVars, workVars
  <1>0. /\ NoJob \notin Status /\ rows \in [Jobs -> Status \cup {NoJob}]
        /\ todo \in [Booters -> SUBSET Jobs] /\ "FAILED" \in Status
    BY DistinctAssumption DEF TypeInv, TypeOK, Status
  <1>1. /\ UNCHANGED <<pc, reply, records, mem, queue, wjob>>
        /\ objects' \subseteq objects
        /\ \A k \in Jobs : rows'[k] = rows[k] \/ (rows'[k] = "FAILED" /\ k \in todo[p])
    <2>1. CASE \E j \in Jobs : ReconcileOne(p, j)
      BY <1>0, <2>1 DEF ReconcileOne
    <2>2. CASE \E j \in Jobs : CleanOne(p, j)
      BY <2>2 DEF CleanOne, WithoutUpload
    <2>3. CASE ListJobs(p) \/ ListInterrupted(p) \/ FinishStart(p)
      BY <2>3 DEF ListJobs, ListInterrupted, FinishStart
    <2> QED
      BY <2>1, <2>2, <2>3 DEF BootStep
  <1>2. \A b \in Booters : todo'[b] \subseteq todo[b] \cup {k \in Jobs : rows[k] # NoJob}
    <2>1. CASE ListJobs(p)
      BY <1>0, <2>1 DEF ListJobs, Interruptible, Status
    <2>2. CASE ListInterrupted(p)
      BY <1>0, <2>2 DEF ListInterrupted, JobInv, JobFact, TypeInv, TypeOK
    <2>3. CASE FinishStart(p) \/ \E j \in Jobs : ReconcileOne(p, j) \/ CleanOne(p, j)
      BY <1>0, <2>3 DEF FinishStart, ReconcileOne, CleanOne
    <2> QED
      BY <2>1, <2>2, <2>3 DEF BootStep
  <1>3. wpc' = wpc \/ \A w \in Workers : wpc'[w] = "idle"
    BY DEF BootStep, ListJobs, ListInterrupted, FinishStart, ReconcileOne, CleanOne
  <1>4. ASSUME NEW k \in Jobs PROVE JobFact(k)'
    <2>1. JobFact(k) /\ Unmoved(k)
      BY <1>1, QueueSame DEF JobInv
    <2>2. k \in todo[p] => rows[k] # NoJob
      BY <2>1 DEF JobFact
    <2> QED
      BY <1>0, <1>1, <1>2, <2>1, <2>2 DEF JobFact, Unmoved
  <1>5. ASSUME NEW w \in Workers PROVE RunFact(w)'
    <2>1. RunFact(w) /\ (wpc[w] \in Free \/ wjob[w] \in Jobs)
      BY DEF JobInv, ProcessInv, TypeInv, TypeOK
    <2> QED
      BY <1>1, <1>3, <2>1 DEF RunFact, Free, Finished
  <1> QED
    BY <1>4, <1>5 DEF JobInv

LEMMA ShutdownJobInv ==
  ASSUME TypeInv, PlaceInv, ProcessInv, JobInv, BeginShutdown \/ Shutdown
  PROVE  JobInv'
  <1> USE DEF bootVars, callVars, storeVars, workVars
  <1>1. UNCHANGED <<pc, reply, records, todo>> /\ objects' \subseteq objects
    BY DEF BeginShutdown, Shutdown, DrainOne, DrainCleanUp, DrainDone, PutPill, Join, fileVars,
       WithoutUpload
  <1>2. CASE DrainOne
    <2>1. PICK j \in Jobs : Drains(j)
      BY <1>2, DrainIs
    <2>2. UNCHANGED <<wpc, wjob>> /\ objects' = objects
      BY <1>2 DEF DrainOne, fileVars
    <2>3. pc[j] \notin Unsaved \cup Saved /\ \A w \in Workers : wjob[w] # j
      BY <2>1, Elsewhere DEF Drains, Held
    <2>4. \A k \in Jobs : k # j => JobFact(k)'
      BY <1>1, <2>1, <2>2 DEF JobInv, JobFact, Drains, Unmoved
    <2>5. JobFact(j)'
      <3>1. "FAILED" # NoJob
        BY DistinctAssumption DEF Status
      <3> QED
        BY <1>1, <2>1, <2>2, <2>3, <3>1 DEF JobInv, JobFact, Drains, Unsaved, Saved, Unrecorded
    <2>6. \A w \in Workers : RunFact(w)'
      BY <2>1, <2>2, <2>3, RunFactKept DEF JobInv, Drains
    <2> QED
      BY <2>4, <2>5, <2>6 DEF JobInv
  <1>3. CASE BeginShutdown \/ DrainCleanUp \/ DrainDone \/ PutPill
    <2>1. UNCHANGED <<rows, mem, wpc, wjob>> /\ \A k \in Jobs : Unmoved(k)
      BY <1>3, QueueSame, PutPillIs DEF BeginShutdown, DrainCleanUp, DrainDone, PutPill
    <2>2. \A k \in Jobs : JobFact(k)'
      BY <1>1, <2>1 DEF JobInv, JobFact, Unmoved
    <2>3. \A w \in Workers : RunFact(w)'
      BY <2>1 DEF JobInv, RunFact
    <2> QED
      BY <2>2, <2>3 DEF JobInv
  <1>4. CASE Join
    <2>1. /\ UNCHANGED <<rows, mem>> /\ queue' = <<>> /\ \A w \in Workers : wpc'[w] = "off"
      BY <1>4 DEF Join
    <2>2. \A k \in Jobs : ~InQueue(k)'
      BY <2>1 DEF InQueue
    <2>3. \A k \in Jobs : JobFact(k)'
      BY <1>1, <2>1, <2>2 DEF JobInv, JobFact
    <2>4. \A w \in Workers : RunFact(w)'
      BY <2>1 DEF RunFact
    <2> QED
      BY <2>3, <2>4 DEF JobInv
  <1> QED
    BY <1>2, <1>3, <1>4 DEF Shutdown

LEMMA NextJobInv ==
  ASSUME TypeInv, AdmitInv, PlaceInv, ProcessInv, JobInv, [Next]_vars
  PROVE  JobInv'
  <1>1. ASSUME NEW j \in Jobs, Receive(j) \/ Handler(j) \/ CallFault(j) PROVE JobInv'
    BY <1>1, CallIs, CallJobInv
  <1>2. ASSUME NEW w \in Workers, Work(w) PROVE JobInv'
    BY <1>2, WorkIs, WorkJobInv
  <1>3. CASE Dies
    <2>1. /\ UNCHANGED <<reply, rows, records, objects>> /\ \A k \in Jobs : ~InQueue(k)'
          /\ \A p \in Booters : todo'[p] \subseteq todo[p]
          /\ \A w \in Workers : wpc'[w] = "off"
          /\ \A k \in Jobs : \/ pc'[k] = pc[k] /\ pc[k] \notin Executing
                             \/ pc'[k] = "lost" /\ pc[k] \in Executing
      BY <1>3, DiesIs DEF LoseMemory, storeVars, fileVars, TypeInv, TypeOK
    <2>2. \A k \in Jobs : JobFact(k)'
      BY <2>1 DEF JobInv, JobFact, Unsaved, Unrecorded, Saved, Executing
    <2>3. \A w \in Workers : RunFact(w)'
      BY <2>1 DEF RunFact
    <2> QED
      BY <2>2, <2>3 DEF JobInv
  <1>4. CASE Restarts \/ Idles
    <2>1. /\ UNCHANGED <<todo, pc, reply, rows, records, objects, mem, wpc, wjob>>
          /\ \A k \in Jobs : Unmoved(k)
      BY <1>4, RestartsIs, IdlesIs
    <2> QED
      BY <2>1 DEF JobInv, JobFact, RunFact, Unmoved
  <1> QED
    BY <1>1, <1>2, <1>3, <1>4, BootJobInv, ShutdownJobInv DEF Next, Dies, Restarts, Idles

-----------------------------------------------------------------------------
(* No phantom work.                                                          *)

\* A job that is somewhere and that no step of its own touches is somewhere after the step.
LEMMA PlacedKept ==
  ASSUME TypeInv, NEW k \in Jobs, Placed(k), InQueue(k) => InQueue(k)' \/ Held(k)', Held(k) => Held(k)',
         pc'[k] = pc[k], Counted
  PROVE  Placed(k)'
  <1>1. faults \in Nat
    BY DEF TypeInv, TypeOK
  <1> QED
    BY <1>1 DEF Placed, Counted

LEMMA CallPhantomInv ==
  ASSUME TypeInv, AdmitInv, PlaceInv, ProcessInv, JobInv, PhantomInv, NEW j \in Jobs, CallMoves(j)
  PROVE  PhantomInv'
  <1>1. /\ phase = "up" /\ phase' = "up" /\ booter["server"] = "off" /\ booter'["server"] = "off"
        /\ NoJob \notin Status /\ faults \in Nat
    BY CallsServed, DistinctAssumption DEF ProcessInv, CallMoves, TypeInv, TypeOK
  <1>2. /\ Counted /\ wjob' = wjob
        /\ \A k \in Jobs : k # j => Kept(k) /\ Unmoved(k) /\ pc'[k] = pc[k]
    BY DEF CallMoves
  <1>3. \A k : Held(k)' <=> Held(k)
    BY <1>2 DEF Held
  <1>4. ASSUME NEW k \in Jobs, k # j, rows'[k] \in Interruptible PROVE Placed(k)'
    <2>1. Placed(k)
      BY <1>1, <1>2, <1>4 DEF PhantomInv, Kept, Alive, Serving
    <2> QED
      BY <1>2, <1>3, <1>4, <2>1, PlacedKept DEF Unmoved
  <1>5. ASSUME rows'[j] \in Interruptible PROVE Placed(j)'
    <2>1. CASE pc'[j] \in Saved
      BY <2>1 DEF Placed
    <2>2. CASE pc[j] \in Unsaved /\ pc'[j] \notin Saved
      <3>1. rows[j] = NoJob
        BY <2>2 DEF JobInv, JobFact
      <3>2. rows'[j] = rows[j]
        BY <2>2 DEF CallMoves, Goes, Leaves, Saves, Kept, Unsaved, Saved
      <3> QED
        BY <1>1, <1>5, <3>1, <3>2 DEF Interruptible, Status
    <2>3. CASE pc[j] \in Saved /\ pc'[j] \notin Saved
      BY <1>1, <1>2, <2>3 DEF CallMoves, Goes, Leaves, Saves, Placed, Saved, Counted
    <2>4. CASE pc[j] \notin Unsaved \cup Saved
      <3>1. Leaves(j) /\ pc[j] = "respond"
        BY <2>4 DEF CallMoves, Goes, Leaves, Saves, Unsaved, Saved
      <3>2. Placed(j) /\ pc[j] \notin Saved /\ pc[j] # "failed"
        BY <1>1, <1>5, <3>1 DEF PhantomInv, Leaves, Kept, Alive, Serving, Saved
      <3> QED
        BY <1>3, <3>1, <3>2 DEF Placed, Leaves, Unmoved
    <2> QED
      BY <2>1, <2>2, <2>3, <2>4
  <1> QED
    BY <1>1, <1>4, <1>5 DEF PhantomInv

LEMMA WorkPhantomInv ==
  ASSUME TypeInv, PlaceInv, ProcessInv, JobInv, PhantomInv, NEW w \in Workers, WorkMoves(w)
  PROVE  PhantomInv'
  <1>1. /\ UNCHANGED <<phase, booter, pc>> /\ Counted
        /\ \A v \in Workers : v # w => wpc'[v] = wpc[v] /\ wjob'[v] = wjob[v]
    BY DEF WorkMoves
  <1>2. booter["server"] = "off"
    BY DEF WorkMoves, Works, Takes, Runs, Removes, Alive, Serving, ShuttingDown, ProcessInv, Down
  <1>3. ASSUME NEW k \in Jobs, rows'[k] = rows[k] \/ Held(k)',
               InQueue(k) => InQueue(k)' \/ Held(k)', Held(k) => Held(k)',
               Alive, rows'[k] \in Interruptible
        PROVE  Placed(k)'
    <2>1. CASE Held(k)'
      BY <2>1 DEF Placed
    <2>2. CASE rows'[k] = rows[k]
      BY <1>1, <1>3, <2>2, PlacedKept DEF PhantomInv
    <2> QED
      BY <1>3, <2>1, <2>2
  <1>4. Alive' <=> Alive
    BY <1>1 DEF Alive, Serving, ShuttingDown
  <1>5. CASE wjob'[w] = wjob[w] /\ \A k \in Jobs : Kept(k) /\ Unmoved(k)
    <2>1. \A k : Held(k)' <=> Held(k)
      BY <1>1, <1>5 DEF Held
    <2> QED
      BY <1>1, <1>2, <1>3, <1>4, <1>5, <2>1 DEF PhantomInv, Kept, Unmoved
  <1>6. ASSUME NEW j \in Jobs, Takes(w, j), \A k \in Jobs : k # j => Kept(k) /\ Unmoved(k)
        PROVE  PhantomInv'
    <2>1. wjob[w] = NoJob /\ Held(j)'
      BY <1>6 DEF Takes, Works, ProcessInv, Free, Held
    <2>2. \A k \in Jobs : Held(k) => Held(k)'
      BY <1>1, <2>1, DistinctAssumption DEF Held
    <2> QED
      BY <1>1, <1>2, <1>3, <1>4, <1>6, <2>1, <2>2 DEF PhantomInv, Kept, Unmoved, Takes
  <1>7. ASSUME NEW j \in Jobs, Runs(w, j) \/ Removes(w, j),
               \A k \in Jobs : Unmoved(k) /\ (k # j => Kept(k))
        PROVE  PhantomInv'
    <2>1. \A k \in Jobs : k # j /\ Held(k) => Held(k)'
      BY <1>1, <1>7 DEF Held, Runs, Removes
    <2>2. Held(j)' \/ (rows'[j] \notin Interruptible)
      BY <1>7 DEF Held, Runs, Removes, Works, JobInv, RunFact, Finished, Interruptible
    <2> QED
      BY <1>1, <1>2, <1>3, <1>4, <1>7, <2>1, <2>2 DEF PhantomInv, Kept, Unmoved
  <1> QED
    BY <1>5, <1>6, <1>7 DEF WorkMoves

LEMMA BootPhantomInv ==
  ASSUME TypeInv, ProcessInv, PhantomInv, NEW p \in Booters, BootStep(p)
  PROVE  PhantomInv'
  <1> USE DEF outsideBoot, callVars, boundVars, workVars
  <1>0. /\ rows \in [Jobs -> Status \cup {NoJob}] /\ todo \in [Booters -> SUBSET Jobs]
        /\ booter \in [Booters -> {"off", "list", "reconcile", "clean"}] /\ "server" \in Booters
        /\ faults \in Nat
    BY DEF TypeInv, TypeOK, Booters
  <1>1. UNCHANGED <<pc, queue, wjob, faults>>
    BY DEF BootStep, ListJobs, ListInterrupted, FinishStart, ReconcileOne, CleanOne
  <1>2. \A k \in Jobs : Placed(k) => Placed(k)'
    BY <1>1, QueueSame DEF Placed, Held, Unmoved
  <1>3. \A k \in Jobs : rows'[k] \in Interruptible => rows[k] \in Interruptible /\ rows'[k] = rows[k]
    BY <1>0 DEF BootStep, ListJobs, ListInterrupted, FinishStart, ReconcileOne, CleanOne, Interruptible
  <1>4. ASSUME p = "server" PROVE PhantomInv'
    <2>1. phase = "starting"
      BY <1>4 DEF ProcessInv, BootStep, ListJobs, ListInterrupted, FinishStart, ReconcileOne, CleanOne
    <2>2. CASE ListJobs(p)
      BY <1>0, <1>4, <2>1, <2>2 DEF ListJobs, PhantomInv, Alive, Serving, ShuttingDown
    <2>3. CASE \E j \in Jobs : ReconcileOne(p, j)
      BY <1>0, <1>4, <2>1, <2>3 DEF ReconcileOne, PhantomInv, Alive, Serving, ShuttingDown, Interruptible
    <2>4. CASE ListInterrupted(p) \/ \E j \in Jobs : CleanOne(p, j)
      BY <1>0, <1>4, <2>1, <2>4
         DEF ListInterrupted, CleanOne, PhantomInv, Alive, Serving, ShuttingDown
    <2>5. CASE FinishStart(p)
      BY <1>0, <1>4, <2>5 DEF FinishStart, PhantomInv
    <2> QED
      BY <2>2, <2>3, <2>4, <2>5 DEF BootStep
  <1>5. ASSUME p = "cli" PROVE PhantomInv'
    <2>1. /\ phase' = phase /\ booter'["server"] = booter["server"]
          /\ todo'["server"] = todo["server"]
      BY <1>0, <1>5 DEF BootStep, ListJobs, ListInterrupted, FinishStart, ReconcileOne, CleanOne
    <2> QED
      BY <1>2, <1>3, <2>1 DEF PhantomInv, Alive, Serving, ShuttingDown
  <1> QED
    BY <1>4, <1>5 DEF Booters

LEMMA ShutdownPhantomInv ==
  ASSUME TypeInv, PlaceInv, ProcessInv, PhantomInv, BeginShutdown \/ Shutdown
  PROVE  PhantomInv'
  <1> USE DEF bootVars, boundVars, callVars, storeVars, workVars
  <1>1. /\ UNCHANGED <<booter, todo, pc, faults>> /\ faults \in Nat
        /\ booter["server"] = "off"
    BY DEF BeginShutdown, Shutdown, DrainOne, DrainCleanUp, DrainDone, PutPill, Join, ProcessInv,
       Serving, TypeInv, TypeOK
  <1>2. CASE DrainOne
    <2>1. PICK j \in Jobs : Drains(j)
      BY <1>2, DrainIs
    <2>2. wjob' = wjob /\ phase = "draining"
      BY <1>2 DEF DrainOne
    <2>3. \A k \in Jobs : k # j /\ Placed(k) => Placed(k)'
      BY <1>1, <2>1, <2>2 DEF Placed, Held, Drains, Unmoved
    <2> QED
      BY <1>1, <2>1, <2>2, <2>3
         DEF PhantomInv, Drains, Interruptible, Alive, Serving, ShuttingDown
  <1>3. CASE BeginShutdown \/ DrainCleanUp \/ DrainDone \/ PutPill
    <2>1. UNCHANGED <<rows, wjob>> /\ (\A k \in Jobs : Unmoved(k)) /\ (Alive' => Alive)
      BY <1>3, QueueSame, PutPillIs
         DEF BeginShutdown, DrainCleanUp, DrainDone, PutPill, Alive, Serving, ShuttingDown
    <2>2. \A k \in Jobs : Placed(k) => Placed(k)'
      BY <1>1, <2>1 DEF Placed, Held, Unmoved
    <2> QED
      BY <1>1, <2>1, <2>2 DEF PhantomInv
  <1>4. CASE Join
    <2>1. ~Alive' /\ rows' = rows
      BY <1>4 DEF Join, Alive, Serving, ShuttingDown
    <2> QED
      BY <1>1, <2>1 DEF PhantomInv
  <1> QED
    BY <1>2, <1>3, <1>4 DEF Shutdown

LEMMA NextPhantomInv ==
  ASSUME TypeInv, AdmitInv, PlaceInv, ProcessInv, JobInv, PhantomInv, [Next]_vars
  PROVE  PhantomInv'
  <1>1. ASSUME NEW j \in Jobs, Receive(j) \/ Handler(j) \/ CallFault(j) PROVE PhantomInv'
    BY <1>1, CallIs, CallPhantomInv
  <1>2. ASSUME NEW w \in Workers, Work(w) PROVE PhantomInv'
    BY <1>2, WorkIs, WorkPhantomInv
  <1>3. CASE Dies \/ Restarts
    <2>1. booter'["server"] \in {"off", "list"} /\ ~Alive' /\ rows' = rows
      BY <1>3, DiesIs, RestartsIs
         DEF LoseMemory, storeVars, TypeInv, TypeOK, Booters, Alive, Serving, ShuttingDown
    <2> QED
      BY <2>1 DEF PhantomInv
  <1>4. CASE Idles
    <2>1. /\ booter'["server"] = booter["server"] /\ UNCHANGED <<phase, todo, pc, faults, rows, wjob>>
          /\ \A k \in Jobs : Unmoved(k)
      BY <1>4, IdlesIs
    <2>2. \A k \in Jobs : Placed(k) => Placed(k)'
      BY <2>1 DEF Placed, Held, Unmoved
    <2> QED
      BY <2>1, <2>2 DEF PhantomInv, Alive, Serving, ShuttingDown
  <1> QED
    BY <1>1, <1>2, <1>3, <1>4, BootPhantomInv, ShutdownPhantomInv DEF Next, Dies, Restarts, Idles

LEMMA InitServiceInv == Init => AdmitInv /\ PlaceInv /\ ProcessInv /\ JobInv /\ PhantomInv
  <1> SUFFICES ASSUME Init PROVE AdmitInv /\ PlaceInv /\ ProcessInv /\ JobInv /\ PhantomInv
    OBVIOUS
  <1>1. AdmitInv /\ PlaceInv
    BY InitAdmitInv, EmptyPlaceInv DEF Init
  <1>2. \A k : ~InQueue(k)
    BY QueueEmpty DEF Init
  <1>3. ProcessInv
    BY <1>2 DEF Init, ProcessInv, Down, Free, Booters
  <1>4. JobInv
    BY <1>2 DEF Init, JobInv, JobFact, RunFact, Unsaved, Saved, Unrecorded
  <1>5. PhantomInv
    BY DistinctAssumption DEF Init, PhantomInv, Interruptible, Status
  <1> QED
    BY <1>1, <1>3, <1>4, <1>5

\* All that holds of the service whatever happens, local commands included.
ServiceInv == TypeInv /\ AdmitInv /\ PlaceInv /\ ProcessInv /\ JobInv /\ PhantomInv

LEMMA ServiceInvHolds == Spec => []ServiceInv
  <1>1. Init => ServiceInv
    BY InitTypeInv, InitServiceInv DEF ServiceInv
  <1>2. ServiceInv /\ [Next]_vars => ServiceInv'
    BY NextTypeInv, NextAdmitInv, NextPlaceInv, NextProcessInv, NextJobInv, NextPhantomInv
       DEF ServiceInv
  <1> QED
    BY <1>1, <1>2, PTL DEF Spec

\* While the server runs, no stored job waits for a run that nobody will give it: it is in the
\* queue, with a worker or with its own call, or it is the known leftover of a storage error; for
\* any crashes, restarts, shutdowns and local commands.
THEOREM NoJobIsForgotten == Spec => []NoPhantomWork
  <1>1. ServiceInv => NoPhantomWork
    <2> SUFFICES ASSUME ServiceInv, Alive, NEW j \in Jobs,
                        rows[j] \in Status \ (Finished \cup {"CREATED"})
                 PROVE  \/ j \in QueuedJobs
                        \/ \E w \in Workers : wjob[w] = j
                        \/ pc[j] \in Executing
                        \/ pc[j] = "failed" /\ faults > 0
      BY DEF NoPhantomWork
    <2>1. Placed(j)
      BY DEF ServiceInv, PhantomInv, Interruptible, Status, Finished
    <2>2. InQueue(j) => j \in QueuedJobs
      <3>1. queue \in Seq(Jobs \cup {Poison}) /\ j # Poison
        BY DistinctAssumption DEF ServiceInv, TypeInv, TypeOK
      <3> QED
        BY <3>1 DEF InQueue, QueuedJobs
    <2> QED
      BY <2>1, <2>2 DEF Placed, Held, Saved, Executing
  <1> QED
    BY <1>1, ServiceInvHolds, PTL

-----------------------------------------------------------------------------
(* What a graceful stop leaves.                                              *)

LEMMA CallStopInv ==
  ASSUME ServiceInv, StopInv, NEW j \in Jobs, CallMoves(j)
  PROVE  StopInv'
  <1> USE DEF ServiceInv
  <1>1. /\ phase = "up" /\ phase' = "up" /\ UNCHANGED <<boots, popped, wpc, wjob>> /\ popped = NoJob
        /\ Counted /\ faults \in Nat
    BY CallsServed DEF CallMoves, ProcessInv, TypeInv, TypeOK
  <1>2. \A k \in Jobs : k # j => /\ Kept(k) /\ Unmoved(k) /\ pc'[k] = pc[k]
                                 /\ k \in incoming' => k \in incoming
    BY DEF CallMoves
  <1>3. \A k : Held(k)' <=> Held(k)
    BY <1>1 DEF Held
  <1> SUFFICES ASSUME FirstLife' PROVE StopInv'
    BY DEF StopInv
  <1>4. FirstLife /\ (faults' = 0 => faults = 0)
    BY <1>1 DEF FirstLife, Counted
  <1>5. ASSUME NEW k \in Jobs, k \in incoming' PROVE pc'[k] \in Uploading
    <2>1. CASE k # j
      BY <1>2, <1>4, <1>5, <2>1 DEF StopInv
    <2>2. CASE k = j
      BY <1>4, <1>5, <2>2 DEF StopInv, CallMoves, Goes, Leaves, Saves, Uploading
    <2> QED
      BY <2>1, <2>2
  <1>6. ASSUME NEW k \in Jobs, faults' = 0 PROVE (rows'[k] \in Finished \cup {NoJob}) \/ Placed(k)'
    <2>1. rows[k] \in Finished \cup {NoJob} \/ Placed(k)
      BY <1>4, <1>6 DEF StopInv
    <2>2. CASE k # j
      BY <1>2, <1>3, <1>4, <1>6, <2>1, <2>2 DEF Placed, Kept, Unmoved
    <2>3. CASE k = j /\ pc'[j] \notin Saved
      <3>1. pc[j] \in Unsaved => rows[j] = NoJob
        BY DEF JobInv, JobFact
      <3> QED
        BY <1>1, <1>3, <1>4, <1>6, <2>1, <2>3, <3>1
           DEF CallMoves, Goes, Leaves, Saves, Kept, Unmoved, Placed, Unsaved, Saved
    <2> QED
      BY <2>2, <2>3 DEF Placed
  <1>7. ASSUME NEW k \in Jobs, k \in objects', faults' = 0
        PROVE  (pc'[k] \in {"moved", "recorded"}) \/ InQueue(k)' \/ Held(k)'
    <2>1. k \in objects => pc[k] \in {"moved", "recorded"} \/ InQueue(k) \/ Held(k)
      BY <1>1, <1>4, <1>7, DistinctAssumption DEF StopInv
    <2>2. CASE k # j
      BY <1>2, <1>3, <1>7, <2>1, <2>2 DEF Kept, Unmoved
    <2>3. CASE k = j
      <3>1. pc[j] \in Unsaved \cup Saved => ~InQueue(j) /\ ~Held(j)
        BY Elsewhere, DistinctAssumption DEF Held
      <3>2. pc[j] \in Unsaved => j \notin objects
        BY DEF JobInv, JobFact
      <3>3. CASE Leaves(j)
        BY <1>1, <1>3, <1>7, <2>1, <2>3, <3>1, <3>2, <3>3
           DEF Leaves, Kept, Unmoved, Unsaved, Saved
      <3>4. CASE ~Leaves(j)
        BY <1>1, <1>3, <1>7, <2>1, <2>3, <3>1, <3>2, <3>4
           DEF CallMoves, Goes, Saves, Kept, Unmoved, Unsaved, Saved
      <3> QED
        BY <3>3, <3>4
    <2> QED
      BY <2>2, <2>3
  <1> QED
    BY <1>1, <1>4, <1>5, <1>6, <1>7 DEF StopInv

LEMMA WorkStopInv ==
  ASSUME ServiceInv, StopInv, NEW w \in Workers, WorkMoves(w)
  PROVE  StopInv'
  <1> USE DEF ServiceInv
  <1>1. /\ UNCHANGED <<phase, boots, popped, pc, incoming>> /\ Counted /\ faults \in Nat
        /\ \A v \in Workers : v # w => wpc'[v] = wpc[v] /\ wjob'[v] = wjob[v]
    BY DEF WorkMoves, TypeInv, TypeOK
  <1> SUFFICES ASSUME FirstLife' PROVE StopInv'
    BY DEF StopInv
  <1>2. FirstLife /\ (faults' = 0 => faults = 0) /\ phase # "starting"
    BY <1>1 DEF FirstLife, Counted, WorkMoves, Works, Takes, Runs, Removes, Alive, Serving,
       ShuttingDown, ProcessInv, Down
  <1> DEFINE Stored(k) == rows[k] \in Finished \cup {NoJob} \/ Placed(k)
             Uploaded(k) == k \in objects =>
                 pc[k] \in {"moved", "recorded"} \/ InQueue(k) \/ Held(k) \/ popped = k
             Fit == \A v \in Workers : wpc[v] \notin {"unwinding", "failing", "dying", "dead"}
  <1>3. ASSUME faults = 0, faults' = 0
        PROVE  Fit' /\ \A k \in Jobs : Stored(k)' /\ Uploaded(k)'
    <2>1. Fit /\ \A k \in Jobs : Stored(k) /\ Uploaded(k)
      BY <1>2, <1>3 DEF StopInv
    <2>2. ASSUME NEW k \in Jobs, Kept(k), InQueue(k) => InQueue(k)' \/ Held(k)', Held(k) => Held(k)'
          PROVE  Stored(k)' /\ Uploaded(k)'
      BY <1>1, <1>3, <2>1, <2>2 DEF Kept, Placed
    <2>3. CASE Works(w, "idle", "exited") /\ wjob'[w] = wjob[w] /\ \A k \in Jobs : Kept(k) /\ Unmoved(k)
      <3>1. \A k : Held(k)' <=> Held(k)
        BY <1>1, <2>3 DEF Held
      <3>2. Fit'
        BY <1>1, <2>1, <2>3 DEF Works
      <3> QED
        BY <2>2, <2>3, <3>1, <3>2 DEF Unmoved
    <2>4. ASSUME NEW j \in Jobs, Takes(w, j), \A k \in Jobs : k # j => Kept(k) /\ Unmoved(k)
          PROVE  Fit' /\ \A k \in Jobs : Stored(k)' /\ Uploaded(k)'
      <3>1. wjob[w] = NoJob /\ Held(j)'
        BY <2>4 DEF Takes, Works, ProcessInv, Free, Held
      <3>2. \A k \in Jobs : Held(k) => Held(k)'
        BY <1>1, <3>1, DistinctAssumption DEF Held
      <3>3. Fit'
        BY <1>1, <2>1, <2>4 DEF Takes, Works
      <3> QED
        BY <2>2, <2>4, <3>1, <3>2, <3>3 DEF Unmoved, Takes
    <2>5. ASSUME NEW j \in Jobs, Runs(w, j) \/ Removes(w, j),
                 \A k \in Jobs : Unmoved(k) /\ (k # j => Kept(k))
          PROVE  Fit' /\ \A k \in Jobs : Stored(k)' /\ Uploaded(k)'
      <3>1. \A k \in Jobs : k # j /\ Held(k) => Held(k)'
        BY <1>1, <2>5 DEF Held, Runs, Removes
      <3>2. wpc[w] \notin {"unwinding", "failing", "dying", "dead"} /\ ~(faults' > 0)
        BY <1>3, <2>1
      <3>3. CASE Runs(w, j)
        <4>1. Held(j)' /\ wpc'[w] \notin {"unwinding", "failing", "dying", "dead"}
          BY <3>2, <3>3 DEF Held, Runs, Works
        <4> QED
          BY <1>1, <2>1, <2>2, <2>5, <3>1, <4>1 DEF Unmoved, Placed
      <3>4. CASE Removes(w, j)
        <4>1. wpc[w] = "cleaning" /\ wpc'[w] = "idle" /\ wjob[w] = j
          BY <3>2, <3>4 DEF Removes, Works
        <4>2. rows'[j] \in Finished /\ j \notin objects'
          BY <3>4, <4>1 DEF Removes, JobInv, RunFact
        <4> QED
          BY <1>1, <2>1, <2>2, <2>5, <3>1, <4>1, <4>2 DEF Unmoved
      <3> QED
        BY <2>5, <3>3, <3>4
    <2> QED
      BY <2>3, <2>4, <2>5 DEF WorkMoves
  <1> QED
    BY <1>1, <1>2, <1>3 DEF StopInv

LEMMA BootStopInv ==
  ASSUME ServiceInv, StopInv, NEW p \in Booters, BootStep(p)
  PROVE  StopInv'
  <1> USE DEF ServiceInv, outsideBoot, callVars, boundVars, workVars
  <1>0. /\ rows \in [Jobs -> Status \cup {NoJob}] /\ todo \in [Booters -> SUBSET Jobs]
        /\ booter \in [Booters -> {"off", "list", "reconcile", "clean"}]
    BY DEF TypeInv, TypeOK
  <1>1. /\ UNCHANGED <<boots, popped, pc, queue, wjob, faults, incoming>>
        /\ objects' \subseteq objects
        /\ phase' = phase \/ (phase = "starting" /\ phase' = "up")
        /\ wpc' = wpc \/ \A w \in Workers : wpc'[w] = "idle"
    BY DEF BootStep, ListJobs, ListInterrupted, FinishStart, ReconcileOne, CleanOne, WithoutUpload,
       ProcessInv
  <1> DEFINE Rows == \A k \in Jobs : rows'[k] = rows[k] \/ (rows'[k] = "FAILED" /\ rows[k] # NoJob)
  <1>2. Rows
    <2>1. ASSUME NEW j \in Jobs, ReconcileOne(p, j) PROVE Rows
      BY <1>0, <2>1 DEF ReconcileOne, JobInv, JobFact
    <2>2. ASSUME NEW j \in Jobs, CleanOne(p, j) PROVE Rows
      BY <2>2 DEF CleanOne
    <2>3. CASE ListJobs(p) \/ ListInterrupted(p) \/ FinishStart(p)
      BY <2>3 DEF ListJobs, ListInterrupted, FinishStart
    <2> QED
      BY <2>1, <2>2, <2>3 DEF BootStep
  <1>3. \A k \in Jobs : (InQueue(k)' <=> InQueue(k)) /\ (Held(k)' <=> Held(k)) /\ (Placed(k)' <=> Placed(k))
    BY <1>1, QueueSame DEF Held, Placed, Unmoved
  <1> QED
    BY <1>1, <1>2, <1>3 DEF StopInv, FirstLife, Finished

LEMMA ShutdownStopInv ==
  ASSUME ServiceInv, StopInv, BeginShutdown \/ Shutdown
  PROVE  StopInv'
  <1> USE DEF ServiceInv, bootVars, boundVars, callVars, storeVars, fileVars, workVars
  <1>0. /\ UNCHANGED <<boots, pc, faults, incoming>> /\ phase' # "starting"
        /\ FirstLife' => FirstLife
    BY DEF BeginShutdown, Shutdown, DrainOne, DrainCleanUp, DrainDone, PutPill, Join, FirstLife,
       Serving, ProcessInv
  <1> SUFFICES ASSUME FirstLife, FirstLife' PROVE StopInv'
    BY <1>0 DEF StopInv
  <1>1. CASE DrainOne
    <2>1. PICK j \in Jobs : Drains(j)
      BY <1>1, DrainIs
    <2>2. UNCHANGED <<wpc, wjob, objects>>
      BY <1>1 DEF DrainOne
    <2>3. \A k \in Jobs : Held(k)' <=> Held(k)
      BY <2>2 DEF Held
    <2> QED
      BY <1>0, <2>1, <2>2, <2>3, DistinctAssumption DEF StopInv, Drains, Unmoved, Placed, Finished
  <1>2. CASE DrainCleanUp
    <2>1. UNCHANGED <<rows, queue, wpc, wjob>> /\ objects' = objects \ {popped}
      BY <1>2 DEF DrainCleanUp, WithoutUpload
    <2>2. \A k \in Jobs : (InQueue(k)' <=> InQueue(k)) /\ (Held(k)' <=> Held(k)) /\ (Placed(k)' <=> Placed(k))
      BY <1>0, <2>1, QueueSame DEF Held, Placed, Unmoved
    <2> QED
      BY <1>0, <2>1, <2>2 DEF StopInv
  <1>3. CASE BeginShutdown \/ DrainDone \/ PutPill
    <2>1. UNCHANGED <<rows, objects, wpc, wjob, popped>> /\ \A k \in Jobs : Unmoved(k)
      BY <1>3, QueueSame, PutPillIs DEF BeginShutdown, DrainDone, PutPill
    <2>2. \A k \in Jobs : (InQueue(k)' <=> InQueue(k)) /\ (Held(k)' <=> Held(k)) /\ (Placed(k)' <=> Placed(k))
      BY <1>0, <2>1 DEF Held, Placed, Unmoved
    <2> QED
      BY <1>0, <2>1, <2>2 DEF StopInv
  <1>4. CASE Join
    <2>1. /\ UNCHANGED <<rows, objects>> /\ phase = "poisoning" /\ popped = NoJob
          /\ \A w \in Workers : wpc'[w] = "off" /\ wpc[w] \in {"exited", "dead"}
      BY <1>4 DEF Join, ProcessInv
    <2>2. faults = 0 => \A k \in Jobs : ~Held(k)
      BY <2>1, DistinctAssumption DEF StopInv, ProcessInv, Free, Held
    <2>3. \A k \in Jobs : ~InQueue(k) /\ pc[k] \notin Saved
      BY <2>1 DEF ProcessInv, AdmitInv, CallsWhileUp, Saved, Executing
    <2>4. faults = 0 => \A k \in Jobs : ~Placed(k) /\ k \notin objects
      BY <2>1, <2>2, <2>3, DistinctAssumption DEF Placed, StopInv, Saved
    <2> QED
      BY <1>0, <2>1, <2>4 DEF StopInv
  <1> QED
    BY <1>1, <1>2, <1>3, <1>4 DEF Shutdown

LEMMA NextStopInv ==
  ASSUME ServiceInv, StopInv, [Next]_vars
  PROVE  StopInv'
  <1>1. ASSUME NEW j \in Jobs, Receive(j) \/ Handler(j) \/ CallFault(j) PROVE StopInv'
    BY <1>1, CallIs, CallStopInv DEF ServiceInv
  <1>2. ASSUME NEW w \in Workers, Work(w) PROVE StopInv'
    BY <1>2, WorkIs, WorkStopInv DEF ServiceInv
  <1>3. CASE Dies \/ Restarts
    <2>1. boots \in Nat /\ boots >= 1
      BY DEF ServiceInv, TypeInv, TypeOK, ProcessInv
    <2>2. ~FirstLife'
      BY <1>3, <2>1, DiesIs, RestartsIs DEF FirstLife, ServiceInv
    <2> QED
      BY <2>2 DEF StopInv
  <1>4. CASE Idles
    <2>1. /\ UNCHANGED <<phase, boots, popped, pc, faults, rows, incoming, objects, wpc, wjob>>
          /\ \A k \in Jobs : Unmoved(k)
      BY <1>4, IdlesIs DEF ServiceInv
    <2>2. \A k \in Jobs : (InQueue(k)' <=> InQueue(k)) /\ (Held(k)' <=> Held(k)) /\ (Placed(k)' <=> Placed(k))
      BY <2>1 DEF Held, Placed, Unmoved
    <2> QED
      BY <2>1, <2>2 DEF StopInv, FirstLife
  <1> QED
    BY <1>1, <1>2, <1>3, <1>4, BootStopInv, ShutdownStopInv DEF Next, Dies, Restarts, Idles

\* However workers and shutdown share the queue out between them, a graceful stop in the first life
\* of the process, with no storage error, leaves every stored job finished and no file behind.
THEOREM GracefulStopIsClean == Spec => []StoppedIsClean
  <1>1. Init => StopInv
    BY DEF Init, StopInv
  <1>2. ServiceInv /\ StopInv => StoppedIsClean
    <2> SUFFICES ASSUME ServiceInv, StopInv, phase = "stopped", boots = 1, faults = 0
                 PROVE  /\ \A j \in Jobs : rows[j] \in Finished \cup {NoJob}
                        /\ objects = {} /\ incoming = {}
      BY DEF StoppedIsClean
    <2>1. /\ queue = <<>> /\ popped = NoJob /\ \A w \in Workers : wjob[w] = NoJob
          /\ incoming \subseteq Jobs /\ objects \subseteq Jobs
      BY DEF ServiceInv, ProcessInv, Down, Free, TypeInv, TypeOK
    <2>2. \A j \in Jobs : pc[j] \notin Executing
      BY DEF ServiceInv, AdmitInv, CallsWhileUp
    <2>3. \A j \in Jobs : ~InQueue(j) /\ ~Held(j) /\ ~Placed(j)
      BY <2>1, <2>2, QueueEmpty, DistinctAssumption DEF Held, Placed, Saved, Executing
    <2> QED
      BY <2>1, <2>2, <2>3, DistinctAssumption DEF StopInv, FirstLife, Uploading, Executing
  <1>3. ServiceInv /\ StopInv /\ [Next]_vars => StopInv'
    BY NextStopInv
  <1> QED
    BY <1>1, <1>2, <1>3, ServiceInvHolds, PTL DEF Spec

-----------------------------------------------------------------------------
(* Without local commands: a queued item is what the worker will assume it is. *)

LEMMA CallBackedInv ==
  ASSUME ServiceInv, BackedInv, NEW j \in Jobs, CallMoves(j)
  PROVE  BackedInv'
  <1> USE DEF ServiceInv
  <1>1. /\ phase = "up" /\ phase' = "up" /\ UNCHANGED <<booter, cliRuns, popped, wpc, wjob>>
        /\ popped = NoJob /\ booter["server"] = "off"
    BY CallsServed DEF CallMoves, ProcessInv
  <1>2. \A k \in Jobs : k # j => Kept(k) /\ Unmoved(k) /\ pc'[k] = pc[k]
    BY DEF CallMoves
  <1>3. ASSUME NEW k \in Jobs, k # j PROVE BackFact(k)'
    BY <1>1, <1>2, <1>3, DistinctAssumption DEF BackedInv, BackFact, Kept, Unmoved
  <1>4. BackFact(j)'
    <2>1. BackFact(j) /\ (pc[j] \in Unsaved \cup Saved => ~InQueue(j)) /\ popped # j
      BY <1>1, Elsewhere, DistinctAssumption DEF BackedInv
    <2>2. CASE Leaves(j)
      BY <1>1, <2>1, <2>2 DEF Leaves, BackFact, Kept, Unmoved
    <2>3. CASE ~Leaves(j)
      BY <1>1, <2>1, <2>3 DEF CallMoves, Goes, Saves, BackFact, Kept, Unmoved, Unsaved, Saved
    <2> QED
      BY <2>2, <2>3
  <1>5. ASSUME NEW w \in Workers PROVE RowFact(w)'
    <2>1. wjob[w] \in Jobs => Kept(wjob[w])
      <3>1. wjob[w] = j => pc[j] \notin Unsaved \cup Saved
        BY Elsewhere, DistinctAssumption
      <3>2. pc[j] \notin Unsaved \cup Saved => Leaves(j)
        BY DEF CallMoves, Goes, Saves, Unsaved, Saved
      <3> QED
        BY <1>2, <3>1, <3>2 DEF Leaves
    <2>2. wpc[w] \in Free \/ wjob[w] \in Jobs
      BY DEF ProcessInv, TypeInv, TypeOK
    <2> QED
      BY <1>1, <2>1, <2>2 DEF BackedInv, RowFact, Kept, Free
  <1> QED
    BY <1>1, <1>3, <1>4, <1>5 DEF BackedInv

LEMMA WorkBackedInv ==
  ASSUME ServiceInv, BackedInv, NEW w \in Workers, WorkMoves(w)
  PROVE  BackedInv'
  <1> USE DEF ServiceInv
  <1>1. /\ UNCHANGED <<booter, cliRuns, pc, popped, records>> /\ booter["server"] = "off"
        /\ \A v \in Workers : v # w => wpc'[v] = wpc[v] /\ wjob'[v] = wjob[v]
    BY DEF WorkMoves, Works, Takes, Runs, Removes, Alive, Serving, ShuttingDown, ProcessInv, Down
  <1>2. ASSUME NEW v \in Workers PROVE wpc[v] \in Free \/ wjob[v] \in Jobs
    BY DEF ProcessInv, TypeInv, TypeOK
  <1>3. ASSUME NEW v \in Workers, v # w, wjob[v] \in Jobs => Kept(wjob[v]) PROVE RowFact(v)'
    BY <1>1, <1>2, <1>3 DEF BackedInv, RowFact, Kept, Free
  <1>4. ASSUME NEW k \in Jobs, Kept(k), InQueue(k)' => InQueue(k) PROVE BackFact(k)'
    BY <1>1, <1>4 DEF BackedInv, BackFact, Kept
  <1>5. CASE Works(w, "idle", "exited") /\ \A k \in Jobs : Kept(k) /\ Unmoved(k)
    <2>1. RowFact(w)'
      BY <1>5 DEF RowFact, Works
    <2> QED
      BY <1>1, <1>3, <1>4, <1>5, <2>1 DEF BackedInv, Unmoved
  <1>6. ASSUME NEW j \in Jobs, Takes(w, j), \A k \in Jobs : k # j => Kept(k) /\ Unmoved(k)
        PROVE  BackedInv'
    <2>1. RowFact(w)'
      BY <1>6 DEF BackedInv, BackFact, RowFact, Works, Takes, Kept
    <2>2. \A k \in Jobs : Kept(k) /\ (InQueue(k)' => InQueue(k))
      BY <1>6 DEF Takes, Unmoved
    <2> QED
      BY <1>1, <1>3, <1>4, <2>1, <2>2 DEF BackedInv
  <1>7. ASSUME NEW j \in Jobs, Runs(w, j) \/ Removes(w, j), ~InQueue(j),
               \A k \in Jobs : Unmoved(k) /\ (k # j => Kept(k))
        PROVE  BackedInv'
    <2>0. /\ wjob[w] = j /\ pc[j] \notin Unsaved \cup Saved
          /\ \A v \in Workers : v # w => wjob[v] # j
      BY <1>7, Elsewhere, DistinctAssumption DEF Runs, Removes
    <2>1. \A v \in Workers : v # w => RowFact(v)'
      BY <1>3, <1>7, <2>0
    <2>2. RowFact(w)'
      <3>1. RowFact(w) /\ RunFact(w)
        BY DEF BackedInv, JobInv
      <3>2. CASE Runs(w, j)
        BY <3>1, <3>2 DEF RowFact, RunFact, Works, Runs
      <3>3. CASE Removes(w, j)
        BY <3>3 DEF RowFact, Works, Removes
      <3> QED
        BY <1>7, <3>2, <3>3
    <2>3. \A k \in Jobs : k # j => BackFact(k)'
      BY <1>4, <1>7 DEF Unmoved
    <2>4. BackFact(j)'
      BY <1>1, <1>7, <2>0 DEF BackFact, Unmoved, Saved
    <2> QED
      BY <1>1, <2>1, <2>2, <2>3, <2>4 DEF BackedInv
  <1> QED
    BY <1>5, <1>6, <1>7 DEF WorkMoves

LEMMA BootBackedInv ==
  ASSUME ServiceInv, BackedInv, NEW p \in Booters, BootStep(p)
  PROVE  BackedInv'
  <1> USE DEF ServiceInv, outsideBoot, callVars, boundVars, workVars
  <1>0. /\ rows \in [Jobs -> Status \cup {NoJob}] /\ todo \in [Booters -> SUBSET Jobs]
        /\ booter \in [Booters -> {"off", "list", "reconcile", "clean"}]
    BY DEF TypeInv, TypeOK
  <1>1. p = "server" /\ phase = "starting"
    BY DEF BackedInv, ProcessInv, Booters, BootStep, ListJobs, ListInterrupted, FinishStart,
       ReconcileOne, CleanOne
  <1>2. /\ queue = <<>> /\ (\A w \in Workers : wpc[w] = "off") /\ \A k \in Jobs : pc[k] \notin Executing
    BY <1>1 DEF ProcessInv, Down, AdmitInv, CallsWhileUp
  <1>3. /\ UNCHANGED <<cliRuns, pc, queue>> /\ booter'["cli"] = booter["cli"]
        /\ \A w \in Workers : wpc'[w] \in {"off", "idle"}
    BY <1>0, <1>1, <1>2 DEF Booters, BootStep, ListJobs, ListInterrupted, FinishStart, ReconcileOne,
       CleanOne
  <1> DEFINE Stale == booter["server"] = "reconcile" => \A j \in todo["server"] : rows[j] \in Interruptible
  <1>4. Stale'
    <2>1. CASE ListJobs(p)
      BY <1>0, <1>1, <2>1 DEF ListJobs
    <2>2. ASSUME NEW j \in Jobs, ReconcileOne(p, j) PROVE Stale'
      BY <1>0, <1>1, <2>2 DEF ReconcileOne, BackedInv
    <2>3. CASE ListInterrupted(p) \/ FinishStart(p) \/ \E j \in Jobs : CleanOne(p, j)
      BY <1>0, <1>1, <2>3 DEF ListInterrupted, FinishStart, CleanOne
    <2> QED
      BY <2>1, <2>2, <2>3 DEF BootStep
  <1>5. \A k \in Jobs : ~InQueue(k)'
    BY <1>2, <1>3 DEF InQueue
  <1>6. \A k \in Jobs : BackFact(k)'
    BY <1>2, <1>3, <1>5 DEF BackFact, Executing
  <1>7. \A w \in Workers : RowFact(w)'
    BY <1>3 DEF RowFact
  <1> QED
    BY <1>3, <1>4, <1>6, <1>7 DEF BackedInv

LEMMA ShutdownBackedInv ==
  ASSUME ServiceInv, BackedInv, BeginShutdown \/ Shutdown
  PROVE  BackedInv'
  <1> USE DEF ServiceInv, bootVars, boundVars, callVars, storeVars, fileVars, workVars
  <1>0. /\ UNCHANGED <<booter, todo, cliRuns, pc, records>> /\ booter["server"] = "off"
    BY DEF BeginShutdown, Shutdown, DrainOne, DrainCleanUp, DrainDone, PutPill, Join, ProcessInv,
       Serving
  <1>1. CASE DrainOne
    <2>1. PICK j \in Jobs : Drains(j)
      BY <1>1, DrainIs
    <2>2. UNCHANGED <<wpc, wjob, objects>>
      BY <1>1 DEF DrainOne
    <2>3. pc[j] \notin Unsaved \cup Saved /\ \A w \in Workers : wjob[w] # j
      BY <2>1, Elsewhere DEF Drains, Held
    <2>4. \A k \in Jobs : k # j => BackFact(k)'
      BY <1>0, <2>1, <2>2, DistinctAssumption DEF BackedInv, BackFact, Drains, Unmoved
    <2>5. BackFact(j)'
      BY <1>0, <2>1, <2>3 DEF BackFact, Drains, Saved
    <2>6. \A w \in Workers : RowFact(w)'
      <3>1. \A w \in Workers : wpc[w] \in Free \/ wjob[w] \in Jobs
        BY DEF ProcessInv, TypeInv, TypeOK
      <3> QED
        BY <2>1, <2>2, <2>3, <3>1 DEF BackedInv, RowFact, Drains, Free
    <2> QED
      BY <1>0, <2>4, <2>5, <2>6 DEF BackedInv
  <1>2. CASE DrainCleanUp
    <2>1. /\ UNCHANGED <<rows, mem, queue, wpc, wjob>> /\ objects' = objects \ {popped}
          /\ popped' = NoJob /\ \A k \in Jobs : pc[k] \notin Executing
      BY <1>2 DEF DrainCleanUp, WithoutUpload, ProcessInv, AdmitInv, CallsWhileUp
    <2>2. \A k \in Jobs : BackFact(k)'
      BY <1>0, <2>1, QueueSame, DistinctAssumption DEF BackedInv, BackFact, Unmoved, Executing
    <2> QED
      BY <1>0, <2>1, <2>2 DEF BackedInv, RowFact
  <1>3. CASE BeginShutdown \/ DrainDone \/ PutPill
    <2>1. UNCHANGED <<rows, mem, objects, wpc, wjob, popped>> /\ \A k \in Jobs : Unmoved(k)
      BY <1>3, QueueSame, PutPillIs DEF BeginShutdown, DrainDone, PutPill
    <2> QED
      BY <1>0, <2>1 DEF BackedInv, BackFact, RowFact, Unmoved
  <1>4. CASE Join
    <2>1. /\ UNCHANGED <<rows, objects>> /\ \A k \in Jobs : ~InQueue(k)'
          /\ \A w \in Workers : wpc'[w] = "off"
      BY <1>4 DEF Join, InQueue
    <2> QED
      BY <1>0, <2>1 DEF BackedInv, BackFact, RowFact
  <1> QED
    BY <1>1, <1>2, <1>3, <1>4 DEF Shutdown

LEMMA NextBackedInv ==
  ASSUME MaxCliRuns = 0, ServiceInv, BackedInv, [Next]_vars
  PROVE  BackedInv'
  <1>0. booter \in [Booters -> {"off", "list", "reconcile", "clean"}]
        /\ pc \in [Jobs -> Executing \cup {"idle", "accepted", "rejected", "failed", "lost"}]
    BY DEF ServiceInv, TypeInv, TypeOK
  <1>1. ASSUME NEW j \in Jobs, Receive(j) \/ Handler(j) \/ CallFault(j) PROVE BackedInv'
    BY <1>1, CallIs, CallBackedInv DEF ServiceInv
  <1>2. ASSUME NEW w \in Workers, Work(w) PROVE BackedInv'
    BY <1>2, WorkIs, WorkBackedInv DEF ServiceInv
  <1>3. CASE Dies
    <2>1. /\ booter'["server"] = "off" /\ booter'["cli"] = booter["cli"] /\ cliRuns' = cliRuns
          /\ (\A k \in Jobs : ~InQueue(k)') /\ (\A w \in Workers : wpc'[w] = "off")
          /\ \A k \in Jobs : pc'[k] \notin Executing
      BY <1>0, <1>3, DiesIs DEF LoseMemory, Booters, ServiceInv, Executing
    <2> QED
      BY <2>1 DEF BackedInv, BackFact, RowFact, Executing
  <1>4. CASE Restarts
    <2>1. booter'["server"] = "list" /\ booter'["cli"] = booter["cli"]
      BY <1>0, <1>4, RestartsIs DEF ServiceInv, Booters
    <2> QED
      BY <1>4, <2>1, RestartsIs DEF ServiceInv, BackedInv, BackFact, RowFact, Unmoved
  <1>5. CASE Idles
    <2>1. ~StartCli
      BY DEF StartCli, BackedInv
    <2>2. booter' = booter /\ cliRuns' = cliRuns
      BY <1>5, <2>1 DEF Idles, StayDown, vars, bootVars, boundVars
    <2> QED
      BY <1>5, <2>2, IdlesIs DEF ServiceInv, BackedInv, BackFact, RowFact, Unmoved
  <1> QED
    BY <1>1, <1>2, <1>3, <1>4, <1>5, BootBackedInv, ShutdownBackedInv DEF Next, Dies, Restarts, Idles

LEMMA BackedInvHolds ==
  ASSUME MaxCliRuns = 0
  PROVE  Spec => []BackedInv
  <1>1. Init => BackedInv
    BY QueueEmpty, DistinctAssumption DEF Init, BackedInv, BackFact, RowFact, Booters
  <1>2. ServiceInv /\ BackedInv /\ [Next]_vars => BackedInv'
    BY NextBackedInv
  <1> QED
    BY <1>1, <1>2, ServiceInvHolds, PTL DEF Spec

\* What a worker takes from the queue is stored QUEUED, recorded, has its upload in place, is queued
\* once and is in nobody's hands: through storage errors, kills and restarts, as long as no local
\* command reconciles the live server's jobs.
THEOREM QueuedJobsAreBacked ==
  ASSUME MaxCliRuns = 0
  PROVE  Spec => []QueueIsBacked
  <1>1. ServiceInv /\ BackedInv => QueueIsBacked
    <2> SUFFICES ASSUME ServiceInv, BackedInv PROVE QueueIsBacked
      OBVIOUS
    <2>1. queue \in Seq(Jobs \cup {Poison}) /\ DOMAIN queue = 1 .. Len(queue)
      BY DEF ServiceInv, TypeInv, TypeOK
    <2>2. ASSUME NEW j \in QueuedJobs
          PROVE  /\ rows[j] = "QUEUED" /\ mem[j] = "QUEUED"
                 /\ j \in records /\ j \in objects
                 /\ \A w \in Workers : wjob[w] # j
      <3>1. j \in Jobs /\ InQueue(j)
        BY <2>1, <2>2 DEF QueuedJobs, InQueue
      <3>2. \A w \in Workers : wjob[w] # j
        BY <3>1, Elsewhere DEF ServiceInv, Held
      <3> QED
        BY <3>1, <3>2 DEF ServiceInv, JobInv, JobFact, BackedInv, BackFact
    <2>3. \A m, n \in DOMAIN queue : (queue[m] = queue[n] /\ queue[m] # Poison) => m = n
      BY <2>1 DEF ServiceInv, PlaceInv, QueuedOnce
    <2> QED
      BY <2>2, <2>3 DEF QueueIsBacked
  <1> QED
    BY <1>1, ServiceInvHolds, BackedInvHolds, PTL

-----------------------------------------------------------------------------
(* An upload goes when its job is over.                                      *)

LEMMA CallUploadInv ==
  ASSUME ServiceInv, BackedInv, UploadInv, NEW j \in Jobs, CallMoves(j)
  PROVE  UploadInv'
  <1>1. UNCHANGED <<phase, boots, popped, wpc, wjob>> /\ \A k \in Jobs : k # j => Kept(k)
    BY DEF CallMoves
  <1>2. /\ Alive' <=> Alive
        /\ \A k \in Jobs : Leaving(k)' <=> Leaving(k)
    BY <1>1 DEF Alive, Serving, ShuttingDown, Leaving
  <1>3. j \in objects' => j \in objects \/ pc[j] = "queued"
    BY DEF CallMoves, Saves, Leaves, Kept, Goes
  <1>4. j \in objects' /\ rows'[j] \in Finished => j \in objects /\ rows'[j] = rows[j]
    <2>1. pc[j] \in {"queued", "moved", "recorded"} => rows[j] = "QUEUED"
      BY DEF BackedInv, BackFact
    <2> QED
      BY <2>1 DEF CallMoves, Saves, Leaves, Kept, Goes, Finished
  <1>5. ASSUME NEW w \in Workers, wpc[w] = "dead" PROVE wjob[w] \notin objects'
    <2>1. wjob[w] \in Jobs /\ pc[wjob[w]] \notin Saved
      BY <1>5, Elsewhere DEF ServiceInv, ProcessInv, Free
    <2> QED
      BY <1>1, <1>3, <1>5, <2>1 DEF UploadInv, Kept, Saved
  <1> QED
    BY <1>1, <1>2, <1>4, <1>5 DEF UploadInv, Kept

LEMMA WorkUploadInv ==
  ASSUME ServiceInv, UploadInv, NEW w \in Workers, WorkMoves(w)
  PROVE  UploadInv'
  <1>1. /\ UNCHANGED <<phase, boots, popped>>
        /\ \A v \in Workers : v # w => wpc'[v] = wpc[v] /\ wjob'[v] = wjob[v]
        /\ Alive' <=> Alive
    BY DEF WorkMoves, Alive, Serving, ShuttingDown
  <1>0. NoJob \notin Jobs /\ \A v \in Workers : wpc[v] \in Free \/ wjob[v] \in Jobs
    BY DistinctAssumption DEF ServiceInv, ProcessInv, TypeInv, TypeOK
  <1>2. ASSUME NEW k \in Jobs, Kept(k), wjob[w] # k PROVE Leaving(k) => Leaving(k)'
    BY <1>1, <1>2 DEF Leaving
  <1>3. CASE Works(w, "idle", "exited") /\ \A k \in Jobs : Kept(k)
    <2>1. wjob[w] = NoJob /\ wpc'[w] # "dead"
      BY <1>3 DEF ServiceInv, ProcessInv, Free, Works
    <2>2. \A k \in Jobs : Kept(k) /\ (Leaving(k) => Leaving(k)')
      BY <1>0, <1>2, <1>3, <2>1
    <2> QED
      BY <1>0, <1>1, <2>1, <2>2 DEF UploadInv, Kept, Free
  <1>4. ASSUME NEW j \in Jobs, Takes(w, j), \A k \in Jobs : k # j => Kept(k) /\ Unmoved(k)
        PROVE  UploadInv'
    <2>1. wjob[w] = NoJob /\ wpc'[w] # "dead" /\ Leaving(j)'
      BY <1>4 DEF ServiceInv, ProcessInv, Free, Works, Takes, Leaving
    <2>2. \A k \in Jobs : Kept(k) /\ (Leaving(k) => Leaving(k)')
      BY <1>0, <1>2, <1>4, <2>1 DEF Takes
    <2> QED
      BY <1>0, <1>1, <2>1, <2>2 DEF UploadInv, Kept, Free
  <1>5. ASSUME NEW j \in Jobs, Runs(w, j) \/ Removes(w, j), \A k \in Jobs : k # j => Kept(k)
        PROVE  UploadInv'
    <2>1. /\ wjob[w] = j /\ objects' \subseteq objects
          /\ \A k \in Jobs : k # j => Kept(k) /\ (Leaving(k) => Leaving(k)')
      BY <1>2, <1>5 DEF Runs, Removes
    <2>2. CASE Runs(w, j)
      <3>1. Leaving(j)' /\ wpc'[w] # "dead"
        BY <2>2 DEF Runs, Works, Leaving
      <3> QED
        BY <1>0, <1>1, <2>1, <3>1 DEF UploadInv, Kept
    <2>3. CASE Removes(w, j)
      <3>1. j \notin objects' /\ (wpc'[w] = "dead" => wjob'[w] = j)
        BY <2>3 DEF Removes, Works
      <3> QED
        BY <1>0, <1>1, <2>1, <3>1 DEF UploadInv, Kept
    <2> QED
      BY <1>5, <2>2, <2>3
  <1> QED
    BY <1>3, <1>4, <1>5 DEF WorkMoves

LEMMA OtherUploadInv ==
  ASSUME ServiceInv, StopInv, BackedInv, UploadInv,
         \/ \E p \in Booters : BootStep(p)
         \/ BeginShutdown \/ Shutdown \/ Dies \/ Restarts \/ Idles
  PROVE  UploadInv'
  <1> USE DEF ServiceInv
  <1>1. ASSUME NEW p \in Booters, BootStep(p) PROVE UploadInv'
    <2>1. p = "server" /\ phase = "starting"
      BY <1>1 DEF BackedInv, ProcessInv, Booters, BootStep, ListJobs, ListInterrupted, FinishStart,
         ReconcileOne, CleanOne
    <2>2. (\A w \in Workers : wpc[w] = "off") /\ (boots = 1 => objects = {})
      BY <2>1 DEF ProcessInv, Down, StopInv, FirstLife
    <2>3. /\ boots' = boots /\ objects' \subseteq objects /\ \A w \in Workers : wpc'[w] \in {"off", "idle"}
      BY <1>1, <2>1, <2>2 DEF BootStep, ListJobs, ListInterrupted, FinishStart, ReconcileOne,
         CleanOne, outsideBoot, workVars, WithoutUpload
    <2> QED
      BY <2>2, <2>3 DEF UploadInv
  <1>2. CASE DrainOne
    <2>1. PICK j \in Jobs : Drains(j)
      BY <1>2, DrainIs
    <2>2. UNCHANGED <<phase, boots, wpc, wjob, objects>>
      BY <1>2 DEF DrainOne, fileVars
    <2> QED
      BY <2>1, <2>2, DistinctAssumption DEF UploadInv, Drains, Leaving, Alive, Serving, ShuttingDown
  <1>3. CASE DrainCleanUp
    BY <1>3, DistinctAssumption
       DEF DrainCleanUp, WithoutUpload, storeVars, workVars, UploadInv, Leaving, Alive, Serving,
           ShuttingDown
  <1>4. CASE BeginShutdown \/ DrainDone \/ PutPill
    BY <1>4 DEF BeginShutdown, DrainDone, PutPill, storeVars, fileVars, workVars, UploadInv, Leaving,
       Alive, Serving, ShuttingDown
  <1>5. CASE Join \/ Dies
    <2>1. ~Alive' /\ \A w \in Workers : wpc'[w] = "off"
      BY <1>5, DiesIs DEF Join, LoseMemory, Alive, Serving, ShuttingDown
    <2> QED
      BY <2>1 DEF UploadInv
  <1>6. CASE Restarts
    BY <1>6, RestartsIs DEF UploadInv, Alive, Serving, ShuttingDown
  <1>7. CASE Idles
    BY <1>7, IdlesIs DEF UploadInv, Leaving, Alive, Serving, ShuttingDown
  <1> QED
    BY <1>1, <1>2, <1>3, <1>4, <1>5, <1>6, <1>7 DEF Shutdown

\* As long as the process has not died, the upload of a job that has finished is about to be removed
\* by whoever finished it, worker threads that die included; without local commands.
THEOREM UploadsAreTransient ==
  ASSUME MaxCliRuns = 0
  PROVE  Spec => []UploadIsTransient
  <1>1. Init => StopInv /\ UploadInv
    BY DEF Init, StopInv, UploadInv
  <1>2. ServiceInv /\ UploadInv => UploadIsTransient
    BY DEF ServiceInv, TypeInv, TypeOK, UploadInv, UploadIsTransient, Leaving
  <1>3. ServiceInv /\ StopInv /\ [Next]_vars => StopInv'
    BY NextStopInv
  <1>4. ServiceInv /\ StopInv /\ BackedInv /\ UploadInv /\ [Next]_vars => UploadInv'
    <2> SUFFICES ASSUME ServiceInv, StopInv, BackedInv, UploadInv, [Next]_vars PROVE UploadInv'
      OBVIOUS
    <2>1. ASSUME NEW j \in Jobs, Receive(j) \/ Handler(j) \/ CallFault(j) PROVE UploadInv'
      BY <2>1, CallIs, CallUploadInv DEF ServiceInv
    <2>2. ASSUME NEW w \in Workers, Work(w) PROVE UploadInv'
      BY <2>2, WorkIs, WorkUploadInv DEF ServiceInv
    <2> QED
      BY <2>1, <2>2, OtherUploadInv DEF Next, Dies, Restarts, Idles
  <1> QED
    BY <1>1, <1>2, <1>3, <1>4, ServiceInvHolds, BackedInvHolds, PTL DEF Spec

(***************************************************************************)
(* The service implements RabContract, for any number of calls, keys and   *)
(* workers, any queue capacity, any storage errors and any restarts, as    *)
(* long as no local command reconciles the live server's jobs.  The view   *)
(* of a job is its row once its record is there, so a job is admitted by   *)
(* the INSERT of RecordJob; what comes before it is invisible.             *)
(***************************************************************************)


Shows == [j \in Jobs |-> Shown(j)]
Asks == [j \in Jobs |-> IF j \in records THEN req[j] ELSE NoJob]
Answered == {<<req[j], reply[j]>> : j \in {k \in Jobs : reply[k] # NoJob}}

\* The rows of recorded jobs stay: the protocol shows nothing new.
LEMMA QuietStep ==
  ASSUME UNCHANGED <<req, reply, records>>, \A k \in Jobs : k \in records => rows'[k] = rows[k]
  PROVE  UNCHANGED Contract!vars
  <1>1. Shows' = Shows
    BY DEF Shows, Shown
  <1>2. Asks' = Asks
    BY DEF Asks
  <1>3. Answered' = Answered
    BY DEF Answered
  <1> QED
    BY <1>1, <1>2, <1>3 DEF Contract!vars, Shows, Asks, Answered

\* One recorded job takes a legal step, or an unrecorded one any step.
LEMMA AdvanceStep ==
  ASSUME UNCHANGED <<req, reply, records>>, NEW j \in Jobs,
         \A k \in Jobs : k # j => rows'[k] = rows[k],
         j \in records => \/ rows'[j] = rows[j]
                          \/ /\ rows[j] \in Status \ Finished /\ rows'[j] \in Status
                             /\ CanTransition(rows[j], rows'[j])
  PROVE  [Contract!Next]_Contract!vars
  <1>1. CASE j \in records => rows'[j] = rows[j]
    BY <1>1, QuietStep
  <1>2. CASE /\ j \in records /\ rows[j] \in Status \ Finished /\ rows'[j] \in Status
             /\ CanTransition(rows[j], rows'[j])
    <2>1. Shows' = [Shows EXCEPT ![j] = rows'[j]] /\ Shows[j] = rows[j]
      BY <1>2 DEF Shows, Shown
    <2>2. Asks' = Asks /\ Answered' = Answered
      BY DEF Asks, Answered
    <2>3. Shows[j] # NoJob
      BY <1>2, <2>1, DistinctAssumption
    <2>4. Contract!Advance(j)
      BY <1>2, <2>1, <2>2, <2>3
         DEF Contract!Advance, Contract!Visible, Contract!CanTransition, Contract!Status,
             Contract!Finished, CanTransition, Status, Finished, Shows, Asks, Answered
    <2> QED
      BY <2>4 DEF Contract!Next
  <1> QED
    BY <1>1, <1>2

\* A call is answered with the recorded job of a call that asked for the same.
LEMMA AnswerStep ==
  ASSUME ServiceInv, NEW j \in Jobs, NEW k \in records, req[k] = req[j], rows[k] # NoJob,
         reply[j] = NoJob, reply' = [reply EXCEPT ![j] = k], UNCHANGED <<req, records>>,
         \A i \in Jobs : rows'[i] = rows[i]
  PROVE  [Contract!Next]_Contract!vars
  <1>0. k \in Jobs /\ reply \in [Jobs -> Jobs \cup {NoJob}] /\ NoJob \notin Jobs
    BY DistinctAssumption DEF ServiceInv, TypeInv, TypeOK
  <1>1. Shows' = Shows /\ Asks' = Asks
    BY DEF Shows, Shown, Asks
  <1>2. Answered' = Answered \cup {<<req[j], k>>}
    BY <1>0 DEF Answered
  <1>3. Shows[k] # NoJob /\ Asks[k] = req[j]
    BY <1>0 DEF Shows, Shown, Asks
  <1>4. Contract!Answer(k)
    BY <1>0, <1>1, <1>2, <1>3 DEF Contract!Answer, Contract!Visible, Shows, Asks, Answered
  <1> QED
    BY <1>0, <1>4 DEF Contract!Next

\* The INSERT makes the job visible, QUEUED, under a key no visible job has.
LEMMA AdmitStep ==
  ASSUME ServiceInv, NEW j \in Jobs, j \notin records, rows[j] = "QUEUED", SameKey(j) = {},
         records' = records \cup {j}, UNCHANGED <<req, reply, rows>>
  PROVE  [Contract!Next]_Contract!vars
  <1>0. req[j] \in Requests /\ NoJob \notin Status
    BY DistinctAssumption DEF ServiceInv, TypeInv, TypeOK
  <1>1. Shows' = [Shows EXCEPT ![j] = "QUEUED"] /\ Shows[j] = NoJob
    BY DEF Shows, Shown
  <1>2. PICK r \in Contract!Requests : r = req[j]
    BY <1>0 DEF Contract!Requests, Requests
  <1>3. Asks' = [Asks EXCEPT ![j] = r] /\ Answered' = Answered
    BY <1>2 DEF Asks, Answered
  <1>4. \A k \in Contract!Visible : Asks[k].key # r.key
    BY <1>2 DEF Contract!Visible, Shown, Asks, SameKey
  <1>5. Contract!Admit(j, r)
    BY <1>1, <1>3, <1>4 DEF Contract!Admit, Shows, Asks, Answered
  <1> QED
    BY <1>5 DEF Contract!Next

LEMMA CallRefines ==
  ASSUME ServiceInv, TypeInv', BackedInv, NEW j \in Jobs, CallMoves(j)
  PROVE  [Contract!Next]_Contract!vars
  <1>1. /\ req' = req /\ \A k \in Jobs : k # j => Kept(k)
        /\ records \subseteq Jobs /\ records' \subseteq Jobs
    BY DEF CallMoves, ServiceInv, TypeInv, TypeOK
  <1>2. reply[j] = NoJob /\ (pc[j] \in Unrecorded => j \notin records)
    BY DEF CallMoves, ServiceInv, JobInv, JobFact
  <1>3. (j \in records' <=> j \in records) => records' = records
    BY <1>1 DEF Kept
  <1>4. CASE Kept(j) /\ reply' = reply
    BY <1>1, <1>3, <1>4, QuietStep DEF Kept
  <1>5. CASE Leaves(j) /\ reply' # reply
    <2>1. /\ records' = records /\ \A k \in Jobs : rows'[k] = rows[k]
      BY <1>1, <1>3, <1>5 DEF Leaves, Kept
    <2>2. \E k \in records : /\ req[k] = req[j] /\ rows[k] # NoJob
                             /\ reply' = [reply EXCEPT ![j] = k]
      BY <1>5 DEF Leaves
    <2> QED
      BY <1>1, <1>2, <2>1, <2>2, AnswerStep
  <1>6. CASE \E from, to, status :
                Saves(j, from, to, status) /\ from \in {"locked", "created", "staged"} /\ reply' = reply
    BY <1>1, <1>2, <1>3, <1>6, QuietStep DEF Saves, Goes, Kept, Unrecorded, Unsaved
  <1>7. CASE Goes(j, "queued", "moved") /\ reply' = reply /\ rows' = rows /\ records' = records
    BY <1>1, <1>7, QuietStep
  <1>8. CASE /\ Goes(j, "moved", "recorded") /\ reply' = reply /\ rows' = rows
             /\ records' = records \cup {j} /\ SameKey(j) = {}
    <2>1. j \notin records /\ rows[j] = "QUEUED"
      BY <1>2, <1>8 DEF Goes, Unrecorded, BackedInv, BackFact
    <2> QED
      BY <1>1, <1>8, <2>1, AdmitStep
  <1> QED
    BY <1>4, <1>5, <1>6, <1>7, <1>8 DEF CallMoves, Leaves

LEMMA WorkRefines ==
  ASSUME ServiceInv, BackedInv, NEW w \in Workers, WorkMoves(w)
  PROVE  [Contract!Next]_Contract!vars
  <1>1. UNCHANGED <<req, reply, records>>
    BY DEF WorkMoves
  <1>2. CASE \A k \in Jobs : Kept(k)
    BY <1>1, <1>2, QuietStep DEF Kept
  <1>3. ASSUME NEW j \in Jobs, Runs(w, j) \/ Removes(w, j), \A k \in Jobs : k # j => Kept(k)
        PROVE  [Contract!Next]_Contract!vars
    <2>1. /\ wpc[w] = "got" => rows[j] = "QUEUED"
          /\ wpc[w] \in {"running", "unwinding"} => rows[j] = "RUNNING"
          /\ wpc[w] = "saving" => rows[j] = mem[j]
          /\ wpc[w] = "unwinding" => mem[j] \in Finished
      BY <1>3 DEF ServiceInv, JobInv, RunFact, BackedInv, RowFact, Runs, Removes
    <2>2. rows[j] \in Status \cup {NoJob}
      BY DEF ServiceInv, TypeInv, TypeOK
    <2>3. \/ rows'[j] = rows[j]
          \/ /\ rows[j] \in Status \ Finished /\ rows'[j] \in Status
             /\ CanTransition(rows[j], rows'[j])
      BY <1>3, <2>1, <2>2
         DEF Runs, Removes, Works, CanTransition, MayFail, Status, Finished
    <2>4. \A k \in Jobs : k # j => rows'[k] = rows[k]
      BY <1>3 DEF Kept
    <2> QED
      BY <1>1, <2>3, <2>4, AdvanceStep
  <1> QED
    BY <1>2, <1>3 DEF WorkMoves, Takes

LEMMA BootRefines ==
  ASSUME ServiceInv, BackedInv, NEW p \in Booters, BootStep(p)
  PROVE  [Contract!Next]_Contract!vars
  <1> USE DEF outsideBoot, callVars
  <1>1. UNCHANGED <<req, reply, records>>
    BY DEF BootStep, ListJobs, ListInterrupted, FinishStart, ReconcileOne, CleanOne
  <1>2. ASSUME NEW j \in Jobs, ReconcileOne(p, j) PROVE [Contract!Next]_Contract!vars
    <2>1. rows[j] \in Interruptible
      BY <1>2 DEF ReconcileOne, BackedInv, Booters
    <2>2. rows'[j] = "FAILED" /\ \A k \in Jobs : k # j => rows'[k] = rows[k]
      BY <1>2 DEF ReconcileOne, ServiceInv, TypeInv, TypeOK
    <2> QED
      BY <1>1, <2>1, <2>2, AdvanceStep DEF Interruptible, Status, Finished, CanTransition
  <1>3. CASE ListJobs(p) \/ ListInterrupted(p) \/ FinishStart(p) \/ \E j \in Jobs : CleanOne(p, j)
    <2>1. rows' = rows
      BY <1>3 DEF ListJobs, ListInterrupted, FinishStart, CleanOne
    <2> QED
      BY <1>1, <2>1, QuietStep
  <1> QED
    BY <1>2, <1>3 DEF BootStep

LEMMA OtherRefines ==
  ASSUME ServiceInv, BackedInv, BeginShutdown \/ Shutdown \/ Dies \/ Restarts \/ Idles
  PROVE  [Contract!Next]_Contract!vars
  <1> USE DEF ServiceInv, callVars, storeVars
  <1>1. CASE DrainOne
    <2>1. PICK j \in Jobs : Drains(j)
      BY <1>1, DrainIs
    <2>2. UNCHANGED <<req, reply, records>>
      BY <1>1 DEF DrainOne
    <2>3. rows[j] = "QUEUED"
      BY <2>1 DEF Drains, BackedInv, BackFact
    <2> QED
      BY <2>1, <2>2, <2>3, AdvanceStep DEF Drains, Status, Finished, CanTransition
  <1>2. CASE BeginShutdown \/ DrainCleanUp \/ DrainDone \/ PutPill \/ Join
    <2>1. UNCHANGED <<req, reply, records, rows>>
      BY <1>2 DEF BeginShutdown, DrainCleanUp, DrainDone, PutPill, Join
    <2> QED
      BY <2>1, QuietStep
  <1>3. CASE Dies
    <2>1. UNCHANGED <<req, reply, records, rows>>
      BY <1>3, DiesIs DEF LoseMemory
    <2> QED
      BY <2>1, QuietStep
  <1>4. CASE Restarts \/ Idles
    <2>1. UNCHANGED <<req, reply, records, rows>>
      BY <1>4, RestartsIs, IdlesIs
    <2> QED
      BY <2>1, QuietStep
  <1> QED
    BY <1>1, <1>2, <1>3, <1>4 DEF Shutdown

\* What clients are shown of a job moves only along the state machine and never out of a finished
\* state, a job appears QUEUED under a key that is new, and an answer names the job admitted for the
\* very same request: the service implements the contract through queue, workers, storage errors,
\* kills and restarts, as long as no local command runs beside it.
THEOREM ServiceKeepsItsContract ==
  ASSUME MaxCliRuns = 0
  PROVE  Spec => ImplementsContract
  <1>1. Init => Contract!Init
    BY DEF Init, Contract!Init, Shown
  <1>2. ServiceInv /\ BackedInv /\ [Next]_vars => [Contract!Next]_Contract!vars
    <2> SUFFICES ASSUME ServiceInv, BackedInv, [Next]_vars PROVE [Contract!Next]_Contract!vars
      OBVIOUS
    <2>1. ASSUME NEW j \in Jobs, Receive(j) \/ Handler(j) \/ CallFault(j)
          PROVE  [Contract!Next]_Contract!vars
      BY <2>1, CallIs, CallRefines, NextTypeInv DEF ServiceInv
    <2>2. ASSUME NEW w \in Workers, Work(w) PROVE [Contract!Next]_Contract!vars
      BY <2>2, WorkIs, WorkRefines DEF ServiceInv
    <2> QED
      BY <2>1, <2>2, BootRefines, OtherRefines DEF Next, Dies, Restarts, Idles
  <1> QED
    BY <1>1, <1>2, ServiceInvHolds, BackedInvHolds, PTL DEF Spec, Contract!Spec, ImplementsContract

-----------------------------------------------------------------------------
(* Terminal states are terminal in the store too, before a record shows them. *)

\* Without local commands a stored job that has finished keeps its state: no reconciliation, no
\* worker, no shutdown and no call overwrites a verdict.  With one beside the server a verdict can be
\* lost, as the run rab_beside_cli shows.
THEOREM FinishedStaysFinished ==
  ASSUME MaxCliRuns = 0
  PROVE  Spec => FinishedIsFinal
  <1> DEFINE Final == \A j \in Jobs : rows[j] \in Finished => rows'[j] = rows[j]
  <1>1. ServiceInv /\ BackedInv /\ [Next]_vars => Final
    <2> SUFFICES ASSUME ServiceInv, BackedInv, [Next]_vars, NEW k \in Jobs, rows[k] \in Finished
                 PROVE  rows'[k] = rows[k]
      OBVIOUS
    <2> USE DEF ServiceInv
    <2>1. ASSUME NEW j \in Jobs, Receive(j) \/ Handler(j) \/ CallFault(j) PROVE rows'[k] = rows[k]
      <3>1. CallMoves(j)
        BY <2>1, CallIs
      <3>2. /\ pc[k] \in Unsaved => rows[k] = NoJob
            /\ pc[k] = "created" => rows[k] = "CREATED"
            /\ pc[k] = "staged" => rows[k] = "STAGED"
        BY DEF JobInv, JobFact, BackedInv, BackFact
      <3> QED
        BY <3>1, <3>2, DistinctAssumption
           DEF CallMoves, Saves, Leaves, Goes, Kept, Finished, Status, Unsaved
    <2>2. ASSUME NEW w \in Workers, Work(w) PROVE rows'[k] = rows[k]
      <3>1. WorkMoves(w)
        BY <2>2, WorkIs
      <3>2. CASE Kept(k)
        BY <3>2 DEF Kept
      <3>3. CASE Runs(w, k) \/ Removes(w, k)
        BY <3>3 DEF JobInv, RunFact, BackedInv, RowFact, Runs, Removes, Works, MayFail,
           CanTransition, Finished
      <3> QED
        BY <3>1, <3>2, <3>3 DEF WorkMoves, Takes
    <2>3. ASSUME NEW p \in Booters, BootStep(p) PROVE rows'[k] = rows[k]
      <3>1. ASSUME NEW j \in Jobs, ReconcileOne(p, j) PROVE rows'[k] = rows[k]
        BY <3>1 DEF ReconcileOne, BackedInv, Booters, Interruptible, Finished, TypeInv, TypeOK
      <3> QED
        BY <2>3, <3>1 DEF BootStep, ListJobs, ListInterrupted, FinishStart, CleanOne
    <2>4. CASE DrainOne
      <3>1. PICK j \in Jobs : Drains(j)
        BY <2>4, DrainIs
      <3> QED
        BY <3>1 DEF Drains, BackedInv, BackFact, Finished
    <2>5. CASE BeginShutdown \/ DrainCleanUp \/ DrainDone \/ PutPill \/ Join \/ Dies \/ Restarts \/ Idles
      BY <2>5, DiesIs, RestartsIs, IdlesIs
         DEF BeginShutdown, DrainCleanUp, DrainDone, PutPill, Join, LoseMemory, storeVars
    <2> QED
      BY <2>1, <2>2, <2>3, <2>4, <2>5 DEF Next, Shutdown, Dies, Restarts, Idles
  <1>2. Final => [\A j \in Jobs : rows[j] \in Finished => rows'[j] = rows[j]]_vars
    OBVIOUS
  <1> QED
    BY <1>1, <1>2, ServiceInvHolds, BackedInvHolds, PTL DEF Spec, FinishedIsFinal
=============================================================================
