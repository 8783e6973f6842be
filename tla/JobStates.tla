----------------------------- MODULE JobStates -----------------------------
(***************************************************************************)
(* The scan-job state machine of src/avbox/models/jobs.py: the states a    *)
(* ScanJob can be in and the moves ScanJob.transition() accepts.  Every    *)
(* other module takes its status values and its notion of a legal move     *)
(* from here.                                                              *)
(***************************************************************************)

Status ==
    {"CREATED", "STAGED", "QUEUED", "RUNNING", "COMPLETE", "FAILED", "QUARANTINED"}

\* The TRANSITIONS table; transition() raises ValueError on any other move.
CanTransition(from, to) ==
    \/ from = "CREATED" /\ to \in {"STAGED", "FAILED"}
    \/ from = "STAGED" /\ to \in {"QUEUED", "FAILED", "QUARANTINED"}
    \/ from = "QUEUED" /\ to \in {"RUNNING", "FAILED"}
    \/ from = "RUNNING" /\ to \in {"COMPLETE", "FAILED", "QUARANTINED"}
    \/ from = "COMPLETE" /\ to = "QUARANTINED"

\* The states in which results() reports a completion time.
Finished == {"COMPLETE", "FAILED", "QUARANTINED"}
=============================================================================
