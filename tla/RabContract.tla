---------------------------- MODULE RabContract ----------------------------
(***************************************************************************)
(* What the RAB analysis-job protocol promises its clients, with no queue, *)
(* no worker and no restart in it.  A job becomes visible QUEUED, moves    *)
(* only along the state machine, never leaves a finished state and never   *)
(* disappears; an idempotency key belongs to one job, and an answer names  *)
(* the one job admitted for exactly that request.                          *)
(***************************************************************************)
EXTENDS JobStates

CONSTANTS
    Jobs,       \* job identities
    Keys,       \* idempotency keys, each scoped to its client
    Meanings,   \* the rest of a request: object, profile, client request id
    NoJob       \* the view of a job that is not visible

Requests == [key : Keys, meaning : Meanings]

VARIABLES
    view,       \* the state the protocol shows for each job, or NoJob
    asked,      \* the request each visible job was admitted for, or NoJob
    answers     \* the <<request, job>> pairs the service has acknowledged

vars == <<view, asked, answers>>

Visible == {j \in Jobs : view[j] # NoJob}

Init ==
    /\ view = [j \in Jobs |-> NoJob]
    /\ asked = [j \in Jobs |-> NoJob]
    /\ answers = {}

\* A request whose key no visible job holds becomes a visible QUEUED job.
Admit(j, r) ==
    /\ view[j] = NoJob
    /\ \A k \in Visible : asked[k].key # r.key
    /\ view' = [view EXCEPT ![j] = "QUEUED"]
    /\ asked' = [asked EXCEPT ![j] = r]
    /\ UNCHANGED answers

\* An unfinished job takes one legal step.
Advance(j) ==
    /\ j \in Visible
    /\ view[j] \notin Finished
    /\ \E s \in Status :
          /\ CanTransition(view[j], s)
          /\ view' = [view EXCEPT ![j] = s]
    /\ UNCHANGED <<asked, answers>>

\* The service names job j in answer to a request identical to j's own.
Answer(j) ==
    /\ j \in Visible
    /\ answers' = answers \cup {<<asked[j], j>>}
    /\ UNCHANGED <<view, asked>>

Next ==
    \E j \in Jobs :
        \/ \E r \in Requests : Admit(j, r)
        \/ Advance(j)
        \/ Answer(j)

Spec == Init /\ [][Next]_vars
=============================================================================
