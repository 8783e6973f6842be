----------------------------- MODULE Correlation -----------------------------
(***************************************************************************)
(* The correlation of a job's objects with the RAB:                        *)
(* CorrelationService.process of src/avbox/correlation/service.py and the  *)
(* HTTP provider of src/avbox/correlation/providers.py.  There is one      *)
(* request per object and no retry; a request is judged by its outcome,    *)
(* and the job's budgets are looked at before it is made.                  *)
(*                                                                         *)
(* Pure operators: what the remote service does is part of the input, as   *)
(* the reply to each object and the time it takes.                         *)
(***************************************************************************)
EXTENDS Integers, Sequences, SequencesExt, FiniteSets

CONSTANTS
    MaxObjects,             \* max_correlated_objects_per_job
    MaxSimilarityQueries,   \* max_similarity_queries_per_job
    TotalDeadline,          \* total_deadline_seconds
    MaxExactRecords,
    MaxSimilarityCandidates

ASSUME CorrelationAssumption ==
    /\ MaxObjects \in Nat \ {0} /\ MaxSimilarityQueries \in Nat /\ TotalDeadline \in Nat \ {0}
    /\ MaxExactRecords \in Nat \ {0} /\ MaxSimilarityCandidates \in Nat \ {0}

\* What is known of an object: a state, the state of the exact lookup, the exact records - does each
\* name the object's digest and size? -, the number of candidates, the errors and why it was
\* skipped.  It is what an answer holds and what an object gets, and nothing makes the parts of an
\* answer agree.  (An object's rab_correlation says NOT_AVAILABLE exactly if the state is UNAVAILABLE.)
States == {"NOT_REQUESTED", "UNAVAILABLE", "COMPLETE", "PARTIAL", "ERROR"}
ExactStates == {"EXACT_MATCH", "NO_EXACT_MATCH", "RAB_UNAVAILABLE", "ERROR"}
Codes == {"RAB_UNAVAILABLE", "RAB_TIMEOUT", "RAB_AUTH_FAILED", "RAB_PROTOCOL_ERROR",
          "RAB_RESPONSE_TOO_LARGE", "RAB_IDENTITY_CONFLICT"}
OwnReasons == {"max_correlated_objects", "total_correlation_deadline"}
Context(state, exact, kept, candidates, errors, reason) ==
    [state |-> state, exact |-> exact, kept |-> kept, candidates |-> candidates,
     errors |-> errors, reason |-> reason]
Contexts ==
    [state : States, exact : ExactStates, kept : Seq(BOOLEAN), candidates : Nat,
     errors : SUBSET Codes, reason : OwnReasons \cup {"none", "theirs"}]

\* A reply: how the request ended, and of an answer its status, whether it is read whole, whether it
\* parses, and then what it says.
Ends == {"no_token", "timeout", "network", "answered"}
Statuses == 200 .. 599
Reply(end, status, fits, parses, says) ==
    [end |-> end, status |-> status, fits |-> fits, parses |-> parses, says |-> says]
AnyReply ==
    [end : Ends, status : Statuses, fits : BOOLEAN, parses : BOOLEAN, says : Contexts]

\* _error()
ErrorContext(code) ==
    IF code = "RAB_UNAVAILABLE"
    THEN Context("UNAVAILABLE", "RAB_UNAVAILABLE", <<>>, 0, {code}, "none")
    ELSE Context("ERROR", "ERROR", <<>>, 0, {code}, "none")

\* UnavailableRabCorrelationProvider
NoProvider == ErrorContext("RAB_UNAVAILABLE")

Take(records, n) == SubSeq(records, 1, IF Len(records) < n THEN Len(records) ELSE n)

\* _validate_and_bound(): cut to the limits first, compare what is left; the answer's own states,
\* errors and reason stay.
BugBound(says) == [says EXCEPT !.kept = Take(@, MaxExactRecords)]
Bound(says) ==
    LET kept == Take(says.kept, MaxExactRecords)
    IN  IF \E i \in DOMAIN kept : ~kept[i] THEN ErrorContext("RAB_IDENTITY_CONFLICT")
        ELSE [says EXCEPT !.kept = kept,
                          !.candidates = IF @ < MaxSimilarityCandidates THEN @
                                         ELSE MaxSimilarityCandidates]

\* HTTPRabCorrelationProvider.correlate(): any status below 400 is an answer to be read, a redirect
\* that is not followed too.
Correlate(reply) ==
    CASE reply.end = "timeout" -> ErrorContext("RAB_TIMEOUT")
      [] reply.end \in {"no_token", "network"} -> ErrorContext("RAB_UNAVAILABLE")
      [] reply.end = "answered" /\ reply.status \in {401, 403} -> ErrorContext("RAB_AUTH_FAILED")
      [] reply.end = "answered" /\ reply.status >= 400 /\ reply.status \notin {401, 403} ->
            ErrorContext("RAB_PROTOCOL_ERROR")
      [] reply.end = "answered" /\ reply.status < 400 ->
            IF ~reply.fits THEN ErrorContext("RAB_RESPONSE_TOO_LARGE")
            ELSE IF ~reply.parses THEN ErrorContext("RAB_PROTOCOL_ERROR") ELSE Bound(reply.says)

\* _skipped()
Skipped(reason) == Context("PARTIAL", "ERROR", <<>>, 0, {}, reason)

\* An object of the job: whether it has all the hashes a request needs - a derived one may lack
\* them and is left out -, whether an analyzer gave it an ssdeep fingerprint, and the environment's
\* part: the reply and its duration.  Ids names the objects.
JobObjects(Ids) ==
    [id : Ids, hashed : BOOLEAN, ssdeep : BOOLEAN, duration : Nat, reply : AnyReply]
AddHashed(kept, object) == IF object.hashed THEN Append(kept, object) ELSE kept
Eligible(objects) == FoldLeft(AddHashed, <<Head(objects)>>, Tail(objects))

Start == [clock |-> 0, similar |-> 0, requests |-> <<>>, contexts |-> <<>>]

\* process(), one object: index is the number of those before it.
BugInTime(run) == TRUE
InTime(run) == run.clock < TotalDeadline
Similar(object, run) == object.ssdeep /\ run.similar < MaxSimilarityQueries
ProcessOne(run, object) ==
    IF Len(run.contexts) >= MaxObjects
    THEN [run EXCEPT !.contexts = Append(@, Skipped("max_correlated_objects"))]
    ELSE IF ~InTime(run)
    THEN [run EXCEPT !.contexts = Append(@, Skipped("total_correlation_deadline"))]
    ELSE [clock |-> run.clock + object.duration,
          similar |-> IF Similar(object, run) THEN run.similar + 1 ELSE run.similar,
          requests |-> Append(run.requests,
                              [object |-> object.id, at |-> run.clock,
                               ssdeep |-> Similar(object, run)]),
          contexts |-> Append(run.contexts, Correlate(object.reply))]

Process(objects) == FoldLeft(ProcessOne, Start, Eligible(objects))

\* A submission with derived objects: every derived object is a job of its own, which is asked for
\* the correlation as well and has budgets of its own (containers.py:429, scanning.py:214).
AddJob(requests, object) == requests \o Process(<<object>>).requests
ChildRequests(objects) == FoldLeft(AddJob, <<>>, Tail(objects))
AllRequests(objects) == ChildRequests(objects) \o Process(objects).requests

\* The budgets of one job hold whatever the remote service does: no request begins at or after the
\* deadline, none is made beyond the object budget, none carries a fingerprint beyond the
\* similarity budget, and every eligible object still gets a context, in order; one that was not
\* asked for is PARTIAL, not an absence, and says why (service.py:47-79).  With the jobs of the
\* derived objects the whole submission makes at most one request more for each of them.
CorrelationIsBounded(objects) ==
    LET run == Process(objects)
    IN  /\ Len(run.contexts) = Len(Eligible(objects))
        /\ Len(run.requests) <= MaxObjects
        /\ \A i \in DOMAIN run.requests : run.requests[i].at < TotalDeadline
        /\ Cardinality({i \in DOMAIN run.requests : run.requests[i].ssdeep})
              <= MaxSimilarityQueries
        /\ \A i \in DOMAIN run.requests : run.requests[i].object = Eligible(objects)[i].id
        /\ \A i \in DOMAIN run.contexts :
              i > Len(run.requests) =>
                 /\ run.contexts[i].state = "PARTIAL" /\ run.contexts[i].exact = "ERROR"
                 /\ run.contexts[i].kept = <<>> /\ run.contexts[i].reason \in OwnReasons
        /\ Len(AllRequests(objects)) <= MaxObjects + Len(objects) - 1

\* A request that failed is never a statement that the RAB does not know the object, nor that it
\* does: only an answer that was accepted, read whole and parsed says so, and it says so itself.
\* Every record that is kept names the object's own digest and size; an answer with another among
\* those within the limit, and every request without such an answer, leaves an error and nothing of
\* an answer (providers.py:117-166).  That is less than docs/rab-correlation-protocol-v1.md:57-58
\* promises, where any inconsistency rejects the response: records past the limit are cut off
\* unread, and an answer may say COMPLETE and NO_EXACT_MATCH beside errors or records.
Usable(reply) ==
    reply.end = "answered" /\ reply.status < 400 /\ reply.fits /\ reply.parses
Foreign(reply) ==
    \E k \in DOMAIN reply.says.kept : k <= MaxExactRecords /\ ~reply.says.kept[k]
FailureIsNotAbsence(objects) ==
    LET run == Process(objects)
        replies == [i \in DOMAIN run.requests |-> Eligible(objects)[i].reply]
    IN  \A i \in DOMAIN run.requests :
            LET reply == replies[i]
                context == run.contexts[i]
            IN  /\ context.exact \in {"EXACT_MATCH", "NO_EXACT_MATCH"} =>
                      Usable(reply) /\ context.exact = reply.says.exact
                /\ \A k \in DOMAIN context.kept : context.kept[k]
                /\ ~Usable(reply) \/ Foreign(reply) =>
                      /\ context.state \in {"UNAVAILABLE", "ERROR"} /\ context.errors # {}
                      /\ context.kept = <<>> /\ context.candidates = 0
=============================================================================
