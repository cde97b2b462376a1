---------------------------- MODULE OutcomeRules ----------------------------
(***************************************************************************)
(* The outcome rules "phase3-v1": what analytics says of a Kanban task,    *)
(* as a pure function of the evidence gathered about it                    *)
(* (src/engineering_os/analytics/rules, normalize.py, scope.py).           *)
(*                                                                         *)
(* Kanban's runs and events are records, with None for an unknown time, an *)
(* objective nobody stated or an event of no run; a task's events are the  *)
(* sequence of their ids' order.                                           *)
(***************************************************************************)
EXTENDS Integers, FiniteSets, SequencesExt

CONSTANTS
    None,               \* an absent value
    IncludedTasks,      \* the tasks on included_boards of the scope
    ExcludedTasks       \* on excluded boards, excluded ids or prefixes

FailureOutcomes == {"crashed", "timed_out", "failed", "spawn_failed", "gave_up"}

HumanEventKinds ==
    {"commented", "status", "edited", "promoted_manual", "unblocked",
     "archived", "review_reopened", "model_override_set", "assigned"}

ReworkEventKinds == {"review_reopened", "descendant_invalidated", "changes_requested"}

Closed == {"done", "archived"}

\* The words of Kanban's rows, "" where a row says nothing and "blocked" for
\* whatever the rules do not ask about.
TaskStatuses == {"ready", "running", "blocked"} \cup Closed
RunOutcomes == {"", "completed", "blocked"} \cup FailureOutcomes
RunStatuses == {"running", "done"} \cup RunOutcomes
EventKinds ==
    {"created", "spawned"} \cup RunOutcomes \cup HumanEventKinds \cup ReworkEventKinds

Times == Nat \cup {None}

Runs ==
    [id: Nat, started: Times, ended: Times, status: RunStatuses, outcome: RunOutcomes,
     pid: BOOLEAN, objective: {"PASS", "FAIL", None}]

Events ==
    [kind: EventKinds, run: Times, status: {""} \cup TaskStatuses, auto: BOOLEAN]

Traces == [id: Nat, calls: Nat, models: BOOLEAN]

(***************************************************************************)
(* Runs.  A run with two different times was worked on, one whose times    *)
(* are equal was written by hand; an open run counts once it has a worker  *)
(* or a spawned event.                                                     *)
(***************************************************************************)
IsSyntheticRun(run) ==
    /\ run.started # None
    /\ run.ended # None
    /\ run.started = run.ended

IsQualifyingRun(run, events) ==
    IF run.started # None /\ run.ended # None
    THEN run.started # run.ended
    ELSE \/ run.pid
         \/ \E i \in DOMAIN events :
                events[i].kind = "spawned" /\ events[i].run = run.id

\* By start, the runs without one last, then by id.
StartsBefore(a, b) ==
    LET startOf(run) == IF run.started = None THEN 0 ELSE run.started
        late(run) == IF run.started = None THEN 1 ELSE 0
    IN  \/ late(a) < late(b)
        \/ late(a) = late(b) /\ startOf(a) < startOf(b)
        \/ late(a) = late(b) /\ startOf(a) = startOf(b) /\ a.id <= b.id

\* The place of a run is the number of runs that start before it, itself included.
OrderedRuns(runs) ==
    [i \in 1..Cardinality(runs) |->
        CHOOSE run \in runs : Cardinality({r \in runs : StartsBefore(r, run)}) = i]

RunIsSuccess(run) ==
    \/ run.outcome = "completed"
    \/ run.status = "done" /\ run.outcome = ""

RunIsFailure(run) == run.outcome \in FailureOutcomes

Qualifying(runs, events) ==
    OrderedRuns({run \in runs : IsQualifyingRun(run, events)})

(***************************************************************************)
(* The parts of an outcome.                                                *)
(***************************************************************************)
TypedVerifier(runs) ==
    LET ordered == OrderedRuns(runs)
        typed == {i \in DOMAIN ordered : ordered[i].objective \in {"PASS", "FAIL"}}
    IN  IF typed = {} THEN None ELSE ordered[Max(typed)].objective

GithubVerification(github) ==
    CASE github.state = "NOT_APPLICABLE" -> "NOT_APPLICABLE"
      [] github.state = "AVAILABLE" /\ github.ci = "success" -> "PASS"
      [] github.state = "AVAILABLE"
            /\ github.ci \in {"failure", "cancelled", "timed_out"} -> "FAIL"
      [] OTHER -> "UNKNOWN"

Verification(runs, github) ==
    LET typed == TypedVerifier(runs)
    IN  IF typed # None THEN typed ELSE GithubVerification(github)

Lifecycle(task) == IF task.status \in Closed THEN "DONE" ELSE "NOT_DONE"

Human(events) ==
    IF \E i \in DOMAIN events :
            /\ events[i].kind \in HumanEventKinds
            /\ ~(events[i].kind = "assigned" /\ events[i].auto)
    THEN "DETECTED" ELSE "UNKNOWN"

\* The status the last status event before the i-th asked for.
StatusBefore(events, i) ==
    LET asked == {j \in 1..(i - 1) :
                    events[j].kind = "status" /\ events[j].status # ""}
    IN  IF asked = {} THEN None ELSE events[Max(asked)].status

ReworkCount(task, qualifying, events) ==
    LET asked == {i \in DOMAIN events : events[i].kind \in ReworkEventKinds}
        reopened == {i \in DOMAIN events :
                        /\ events[i].kind = "status"
                        /\ StatusBefore(events, i) \in Closed
                        /\ events[i].status \notin Closed \cup {""}}
        later == IF task.completed = None THEN {}
                 ELSE {i \in DOMAIN qualifying :
                        /\ qualifying[i].started # None
                        /\ qualifying[i].started > task.completed}
    IN  Cardinality(asked) + Cardinality(reopened) + Cardinality(later)

\* Mutant of FirstPass: the last attempt is judged, not the first.
FirstPassOfLast(qualifying) ==
    IF qualifying = << >> THEN "NOT_APPLICABLE"
    ELSE IF RunIsSuccess(Last(qualifying)) THEN "PASS"
    ELSE IF RunIsFailure(Last(qualifying)) THEN "FAIL"
    ELSE "UNKNOWN"

FirstPass(qualifying) ==
    IF qualifying = << >> THEN "NOT_APPLICABLE"
    ELSE IF RunIsSuccess(qualifying[1]) THEN "PASS"
    ELSE IF RunIsFailure(qualifying[1]) THEN "FAIL"
    ELSE "UNKNOWN"

\* The failures before the first success; unknown if a run that neither
\* succeeded nor failed comes before it.
RetryCount(qualifying) ==
    LET stops == {i \in DOMAIN qualifying : ~RunIsFailure(qualifying[i])}
    IN  IF stops = {} THEN Len(qualifying)
        ELSE IF RunIsSuccess(qualifying[Min(stops)]) THEN Min(stops) - 1
        ELSE None

EvidenceGrade(qualifying, traces) ==
    CASE qualifying # << >> /\ traces # {} -> "HIGH"
      [] qualifying # << >> /\ traces = {} -> "MEDIUM"
      [] OTHER -> "LOW"

\* Mutant of FinalOutcome: done counts as verified.
FinalOutcomeTrusting(lifecycle, verification) ==
    IF verification = "FAIL" THEN "VERIFIED_FAILURE"
    ELSE IF lifecycle = "DONE" THEN "VERIFIED_SUCCESS" ELSE "INCOMPLETE"

FinalOutcome(lifecycle, verification) ==
    CASE verification = "FAIL" -> "VERIFIED_FAILURE"
      [] verification = "PASS" /\ lifecycle = "DONE" -> "VERIFIED_SUCCESS"
      [] verification \notin {"PASS", "FAIL"} /\ lifecycle = "DONE" -> "COMPLETED_UNVERIFIED"
      [] OTHER -> "INCOMPLETE"

Cohort(t) ==
    IF t \in ExcludedTasks THEN "fixture"
    ELSE IF t \in IncludedTasks THEN "production"
    ELSE "excluded"

(***************************************************************************)
(* What the materializer calls for one task.  The hash of a bundle covers  *)
(* what it hashes and no more: the trace ids and call counts, but not the  *)
(* models and skills the traces name.  A hash is the value it is taken of. *)
(***************************************************************************)
Models(traces) == {trace.id : trace \in {tr \in traces : tr.models}}

SourceHash(bundle) ==
    [task |-> bundle.task, runs |-> bundle.runs, events |-> bundle.events,
     traces |-> {[id |-> trace.id, calls |-> trace.calls] : trace \in bundle.traces},
     git |-> bundle.git, github |-> bundle.github]

DeriveOutcome(t, bundle) ==
    LET qualifying == Qualifying(bundle.runs, bundle.events)
        lifecycle == Lifecycle(bundle.task)
        verification == Verification(bundle.runs, bundle.github)
    IN  [lifecycle |-> lifecycle,
         verification |-> verification,
         final |-> FinalOutcome(lifecycle, verification),
         firstPass |-> FirstPass(qualifying),
         retries |-> RetryCount(qualifying),
         rework |-> ReworkCount(bundle.task, qualifying, bundle.events),
         human |-> Human(bundle.events),
         models |-> Models(bundle.traces) # {},
         production |-> Cohort(t) = "production",
         grade |-> EvidenceGrade(qualifying, bundle.traces),
         hash |-> SourceHash(bundle)]

=============================================================================
