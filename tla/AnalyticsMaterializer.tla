------------------------ MODULE AnalyticsMaterializer ------------------------
(***************************************************************************)
(* The analytics materializer                                              *)
(* (src/engineering_os/analytics/materialize.py, adapters.py):             *)
(* passes that read Kanban, Phoenix, git and GitHub and rewrite the        *)
(* derived rows of every task, one commit per task, under one advisory     *)
(* lock.  The Kanban board and the three other sources move on their own.  *)
(* Nothing is read at one instant: the task row, its runs, and its events  *)
(* with the other sources are three reads, and the commit is a fourth      *)
(* step.                                                                   *)
(***************************************************************************)
EXTENDS OutcomeRules

CONSTANTS
    Tasks,
    Unlisted,           \* the ids among them that no board has
    Sessions,           \* database sessions; a session makes one pass at a time
    Timer,              \* the session the systemd timer starts
    Worlds,             \* what a behaviour may hold, see Init
    Fallback,           \* how many of the newest traces a windowed answer shows
    RunLimit            \* how many of the newest runs Kanban is asked for (100)

ASSUME TimerIsSession == Timer \in Sessions

KanbanTasks ==
    [status: TaskStatuses, completed: Times, runs: SUBSET Runs, events: Seq(Events)]

\* A board numbers the runs of a task from one.
Numbered(runs) ==
    /\ IsFiniteSet(runs)
    /\ \A run \in runs : run.id \in 1..Cardinality(runs)
    /\ \A run, other \in runs : run.id = other.id => run = other

WorldRecords ==
    [found: [Tasks -> KanbanTasks], second: Nat, board: SUBSET Tasks, life: [Tasks -> Nat],
     endings: SUBSET [outcome: RunOutcomes, objective: {"PASS", "FAIL", None}, seconds: Nat],
     flips: Nat, answers: [phoenix: SUBSET {"up", "window", "down"},
                           git: SUBSET {"up", "down"}, github: SUBSET {"up", "noauth", "down"}],
     passes: [Sessions -> Nat], faults: Nat, recompute: BOOLEAN]

ASSUME WorldAssumption ==
    /\ Worlds \subseteq WorldRecords
    /\ \A world \in Worlds, t \in Tasks : Numbered(world.found[t].runs)
    /\ \A world \in Worlds : world.board \cap Unlisted = {}

TaskRows == [id: Tasks, status: TaskStatuses, completed: Times]

GithubRows == [state: {"AVAILABLE", "BLOCKED_AUTH", "UNKNOWN"}, ci: {None}]

\* What a hash is taken of.
Hashes ==
    [task: TaskRows, runs: SUBSET Runs, events: Seq(Events),
     traces: SUBSET [id: Nat, calls: Nat], git: {"AVAILABLE", "UNKNOWN"}, github: GithubRows]

Finals == {"VERIFIED_SUCCESS", "VERIFIED_FAILURE", "COMPLETED_UNVERIFIED", "INCOMPLETE"}

Outcomes ==
    [lifecycle: {"DONE", "NOT_DONE"},
     verification: {"PASS", "FAIL", "UNKNOWN", "NOT_APPLICABLE"},
     final: Finals, firstPass: {"NOT_APPLICABLE", "PASS", "FAIL", "UNKNOWN"},
     retries: Nat \cup {None}, rework: Nat, human: {"DETECTED", "UNKNOWN"},
     models: BOOLEAN, production: BOOLEAN, grade: {"HIGH", "MEDIUM", "LOW"}, hash: Hashes]

ASSUME NoneAssumption ==
    /\ None \notin Nat /\ None \notin TaskStatuses /\ None \notin Sessions
    /\ None \notin Outcomes

VARIABLES
    src,        \* [Tasks -> the task in Kanban]
    clock,      \* the second it is
    up,         \* [phoenix, git, github]: how each source answers now
    holder,     \* the session with the advisory lock, or None
    session,    \* [Sessions -> where its pass stands]
    db,         \* the derived tables, see EmptyTables
    runRow,     \* [Sessions -> the materialization_runs row of its last pass]
    left        \* what the world may still do, see Init

sourceVars == <<src, clock, up>>
vars == <<src, clock, up, holder, session, db, runRow, left>>

(***************************************************************************)
(* The sources.                                                            *)
(***************************************************************************)
Event(kind, run, status) == [kind |-> kind, run |-> run, status |-> status, auto |-> FALSE]

NewTask == [status |-> "ready", completed |-> None, runs |-> {},
            events |-> <<Event("created", None, "")>>]

OpenRuns(t) == {run \in src[t].runs : run.ended = None}

StartsNow(t) ==
    [id |-> Cardinality(src[t].runs) + 1, started |-> clock, ended |-> None,
     status |-> "running", outcome |-> "", pid |-> TRUE, objective |-> None]

Record(t, task, event) ==
    src' = [src EXCEPT ![t] = [task EXCEPT !.events = Append(@, event)]]

\* A worker takes the task.
StartRun(t) ==
    /\ src[t].status = "ready"
    /\ LET run == StartsNow(t)
       IN  Record(t, [src[t] EXCEPT !.status = "running", !.runs = @ \cup {run}],
                  Event("spawned", run.id, ""))
    /\ UNCHANGED clock

\* The worker ends, in the second it started or later, with its outcome and
\* perhaps a typed verdict.
EndRun(t) ==
    /\ \E run \in OpenRuns(t), ending \in left.endings :
         /\ clock' = clock + ending.seconds
         /\ LET done == ending.outcome = "completed"
                ended == [run EXCEPT !.ended = clock', !.outcome = ending.outcome,
                                     !.status = IF done THEN "done" ELSE ending.outcome,
                                     !.pid = FALSE, !.objective = ending.objective]
            IN  Record(t, [src[t] EXCEPT
                              !.status = IF done THEN "done" ELSE "ready",
                              !.completed = IF done THEN clock' ELSE @,
                              !.runs = (@ \ {run}) \cup {ended}],
                       Event(ending.outcome, run.id, ""))

\* Somebody completes the task by hand: a run of no length.
CompleteByHand(t) ==
    /\ src[t].status = "ready"
    /\ LET run == [StartsNow(t) EXCEPT !.ended = clock, !.status = "done",
                                       !.outcome = "completed", !.pid = FALSE]
       IN  Record(t, [src[t] EXCEPT !.status = "done", !.completed = clock,
                                    !.runs = @ \cup {run}],
                  Event("completed", run.id, ""))
    /\ UNCHANGED clock

\* A closed task is asked for again.
Reopen(t) ==
    /\ src[t].status = "done"
    /\ \E event \in {Event("review_reopened", None, ""), Event("status", None, "ready")} :
         Record(t, [src[t] EXCEPT !.status = "ready"], event)
    /\ clock' = clock + 1

TaskMoves(t) ==
    /\ t \notin Unlisted
    /\ left.life[t] > 0
    /\ StartRun(t) \/ EndRun(t) \/ CompleteByHand(t) \/ Reopen(t)
    /\ left' = [left EXCEPT !.life[t] = @ - 1]
    /\ UNCHANGED <<up, holder, session, db, runRow>>

\* A spawned run leaves a trace that grows until the run ends, and names a model.
TracesOf(task) ==
    {[id |-> run.id, calls |-> IF run.ended = None THEN 1 ELSE 2, models |-> TRUE] :
        run \in {r \in task.runs : \E i \in DOMAIN task.events :
                    task.events[i].kind = "spawned" /\ task.events[i].run = r.id}}

AllUp == [phoenix |-> "up", git |-> "up", github |-> "up"]

SourceFlips ==
    /\ left.flips > 0
    /\ \E s \in DOMAIN up : \E answer \in left.answers[s] \ {up[s]} :
         up' = [up EXCEPT ![s] = answer]
    /\ left' = [left EXCEPT !.flips = @ - 1]
    /\ UNCHANGED <<src, clock, holder, session, db, runRow>>

\* Phoenix: all the traces of the task; only those among the newest spans,
\* when the query fails and the client falls back to them; or a failure.
PhoenixAnswer(t) ==
    CASE up.phoenix = "up" -> TracesOf(src[t])
      [] up.phoenix = "window" ->
            {trace \in TracesOf(src[t]) :
                trace.id > Cardinality(src[t].runs) - Fallback}
      [] up.phoenix = "down" -> {}

PhoenixFails == up.phoenix = "down"

GitAnswer == IF up.git = "up" THEN "AVAILABLE" ELSE "UNKNOWN"

\* The pull request; the search never carries a CI conclusion.
GithubAnswer ==
    [state |-> CASE up.github = "up" -> "AVAILABLE"
                 [] up.github = "noauth" -> "BLOCKED_AUTH"
                 [] up.github = "down" -> "UNKNOWN",
     ci |-> None]

(***************************************************************************)
(* The derived tables.                                                     *)
(***************************************************************************)
EmptyTables ==
    [outcomes |-> [t \in Tasks |-> None],   \* task_outcomes
     history |-> [t \in Tasks |-> << >>],   \* outcome_history
     taskFacts |-> [t \in Tasks |-> None],  \* task_facts: the status
     runFacts |-> [t \in Tasks |-> {}],     \* run_facts
     usage |-> [t \in Tasks |-> {}],        \* run_model_usage, run_skill_usage
     traces |-> [t \in Tasks |-> {}],       \* trace_facts
     refs |-> [t \in Tasks |-> {}],         \* evidence_refs
     git |-> [t \in Tasks |-> None],        \* git_facts: the evidence quality
     github |-> [t \in Tasks |-> None],     \* github_facts: the evidence state
     checkpoint |-> None]                   \* source_checkpoints: whose pass

\* Mutant of RestoreLastGoodTraces: a failed answer is taken for no traces.
RestoreNothing(t, read) == read.traces

\* The stored traces stand in for an answer of Phoenix that failed; they
\* name no models.
RestoreLastGoodTraces(t, read) ==
    IF read.failed /\ db.traces[t] # {} THEN db.traces[t] ELSE read.traces

Bundle(t, read) ==
    [task |-> read.task, runs |-> read.runs, events |-> read.events,
     traces |-> RestoreLastGoodTraces(t, read),
     git |-> read.git, github |-> read.github]

UpsertTask(tables, t, bundle) ==
    [tables EXCEPT !.taskFacts[t] = bundle.task.status]

\* The usage of the runs read is deleted, then what the traces name inserted.
ReplaceUsage(old, runs, traces) ==
    (old \ {run.id : run \in runs}) \cup Models(traces)

\* A trace that is not named again stays.
UpsertTraces(old, new) ==
    {trace \in old : \A n \in new : n.id # trace.id}
        \cup {[trace EXCEPT !.models = FALSE] : trace \in new}

UpsertSources(tables, t, bundle) ==
    [tables EXCEPT !.git[t] = bundle.git, !.github[t] = bundle.github.state]

ReplaceChildren(tables, t, bundle) ==
    [UpsertSources(tables, t, bundle) EXCEPT
        !.runFacts[t] = bundle.runs,
        !.usage[t] = ReplaceUsage(@, bundle.runs, bundle.traces),
        !.traces[t] = UpsertTraces(@, bundle.traces),
        !.refs[t] = {trace.id : trace \in bundle.traces}]

\* Mutant of Differs: evidence that changes without the outcome is no history.
DiffersInOutcome(previous, outcome) ==
    previous = None \/ previous.final # outcome.final

Differs(previous, outcome) ==
    \/ previous = None
    \/ previous.final # outcome.final
    \/ previous.hash # outcome.hash

WriteOutcome(tables, t, outcome) ==
    LET row == [final |-> outcome.final, hash |-> outcome.hash]
        rows == IF Differs(tables.outcomes[t], outcome) THEN <<row>> ELSE << >>
    IN  [tables EXCEPT !.outcomes[t] = outcome, !.history[t] = @ \o rows]

(***************************************************************************)
(* A pass.                                                                 *)
(***************************************************************************)
NothingRead == [task |-> None, runs |-> {}, events |-> << >>, traces |-> {},
                git |-> "UNKNOWN", github |-> None, failed |-> FALSE]

Idle == [pc |-> "idle", todo |-> {}, recompute |-> FALSE, errors |-> 0,
         read |-> NothingRead]

\* The boards' tasks, or the one asked for, which may be on another board or
\* on none; the timer asks for all.
Targets(s) ==
    IF s = Timer THEN {left.board}
    ELSE {left.board} \cup {{t} : t \in Tasks}

\* Mutant of TryAdvisoryLock: the answer of pg_try_advisory_lock is not looked at.
TryAdvisoryLockBlind(s) == holder' = s

TryAdvisoryLock(s) ==
    /\ holder = None
    /\ holder' = s

\* The lock is free: the pass has it, and its run row says running.
Begin(s) ==
    /\ session[s].pc = "idle"
    /\ left.passes[s] > 0
    /\ TryAdvisoryLock(s)
    /\ \E recompute \in {left.recompute, FALSE}, targets \in Targets(s) :
         /\ s = Timer => ~recompute
         /\ session' = [session EXCEPT ![s] =
                [Idle EXCEPT !.pc = "task", !.todo = targets, !.recompute = recompute]]
         /\ runRow' = [runRow EXCEPT ![s] = [status |-> "running", targets |-> targets]]
    \* the timer fires for ever
    /\ left' = IF s = Timer THEN left ELSE [left EXCEPT !.passes[s] = @ - 1]
    /\ UNCHANGED <<sourceVars, db>>

\* Somebody has the lock: the answer is "locked" and nothing is written.
Locked(s) ==
    /\ session[s].pc = "idle"
    /\ left.passes[s] > 0
    /\ holder # None
    /\ left' = IF s = Timer THEN left ELSE [left EXCEPT !.passes[s] = @ - 1]
    /\ UNCHANGED <<sourceVars, holder, session, db, runRow>>

\* No board has the task: it is "missing", the pass counts it as unchanged,
\* not as an error, and goes on.
MissTask(s, t) ==
    /\ session[s].pc = "task"
    /\ t \in session[s].todo \cap Unlisted
    /\ session' = [session EXCEPT ![s].todo = @ \ {t}]
    /\ UNCHANGED <<sourceVars, holder, db, runRow, left>>

ReadTask(s, t) ==
    /\ session[s].pc = "task"
    /\ t \in session[s].todo \ Unlisted
    /\ session' = [session EXCEPT ![s].pc = "runs", ![s].todo = @ \ {t},
                        ![s].read = [NothingRead EXCEPT
                            !.task = [id |-> t, status |-> src[t].status,
                                      completed |-> src[t].completed]]]
    /\ UNCHANGED <<sourceVars, holder, db, runRow, left>>

NewestRuns(runs) ==
    {run \in runs : Cardinality({r \in runs : StartsBefore(run, r)}) <= RunLimit}

ReadRuns(s) ==
    /\ session[s].pc = "runs"
    /\ session' = [session EXCEPT ![s].pc = "evidence",
                        ![s].read.runs = NewestRuns(src[session[s].read.task.id].runs)]
    /\ UNCHANGED <<sourceVars, holder, db, runRow, left>>

ReadEvidence(s) ==
    /\ session[s].pc = "evidence"
    /\ LET t == session[s].read.task.id
       IN  session' = [session EXCEPT ![s].pc = "write",
                ![s].read = [@ EXCEPT !.events = src[t].events,
                                      !.traces = PhoenixAnswer(t),
                                      !.failed = PhoenixFails,
                                      !.git = GitAnswer,
                                      !.github = GithubAnswer]]
    /\ UNCHANGED <<sourceVars, holder, db, runRow, left>>

\* Mutant of IsUnchanged: a task with an outcome is not looked at again.
IsUnchangedOnceWritten(s, t, outcome) ==
    /\ ~session[s].recompute
    /\ db.outcomes[t] # None

\* The stored hash is that of the bundle: nothing is written.
IsUnchanged(s, t, outcome) ==
    /\ ~session[s].recompute
    /\ db.outcomes[t] # None
    /\ db.outcomes[t].hash = outcome.hash

MaterializeTask(s) ==
    /\ session[s].pc = "write"
    /\ LET t == session[s].read.task.id
           bundle == Bundle(t, session[s].read)
           outcome == DeriveOutcome(t, bundle)
       IN  db' = IF IsUnchanged(s, t, outcome) THEN db
                 ELSE WriteOutcome(ReplaceChildren(UpsertTask(db, t, bundle), t, bundle),
                                   t, outcome)
    /\ session' = [session EXCEPT ![s].pc = "task", ![s].read = NothingRead]
    /\ UNCHANGED <<sourceVars, holder, runRow, left>>

\* A read or a statement raises: the task is rolled back, the pass goes on.
TaskFails(s) ==
    /\ session[s].pc \in {"runs", "evidence", "write"}
    /\ left.faults > 0
    /\ left' = [left EXCEPT !.faults = @ - 1]
    /\ session' = [session EXCEPT ![s].pc = "task", ![s].read = NothingRead,
                                  ![s].errors = @ + 1]
    /\ UNCHANGED <<sourceVars, holder, db, runRow>>

\* Mutant of FinalStatus: the errors are not counted.
FinalStatusBlind(s) == "success"

FinalStatus(s) == IF session[s].errors = 0 THEN "success" ELSE "partial"

\* The run row gets its status and the boards' checkpoints move, errors or
\* not; the lock is released.
Finish(s) ==
    /\ session[s].pc = "task"
    /\ session[s].todo = {}
    /\ runRow' = [runRow EXCEPT ![s].status = FinalStatus(s)]
    /\ db' = [db EXCEPT !.checkpoint = s]
    /\ session' = [session EXCEPT ![s] = Idle]
    /\ holder' = None
    /\ UNCHANGED <<sourceVars, left>>

\* The process dies: its connection closes, the lock is free, and its run row
\* says running until the session's next pass has a row of its own.
Crash(s) ==
    /\ session[s].pc # "idle"
    /\ left.faults > 0
    /\ left' = [left EXCEPT !.faults = @ - 1]
    /\ session' = [session EXCEPT ![s] = Idle]
    /\ holder' = None
    /\ UNCHANGED <<sourceVars, db, runRow>>

(***************************************************************************)
(* The specification.  A world is what may happen in one behaviour: the    *)
(* tasks as they are found and the second it is, which of them the         *)
(* included boards list, how often each moves and how a worker may end,    *)
(* how often the sources flip and to which answers, how many passes the    *)
(* sessions other than the timer make, whether they may recompute, and how *)
(* many faults there are.                                                  *)
(***************************************************************************)
Init ==
    /\ left \in Worlds
    /\ src = left.found
    /\ clock = left.second
    /\ up = AllUp
    /\ holder = None
    /\ session = [s \in Sessions |-> Idle]
    /\ db = EmptyTables
    /\ runRow = [s \in Sessions |-> [status |-> "none", targets |-> {}]]

Continue(s) ==
    \/ \E t \in Tasks : MissTask(s, t) \/ ReadTask(s, t)
    \/ ReadRuns(s)
    \/ ReadEvidence(s)
    \/ MaterializeTask(s)
    \/ Finish(s)

Next ==
    \/ \E t \in Tasks : TaskMoves(t)
    \/ SourceFlips
    \/ \E s \in Sessions :
         Begin(s) \/ Locked(s) \/ Continue(s) \/ TaskFails(s) \/ Crash(s)

\* A process that runs goes on, and systemd starts the timer's pass again.
Fairness ==
    /\ \A s \in Sessions : WF_vars(Continue(s))
    /\ WF_vars(Begin(Timer))

Spec == Init /\ [][Next]_vars /\ Fairness

(***************************************************************************)
(* Properties.                                                             *)
(***************************************************************************)

\* The lock, the sessions and the run rows agree: the holder and nobody else
\* is in a pass and its row says running; outcomes have the rules' values.
TypeOK ==
    /\ holder \in Sessions \cup {None}
    /\ \A s \in Sessions :
         /\ session[s].pc \in {"idle", "task", "runs", "evidence", "write"}
         /\ session[s].pc # "idle" <=> holder = s
         /\ holder = s => runRow[s].status = "running"
         /\ runRow[s].status \in {"none", "running", "success", "partial"}
    /\ \A t \in Tasks : db.outcomes[t] \in Outcomes \cup {None}

\* outcome_history tells the life of the outcome: its last row is the outcome
\* the task has, and no two rows in a row say the same.
HistoryTellsOutcome ==
    \A t \in Tasks :
        LET history == db.history[t]
        IN  /\ db.outcomes[t] = None <=> history = << >>
            /\ history # << >> =>
                 Last(history) = [final |-> db.outcomes[t].final,
                                  hash |-> db.outcomes[t].hash]
            /\ \A i \in 1..(Len(history) - 1) : history[i] # history[i + 1]

\* A run row that says success speaks of a pass that left an outcome for every
\* task it was asked for and a board has, whatever crashed or failed before and
\* since.  Of an id that no board has it says nothing: such a pass succeeds
\* without an outcome.
SuccessMeansRecorded ==
    \A s \in Sessions : runRow[s].status = "success" =>
        \A t \in runRow[s].targets \ Unlisted : db.outcomes[t] # None

\* The checks analytics runs on its own tables (analytics/quality.py) never
\* find a row: an outcome or a run without its task fact, a first pass with
\* retries, a verified success without a verdict.
QualityViolations ==
    {t \in Tasks :
        /\ db.outcomes[t] # None \/ db.runFacts[t] # {}
        /\ \/ db.taskFacts[t] = None
           \/ /\ db.outcomes[t].firstPass = "PASS"
              /\ db.outcomes[t].retries \notin {None, 0}
           \/ /\ db.outcomes[t].final = "VERIFIED_SUCCESS"
              /\ db.outcomes[t].verification # "PASS"}

NoQualityViolation == QualityViolations = {}

\* The derived tables agree with each other and with the record of the passes
\* that wrote them, whatever failed, crashed or was refused in between.
Consistent == TypeOK /\ HistoryTellsOutcome /\ SuccessMeansRecorded /\ NoQualityViolation

\* The runs of a task as its board writes them: a run starts no later than now,
\* and one that is open has its worker and says nothing yet.
AsWritten(runs, now) ==
    \A run \in runs :
        /\ run.started \in Nat /\ run.started <= now
        /\ run.ended = None => run.pid /\ run.outcome = "" /\ run.status = "running"

\* The boards found are as written, and no task ever has more runs than Kanban
\* is asked for.
RunsFit ==
    /\ RunLimit \in Nat
    /\ \A world \in Worlds, t \in Tasks :
         /\ AsWritten(world.found[t].runs, world.second)
         /\ Cardinality(world.found[t].runs) + world.life[t] <= RunLimit

\* Once a task's first pass is decided it never changes, whatever runs,
\* reopenings and passes follow: metrics over first passes count each task once.
FirstPassSettles ==
    [][\A t \in Tasks :
        db.outcomes[t] # None /\ db.outcomes[t].firstPass \in {"PASS", "FAIL"} =>
            db'.outcomes[t].firstPass = db.outcomes[t].firstPass]_vars

\* A pass that found Phoenix failing takes no trace away from the evidence of
\* a task: the last good traces stand in.
OutageKeepsEvidence ==
    [][\A s \in Sessions : session[s].pc = "write" /\ session[s].read.failed =>
        \A t \in Tasks : db.refs[t] \subseteq db'.refs[t]]_vars

\* The table of outcomes is the one the layers above rely on: a row never
\* goes back to an older state of its task, however long a pass took.
Table == INSTANCE OutcomeTable WITH
    task <- [t \in Tasks |-> Len(src[t].events)],
    table <- [t \in Tasks |-> IF db.outcomes[t] = None THEN 0
                              ELSE Len(db.outcomes[t].hash.events)]

ImplementsTable == Table!TableSpec

\* What the outcome of a task is when every source answers.
Truth(t) ==
    [task |-> [id |-> t, status |-> src[t].status, completed |-> src[t].completed],
     runs |-> src[t].runs, events |-> src[t].events, traces |-> TracesOf(src[t]),
     git |-> "AVAILABLE", github |-> [state |-> "AVAILABLE", ci |-> None]]

\* If the sources come back for good, the passes catch up: from some moment on
\* every outcome is what the rules say of the task, whatever ticks were locked
\* out, failed, or died on the way.
OutcomesCatchUp ==
    <>[](up = AllUp) =>
        <>[](\A t \in left.board :
                /\ db.outcomes[t] # None
                /\ db.outcomes[t].hash = SourceHash(Truth(t))
                /\ db.outcomes[t].final = DeriveOutcome(t, Truth(t)).final)

\* ... and so does the usage of models and skills ("Missed ticks recover by
\* rescanning in-scope boards and skipping unchanged source_hash rows").
UsageCatchesUp ==
    <>[](up = AllUp) =>
        <>[](\A t \in left.board : db.usage[t] = Models(TracesOf(src[t])))
=============================================================================
