---------------------------- MODULE EvaluationRuns ----------------------------
(***************************************************************************)
(* The evaluation layer (src/engineering_os/evaluation/cli.py, persist.py):*)
(* the timer's sweep over the outcome table, an operator's `--task`, and   *)
(* the experiment runs and fixture canaries that evaluate trees, all       *)
(* writing evaluation_runs.  Only the sweep takes the advisory lock.  Each *)
(* session is one database session: persist_run looks for the current row  *)
(* of an identity in one statement and writes in later ones, and others    *)
(* may commit in between.                                                  *)
(*                                                                         *)
(* Below it is the analytics layer as OutcomeTable promises it, with its   *)
(* advisory lock.                                                          *)
(***************************************************************************)
EXTENDS OutcomeTable, EvaluationRules

CONSTANTS
    Units,          \* fixture tasks, which the outcome table does not hold
    Cohort,         \* [Tasks -> CohortNames]
    CommitAt,       \* [Tasks -> Nat]: the event that names a commit
    Sweep,          \* the session of the evaluation timer
    Operator,       \* the session of an operator's `evaluate --task`
    Runners,        \* sessions that evaluate trees
    Analytics,      \* the session of the analytics timer
    Profile,        \* the evaluation profile of the trees
    Cases,          \* trees that may be evaluated, with the fates of the commands in them
    Worlds          \* what a behaviour may hold, see EvaluationInit

Evaluating == Runners \cup {Sweep, Operator}

CohortNames == {"production", "fixture", "excluded"}

WorldRecords ==
    [timers: SUBSET {"analytics", "evaluation", "performance"}, board: SUBSET Tasks,
     events: [Tasks -> Nat], operator: Nat, units: Nat, crashes: Nat,
     kinds: SUBSET {case.kind : case \in Cases}]

ASSUME EvaluationAssumption ==
    /\ Cohort \in [Tasks -> CohortNames]
    /\ CommitAt \in [Tasks -> Nat]
    /\ Sweep # Operator /\ Runners \cap {Sweep, Operator} = {}
    /\ Analytics \notin Evaluating
    /\ None \notin Evaluating \cup {Analytics} /\ None \notin Cases
    /\ \A case \in Cases : IsCase(case)
    /\ Worlds \subseteq WorldRecords

VARIABLES
    held,           \* [layer -> the session with its advisory lock, or None]
    evaluations,    \* the rows of evaluation_runs with their summaries
    evaluator,      \* [Evaluating -> where the session stands]
    left            \* what the world may still do, see EvaluationInit

evaluationVars == <<evaluations, evaluator>>

\* What a payload is made from: a case, or a task of some eligibility; and the cohort
\* it is persisted with.
Work(case, t, eligibility, cohort) ==
    [case |-> case, task |-> t, eligibility |-> eligibility, cohort |-> cohort]

Evaluated == [case \in Cases |-> EvaluateTrees(case, Profile)]

PayloadOf(work) ==
    IF work.case # None THEN Evaluated[work.case]
    ELSE [InsufficientRow(work.task) EXCEPT !.eligibility = work.eligibility]

Identity(work) == PayloadOf(work).identity

Session(sweeps, recompute) ==
    [pc |-> "started", sweeps |-> sweeps, recompute |-> recompute, todo |-> {},
     work |-> None, found |-> FALSE, raced |-> FALSE]

Idle == [Session(FALSE, FALSE) EXCEPT !.pc = "idle"]

\* What a session may work on.
Works ==
    [case: Cases \cup {None}, task: Tasks \cup Units,
     eligibility: {"INSUFFICIENT_EVIDENCE", "EXCLUDED", "TEST_ELIGIBLE", "ELIGIBLE"},
     cohort: CohortNames]

\* A row keeps what it was made from, which determines its results and summary.
Row(work) == [work |-> work, current |-> TRUE]

Current(identity) == {row \in evaluations : Identity(row.work) = identity /\ row.current}

\* Is a commit known from the outcome row the table holds now?
HasCommit(t) == table[t] >= CommitAt[t]

\* Mutant of TryLock: the answer of pg_try_advisory_lock is not looked at.
TryLockBlind(layer, s) == held' = [held EXCEPT ![layer] = s]

\* The advisory locks.
TryLock(layer, s) == held[layer] = None /\ held' = [held EXCEPT ![layer] = s]

Released(s) == [l \in DOMAIN held |-> IF held[l] = s THEN None ELSE held[l]]

(***************************************************************************)
(* Analytics, as it shows: it commits outcomes one by one under its lock.  *)
(***************************************************************************)
AnalyticsBegins ==
    /\ "analytics" \in left.timers
    /\ TryLock("analytics", Analytics)
    /\ UNCHANGED <<tableVars, evaluationVars, left>>

AnalyticsPublishes(t) ==
    /\ held["analytics"] = Analytics
    /\ Publish(t)
    /\ UNCHANGED <<held, evaluationVars, left>>

\* With the task as it is now.
AnalyticsCatchesUp(t) == AnalyticsPublishes(t) /\ table'[t] = task[t] /\ table' # table

AnalyticsEnds ==
    /\ held["analytics"] = Analytics
    /\ held' = Released(Analytics)
    /\ UNCHANGED <<tableVars, evaluationVars, left>>

TaskMoves(t) ==
    /\ left.events[t] > 0
    /\ TaskChanges(t)
    /\ left' = [left EXCEPT !.events[t] = @ - 1]
    /\ UNCHANGED <<held, evaluationVars>>

(***************************************************************************)
(* persist_run, for the payload of a session.                              *)
(***************************************************************************)
Proceeds(s, record) == evaluator' = [evaluator EXCEPT ![s] = record]

\* The session looks for a current row of its identity.
Look(s, session, work) ==
    Proceeds(s, [session EXCEPT !.pc = "looked", !.work = work,
                                !.found = Current(Identity(work)) # {}])

\* The identity a session works on, once it has looked.
Sought(s) == Identity(evaluator[s].work)

\* The rows of the identity with their flag cleared.
Superseded(identity) ==
    {IF Identity(row.work) = identity THEN [row EXCEPT !.current = FALSE] ELSE row :
        row \in evaluations}

\* A sweep goes on to its next task; another session is done.
Onward(s) ==
    IF evaluator[s].sweeps
    THEN [Session(TRUE, evaluator[s].recompute) EXCEPT !.todo = evaluator[s].todo]
    ELSE Idle

\* The commit of `rows`; whoever has looked at this identity has been overtaken.
Commits(s, rows) ==
    /\ evaluations' = rows
    /\ evaluator' = [o \in Evaluating |->
                        IF o = s THEN Onward(s)
                        ELSE IF evaluator[o].pc = "looked" /\ Sought(o) = Sought(s)
                               THEN [evaluator[o] EXCEPT !.raced = TRUE]
                        ELSE evaluator[o]]
    /\ UNCHANGED <<tableVars, held, left>>

Unchanged(s) ==
    /\ evaluator[s].pc = "looked"
    /\ evaluator[s].found
    /\ ~evaluator[s].recompute
    /\ Proceeds(s, Onward(s))
    /\ UNCHANGED <<tableVars, held, evaluations, left>>

Supersedes(s) ==
    /\ evaluator[s].pc = "looked"
    /\ evaluator[s].found
    /\ evaluator[s].recompute
    /\ Commits(s, Superseded(Sought(s)) \cup {Row(evaluator[s].work)})

\* Mutant of Inserts: no unique index on current identities.
InsertsUnindexed(s) ==
    /\ evaluator[s].pc = "looked"
    /\ ~evaluator[s].found
    /\ Commits(s, evaluations \cup {Row(evaluator[s].work)})

Inserts(s) ==
    /\ evaluator[s].pc = "looked"
    /\ ~evaluator[s].found
    /\ Current(Sought(s)) = {}
    /\ Commits(s, evaluations \cup {Row(evaluator[s].work)})

\* The session ends at an error and its connection with it: what it had not
\* committed is rolled back and its lock is free.
Dies(s) ==
    /\ Proceeds(s, Idle)
    /\ held' = Released(s)
    /\ UNCHANGED <<tableVars, evaluations, left>>

\* evaluation_runs_identity_current allows one current row of an identity: the
\* insert of a session that found none fails on the row inserted since, and so
\* may that of a session whose update waited for the commit of another.
UniqueViolation(s) ==
    /\ evaluator[s].pc = "looked"
    /\ \/ ~evaluator[s].found /\ Current(Sought(s)) # {}
       \/ evaluator[s].found /\ evaluator[s].recompute /\ evaluator[s].raced
    /\ Dies(s)

PersistRun(s) == Unchanged(s) \/ Supersedes(s) \/ Inserts(s) \/ UniqueViolation(s)

(***************************************************************************)
(* A sweep (incremental): the timer's, or an operator's who may recompute. *)
(* A task with a commit is counted and left alone.                         *)
(***************************************************************************)
\* Mutant of InsufficientTasks: the sweep is for the production cohort only.
InsufficientProductionTasks ==
    {t \in Tasks : table[t] > 0 /\ Cohort[t] = "production" /\ ~HasCommit(t)}

InsufficientTasks ==
    {t \in Tasks : /\ table[t] > 0
                   /\ ClassifyTask(Cohort[t], HasCommit(t)) \notin {"ELIGIBLE", "TEST_ELIGIBLE"}}

SweepBegins(s, recompute) ==
    /\ evaluator[s] = Idle
    /\ TryLock("evaluation", s)
    /\ Proceeds(s, [Session(TRUE, recompute) EXCEPT !.todo = InsufficientTasks])
    /\ UNCHANGED <<tableVars, evaluations>>

TimerSweeps == "evaluation" \in left.timers /\ SweepBegins(Sweep, FALSE) /\ UNCHANGED left

OperatorSweeps ==
    /\ left.operator > 0
    /\ \E recompute \in BOOLEAN : SweepBegins(Operator, recompute)
    /\ left' = [left EXCEPT !.operator = @ - 1]

SweepLooks(s, t) ==
    /\ evaluator[s].pc = "started"
    /\ t \in evaluator[s].todo
    /\ Look(s, [evaluator[s] EXCEPT !.todo = @ \ {t}],
            Work(None, t, "INSUFFICIENT_EVIDENCE", Cohort[t]))
    /\ UNCHANGED <<tableVars, held, evaluations, left>>

SweepEnds(s) ==
    /\ evaluator[s].pc = "started"
    /\ evaluator[s].todo = {}
    /\ Proceeds(s, Idle)
    /\ held' = Released(s)
    /\ UNCHANGED <<tableVars, evaluations, left>>

(***************************************************************************)
(* An operator evaluates one task, known to the tables or not: no lock,    *)
(* the eligibility of the task, and no cohort, so that persist_run takes   *)
(* its default.                                                            *)
(***************************************************************************)
DefaultCohort == "fixture"

OperatorEvaluates(t) ==
    /\ left.operator > 0
    /\ evaluator[Operator] = Idle
    /\ LET known == IF table[t] > 0 THEN Cohort[t] ELSE None
           work == Work(None, t, ClassifyTask(known, HasCommit(t)), DefaultCohort)
       IN  \E recompute \in BOOLEAN : Look(Operator, Session(FALSE, recompute), work)
    /\ left' = [left EXCEPT !.operator = @ - 1]
    /\ UNCHANGED <<tableVars, held, evaluations>>

(***************************************************************************)
(* Trees are evaluated: by an experiment unit or a fixture canary, whose   *)
(* row is always recomputed, or for a caller who keeps the result himself  *)
(* (a unit of a real agent, `evaluate --trees-candidate`).  A canary stops *)
(* when the comparison is not the expected one.                            *)
(***************************************************************************)
RunUnit(s, u) ==
    /\ left.units > 0
    /\ evaluator[s] = Idle
    /\ \E case \in {c \in Cases : c.kind \in left.kinds} :
        LET work == Work(case, u, "TEST_ELIGIBLE", "fixture")
        IN  /\ case.expected \in {None, Evaluated[case].vector.regression}
            /\ IF case.persisted THEN Look(s, Session(FALSE, TRUE), work)
               ELSE Proceeds(s, [Session(FALSE, TRUE) EXCEPT !.pc = "returned", !.work = work])
    /\ left' = [left EXCEPT !.units = @ - 1]
    /\ UNCHANGED <<tableVars, held, evaluations>>

Returns(s) ==
    /\ evaluator[s].pc = "returned"
    /\ Proceeds(s, Idle)
    /\ UNCHANGED <<tableVars, held, evaluations, left>>

EvaluatorCrashes(s) ==
    /\ left.crashes > 0
    /\ evaluator[s] # Idle
    /\ Proceeds(s, Idle)
    /\ held' = Released(s)
    /\ left' = [left EXCEPT !.crashes = @ - 1]
    /\ UNCHANGED <<tableVars, evaluations>>

(***************************************************************************)
(* The specification of the layer.                                         *)
(***************************************************************************)
EvaluationInit ==
    /\ left \in Worlds
    /\ task = [t \in Tasks |-> IF t \in left.board THEN 1 ELSE 0]
    /\ table = [t \in Tasks |-> 0]
    /\ held = [l \in {"analytics", "evaluation", "performance"} |-> None]
    /\ evaluations = {}
    /\ evaluator = [s \in Evaluating |-> Idle]

EvaluationNext ==
    \/ AnalyticsBegins \/ AnalyticsEnds \/ TimerSweeps \/ OperatorSweeps
    \/ \E t \in Tasks : TaskMoves(t) \/ AnalyticsPublishes(t) \/ OperatorEvaluates(t)
    \/ \E s \in {Sweep, Operator} : SweepEnds(s) \/ \E t \in Tasks : SweepLooks(s, t)
    \/ \E s \in Runners, u \in Units : RunUnit(s, u)
    \/ \E s \in Evaluating : PersistRun(s) \/ Returns(s) \/ EvaluatorCrashes(s)

\* The timers fire again and again, and a running session goes on.  Each pass of
\* analytics comes to every task; AnalyticsMaterializer shows that it catches up.
EvaluationFairness ==
    LET all == <<tableVars, held, evaluationVars, left>>
    IN  /\ WF_all(AnalyticsBegins) /\ WF_all(AnalyticsEnds) /\ WF_all(TimerSweeps)
        /\ \A t \in Tasks : SF_all(AnalyticsCatchesUp(t))
        /\ \A s \in {Sweep, Operator} : WF_all(SweepEnds(s) \/ \E t \in Tasks : SweepLooks(s, t))
        /\ \A s \in Evaluating : WF_all(PersistRun(s) \/ Returns(s))
=============================================================================
