------------------------- MODULE PerformanceSnapshot -------------------------
(***************************************************************************)
(* The performance layer (src/engineering_os/performance/materialize.py)   *)
(* on top of analytics and evaluation: a pass takes its own advisory lock, *)
(* looks once whether a lower layer holds its own, reads their tables in   *)
(* one statement each, and replaces everything published in one            *)
(* transaction.  The timer publishes the production cohorts, an operator   *)
(* any cohort he names.                                                    *)
(***************************************************************************)
EXTENDS EvaluationRuns, PerformanceRules, Sequences

CONSTANTS
    PerformanceTimer,   \* the session of the performance timer
    PerformanceUser,    \* the session of an operator
    Facts               \* [Tasks -> sequence of facts, by the events of the outcome]

Performing == {PerformanceTimer, PerformanceUser}

FactRecords ==
    [lifecycle: {"DONE", "NOT_DONE", "UNKNOWN"},
     verification: {"PASS", "FAIL", "UNKNOWN", "NOT_APPLICABLE"}]

\* Facts are there for as many events as a task can come to have.
ASSUME PerformanceAssumption ==
    /\ IsFiniteSet(Tasks)
    /\ Performing \cap (Evaluating \cup {Analytics, None}) = {}
    /\ \A t \in Tasks :
        /\ Facts[t] \in Seq(FactRecords)
        /\ \A world \in Worlds : world.events[t] + 1 <= Len(Facts[t])

VARIABLES
    published,      \* what the current rows were made from
    performer       \* [Performing -> where the session stands]

performanceVars == <<published, performer>>

NoOutcomes == [t \in Tasks |-> 0]

NothingPublished == [basis |-> NoOutcomes, evaluations |-> {}, wanted |-> {}]

PerformanceIdle == [pc |-> "idle", wanted |-> {}, outcomes |-> NoOutcomes, evaluations |-> {}]

Steps(s, pc) == performer' = [performer EXCEPT ![s].pc = pc]

Leaves(s) == performer' = [performer EXCEPT ![s] = PerformanceIdle]

(***************************************************************************)
(* A pass.                                                                 *)
(***************************************************************************)
AdvisoryHeld(layer) == held[layer] # None

\* A pass that finds a lock taken, its own or one below, changes nothing.
PerformanceBegins(s, wanted) ==
    /\ performer[s] = PerformanceIdle
    /\ TryLock("performance", s)
    /\ ~AdvisoryHeld("analytics")
    /\ ~AdvisoryHeld("evaluation")
    /\ performer' = [performer EXCEPT ![s].pc = "free", ![s].wanted = wanted]
    /\ UNCHANGED <<tableVars, evaluationVars, published>>

TimerPerforms ==
    /\ "performance" \in left.timers
    /\ PerformanceBegins(PerformanceTimer, {"production_all"})
    /\ UNCHANGED left

\* `--cohort`; a recompute is an ordinary pass.  A world without the layer's timer is one
\* without its operator.
UserPerforms ==
    /\ "performance" \in left.timers
    /\ left.operator > 0
    /\ \E c \in Cohorts : PerformanceBegins(PerformanceUser, {c})
    /\ left' = [left EXCEPT !.operator = @ - 1]

\* load_population: the outcomes in one statement, and in a later one the current
\* evaluations.
ReadsOutcomes(s) ==
    /\ performer[s].pc = "free"
    /\ performer' = [performer EXCEPT ![s].pc = "outcomes", ![s].outcomes = table]
    /\ UNCHANGED <<tableVars, held, evaluationVars, left, published>>

ReadsEvaluations(s) ==
    /\ performer[s].pc = "outcomes"
    /\ performer' = [performer EXCEPT ![s].pc = "read",
                                      ![s].evaluations = {row \in evaluations : row.current}]
    /\ UNCHANGED <<tableVars, held, evaluationVars, left, published>>

\* The identity of a task is its own, so that it has one current evaluation at most.
EvaluationOf(t, rows) ==
    LET found == {row.work : row \in {r \in rows : r.work.task = t}}
    IN  IF found = {} THEN None
        ELSE LET work == CHOOSE w \in found : TRUE
             IN  [cohort |-> work.cohort, eligibility |-> PayloadOf(work).eligibility,
                  vector |-> PayloadOf(work).vector]

Population(outcomes, rows) ==
    {[task |-> t, production |-> Cohort[t] = "production", facts |-> Facts[t][outcomes[t]],
      evaluation |-> EvaluationOf(t, rows)] : t \in {u \in Tasks : outcomes[u] > 0}}

Snapshot(outcomes, rows, wanted) ==
    [basis |-> outcomes, evaluations |-> rows, wanted |-> wanted]

\* The published rows.
Result == RunEngine(Population(published.basis, published.evaluations), published.wanted)

\* Mutant of Publishes: a pass that reads the same outcomes publishes nothing.
PublishesWhenChanged(s) ==
    /\ performer[s].pc = "read"
    /\ published' = IF published.basis = performer[s].outcomes THEN published
                    ELSE Snapshot(performer[s].outcomes, performer[s].evaluations, performer[s].wanted)
    /\ Steps(s, "done")
    /\ UNCHANGED <<tableVars, held, evaluationVars, left>>

\* The commit of a pass: what was current is not, and the new rows are.
Publishes(s) ==
    /\ performer[s].pc = "read"
    /\ published' = Snapshot(performer[s].outcomes, performer[s].evaluations, performer[s].wanted)
    /\ Steps(s, "done")
    /\ UNCHANGED <<tableVars, held, evaluationVars, left>>

PerformanceEnds(s) ==
    /\ performer[s].pc = "done"
    /\ Leaves(s)
    /\ held' = Released(s)
    /\ UNCHANGED <<tableVars, evaluationVars, left, published>>

\* An exception rolls back and unlocks, a crash ends the database session.
PerformanceFails(s) ==
    /\ left.crashes > 0
    /\ performer[s].pc \in {"free", "outcomes", "read"}
    /\ Leaves(s)
    /\ held' = Released(s)
    /\ left' = [left EXCEPT !.crashes = @ - 1]
    /\ UNCHANGED <<tableVars, evaluationVars, published>>

(***************************************************************************)
(* The specification of the layers.                                        *)
(***************************************************************************)
Perform(s) ==
    ReadsOutcomes(s) \/ ReadsEvaluations(s) \/ Publishes(s) \/ PerformanceEnds(s)

Init ==
    /\ EvaluationInit
    /\ published = NothingPublished
    /\ performer = [s \in Performing |-> PerformanceIdle]

Next ==
    \/ EvaluationNext /\ UNCHANGED performanceVars
    \/ TimerPerforms \/ UserPerforms
    \/ \E s \in Performing : Perform(s) \/ PerformanceFails(s)

vars == <<tableVars, held, evaluationVars, left, performanceVars>>

\* A timer fires every five minutes and a pass takes seconds, so that again and again
\* no pass of the lower layers is under way.
Spec ==
    /\ Init /\ [][Next]_vars
    /\ EvaluationFairness
    /\ []<>(~AdvisoryHeld("analytics") /\ ~AdvisoryHeld("evaluation"))
    /\ SF_vars(TimerPerforms)
    /\ \A s \in Performing : WF_vars(Perform(s))

(***************************************************************************)
(* Properties.                                                             *)
(***************************************************************************)

\* The variables hold what the sessions and tables can hold.
TypeOK ==
    /\ TableTypeOK
    /\ held \in [{"analytics", "evaluation", "performance"} ->
                   {None, Analytics} \cup Evaluating \cup Performing]
    /\ \A row \in evaluations :
        /\ row.work \in Works
        /\ row.current \in BOOLEAN
        /\ PayloadOf(row.work).vector \in [Dimensions -> {"PASS", "FAIL", "ERROR", "WARN", "UNKNOWN",
                "NOT_APPLICABLE", "BLOCKED_RESOURCE", "UNCHANGED_PASS", "UNCHANGED_FAILURE",
                "INTRODUCED_FAILURE", "FIXED_FAILURE"}]
    /\ \A s \in Evaluating : evaluator[s].pc \in {"idle", "started", "looked", "returned"}
    /\ \A s \in Performing : performer[s].pc \in {"idle", "free", "outcomes", "read", "done"}

\* What evaluations of trees concluded, for the table or for their caller.
Conclusions ==
    LET Concluding == {s \in Runners : evaluator[s].pc \in {"looked", "returned"}}
    IN  {[of |-> evaluator[s].work.case, payload |-> PayloadOf(evaluator[s].work)] :
            s \in Concluding}

\* A command the sandbox lost is no verdict: what timed out, or could not be run or
\* was killed in the container, is neither a PASS nor a FAIL of the candidate, and a
\* regression is claimed only when the tests of both trees came to an end.
OutageIsNoVerdict ==
    \A end \in Conclusions :
        LET case == end.of
            vector == end.payload.vector
            Lost(fates, e) == fates[e] \in Outages(case.mode)
        IN  /\ \A e \in Evaluators :
                Lost(case.candidateFates, e) => vector[e] \notin {"PASS", "FAIL", "WARN"}
            /\ Lost(case.candidateFates, "tests") \/ Lost(case.baselineFates, "tests")
                => vector.regression = "UNKNOWN"

\* VERIFIED_FAIL has a cause in the candidate: a command that ran and failed, or a
\* finding of a policy; what failed in the baseline only is not held against it.
FailureHasACause ==
    \A end \in Conclusions :
        LET case == end.of
        IN  end.payload.summary = "VERIFIED_FAIL" =>
                \/ \E e \in {"tests", "build"} :
                        case.candidateFates[e] \notin Outages(case.mode) \cup {"passes"}
                \/ case.candidate.secret
                \/ case.candidate.imports = "forbidden"
                \/ case.candidate.paths # PathsOf(case.baseline)

\* Tests that pass do not make up for a policy that fails.
PolicyFailureIsNoPass ==
    \A end \in Conclusions :
        LET vector == end.payload.vector
        IN  /\ vector.correctness = "PASS"
            /\ \E d \in {"security", "architecture", "scope"} : vector[d] = "FAIL"
            => end.payload.summary = "VERIFIED_FAIL"

\* evaluation/quality.py: no PASS from a command that timed out, and no verdict for a
\* task without evidence.
DataQualityHolds ==
    \A row \in evaluations :
        LET payload == PayloadOf(row.work)
        IN  /\ \A result \in payload.results : result.timeout => result.verdict # "PASS"
            /\ payload.eligibility = "INSUFFICIENT_EVIDENCE" =>
                    \A result \in payload.results : result.verdict \notin {"PASS", "FAIL"}

\* A commit leaves an identity with one current row at most, and with one if it had one.
CurrentKept ==
    \A row \in evaluations' :
        /\ Cardinality({r \in evaluations' : Identity(r.work) = Identity(row.work) /\ r.current}) =< 1
        /\ Current(Identity(row.work)) # {} => Current(Identity(row.work))' # {}

\* An identity has one current row at most, and once it has one, whatever races, fails
\* or crashes, it is never without.
IdentityKeepsCurrent == [][CurrentKept]_evaluations

\* What is published was made from outcomes no older than what was published before.
PublishedNeverGoesBack ==
    [][\A t \in Tasks : published.basis[t] <= published'.basis[t]]_published

\* Every member of a cohort is counted once as known, unknown or not applicable, in a
\* quality metric every evaluated member; and no quality is claimed from the rows that
\* carry no evidence.
PublishedCountsAddUp ==
    \A c \in published.wanted : \A agg \in Result.aggregates[c] :
        /\ Cardinality(agg.known) + agg.unknown_n + agg.na_n = Cardinality(agg.evaluated)
        /\ agg.metric # "quality_tests_pass_rate" => agg.evaluated = agg.members
        /\ agg.members = UNION {a.members : a \in Result.aggregates[c]}

\* The rows of evaluations and the counts published from them are sound together:
\* every count has its rows and every row its evidence.
Consistent == TypeOK /\ DataQualityHolds /\ PublishedCountsAddUp

\* A PASS or a FAIL is always about the code that was evaluated: no outage passes for a
\* failure, no failure is without a check that failed, no forbidden change passes.
VerdictsHaveCauses == OutageIsNoVerdict /\ FailureHasACause /\ PolicyFailureIsNoPass

\* Every task that came to the table without a commit is evaluated as insufficient.
EvaluationCatchesUp ==
    \A t \in Tasks :
        table[t] > 0 ~> Current(InsufficientRow(t).identity) # {} \/ HasCommit(t)

\* With the timers enabled and once the board is still, what is published is made from
\* the last outcomes and evaluations, for all production cohorts: the timer makes good
\* what an operator left.
PerformanceCatchesUp ==
    "performance" \in left.timers =>
        <>[](published = Snapshot(table, {row \in evaluations : row.current}, {"production_all"}))

\* PERFORMANCE_SEMANTICS.md: the production population is every production task.
EveryProductionTaskCounts ==
    "production_all" \in published.wanted =>
        \A agg \in Result.aggregates["production_all"] :
            agg.members = {t \in Tasks : Cohort[t] = "production" /\ published.basis[t] > 0}
=============================================================================
