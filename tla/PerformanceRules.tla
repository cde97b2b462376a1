--------------------------- MODULE PerformanceRules ---------------------------
(***************************************************************************)
(* What the performance layer makes of a population of tasks               *)
(* (src/engineering_os/performance: cohorts, metrics, failures, tiers and  *)
(* the engine).  Everything here is a function.                            *)
(*                                                                         *)
(* A row of the population is a task with the facts of its outcome         *)
(* (lifecycle and verification) and its current evaluation, or None.  Of   *)
(* the metrics there is one of each kind: an outcome metric whose unknowns *)
(* are one state, one with rows it does not apply to, and a quality        *)
(* metric.  An aggregate names its members where the code keeps counts.    *)
(***************************************************************************)
EXTENDS EvaluationRules

CONSTANT TierFloor      \* [tier above NO_DATA -> the least known_n it takes]

Cohorts == {"production_all", "math_fixtures"}

TierNames == {"INSUFFICIENT", "EXPLORATORY", "PROVISIONAL", "SUPPORTED"}

ASSUME TierAssumption ==
    /\ TierFloor \in [TierNames -> Nat \ {0}]
    /\ TierFloor.INSUFFICIENT = 1
    /\ TierFloor.EXPLORATORY > TierFloor.INSUFFICIENT
    /\ TierFloor.PROVISIONAL > TierFloor.EXPLORATORY
    /\ TierFloor.SUPPORTED > TierFloor.PROVISIONAL

ClassifyTier(n) ==
    IF n = 0 THEN "NO_DATA"
    ELSE CHOOSE tier \in TierNames :
            /\ TierFloor[tier] <= n
            /\ \A other \in TierNames : TierFloor[other] <= n => TierFloor[other] <= TierFloor[tier]

(***************************************************************************)
(* Cohorts.                                                                *)
(***************************************************************************)
\* The lists of excluded tasks, boards and workspaces are part of `production`.
IsFixtureTask(row) ==
    \/ ~row.production
    \/ row.evaluation # None /\ row.evaluation.cohort = "fixture"

MatchesCohort(row, cohort) ==
    IF cohort = "math_fixtures" THEN IsFixtureTask(row)
    ELSE ~IsFixtureTask(row) /\ row.production

CohortMembers(population, cohort) == {row \in population : MatchesCohort(row, cohort)}

(***************************************************************************)
(* Aggregates.                                                             *)
(***************************************************************************)
TasksOf(rows) == {row.task : row \in rows}

Aggregate(metric, members, evaluated, known, unknown, na, successes) ==
    [metric |-> metric, members |-> TasksOf(members), evaluated |-> TasksOf(evaluated),
     known |-> TasksOf(known), unknown_n |-> Cardinality(unknown), na_n |-> Cardinality(na),
     successes |-> Cardinality(successes), tier |-> ClassifyTier(Cardinality(known))]

Lifecycle(members) ==
    Aggregate("lifecycle_completion_rate", members, members,
              {row \in members : row.facts.lifecycle \in {"DONE", "NOT_DONE"}},
              {row \in members : row.facts.lifecycle = "UNKNOWN"},
              {},
              {row \in members : row.facts.lifecycle = "DONE"})

\* Mutant of VerifiedSuccess: the unknown ones are left out of the members.
VerifiedSuccessDropping(members) ==
    LET known == {row \in members : row.facts.verification \in {"PASS", "FAIL"}}
    IN  Aggregate("verified_success_rate", known, known, known, {}, {},
                  {row \in known : row.facts.verification = "PASS"})

VerifiedSuccess(members) ==
    Aggregate("verified_success_rate", members, members,
              {row \in members : row.facts.verification \in {"PASS", "FAIL"}},
              {row \in members : row.facts.verification = "UNKNOWN"},
              {row \in members : row.facts.verification = "NOT_APPLICABLE"},
              {row \in members : row.facts.verification = "PASS"})

QualityMembers(members) ==
    {row \in members :
        /\ row.evaluation # None
        /\ row.evaluation.cohort # "fixture"
        /\ row.evaluation.eligibility = "ELIGIBLE"}

Quality(members) ==
    LET evaluated == QualityMembers(members)
        With(verdicts) == {row \in evaluated : row.evaluation.vector.tests \in verdicts}
    IN  Aggregate("quality_tests_pass_rate", members, evaluated, With({"PASS", "FAIL"}),
                  evaluated \ With({"PASS", "FAIL", "NOT_APPLICABLE"}),
                  With({"NOT_APPLICABLE"}), With({"PASS"}))

ComputeMetrics(members) == {Lifecycle(members), VerifiedSuccess(members), Quality(members)}

(***************************************************************************)
(* Failures.                                                               *)
(***************************************************************************)
LabelsFor(row) ==
    LET Evaluation(label, holds) == IF row.evaluation # None /\ holds THEN {label} ELSE {}
        labels == (IF row.facts.lifecycle = "NOT_DONE" THEN {"LIFECYCLE_INCOMPLETE"} ELSE {})
                  \cup (IF row.facts.verification = "FAIL" THEN {"VERIFICATION_FAILURE"} ELSE {})
                  \cup Evaluation("INSUFFICIENT_EVIDENCE",
                                  row.evaluation.eligibility = "INSUFFICIENT_EVIDENCE")
                  \cup Evaluation("TEST_FAILURE", row.evaluation.vector.tests = "FAIL")
    IN  IF labels = {} /\ row.facts.lifecycle = "UNKNOWN" THEN {"UNKNOWN"} ELSE labels

Taxonomy(members) ==
    {[label |-> label, population |-> Cardinality(members),
      count |-> Cardinality({row \in members : label \in LabelsFor(row)})] :
        label \in UNION {LabelsFor(row) : row \in members}}

(***************************************************************************)
(* The engine, for the cohorts that are wanted.                            *)
(***************************************************************************)
Coverage(production) ==
    [production_tasks |-> Cardinality(production),
     quality_evaluated |-> Cardinality({row \in production :
                                /\ row.evaluation # None
                                /\ row.evaluation.eligibility = "ELIGIBLE"})]

RunEngine(population, wanted) ==
    [aggregates |-> [c \in wanted |-> ComputeMetrics(CohortMembers(population, c))],
     failures |-> [c \in wanted |-> Taxonomy(CohortMembers(population, c))],
     coverage |-> Coverage(IF "production_all" \in wanted
                           THEN CohortMembers(population, "production_all") ELSE {})]
=============================================================================
