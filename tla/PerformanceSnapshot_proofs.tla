---------------------- MODULE PerformanceSnapshot_proofs ----------------------
(***************************************************************************)
(* Proofs about the evaluation and performance layers, for any tasks,      *)
(* cohorts, facts, sessions, trees, fates, profile and worlds.             *)
(***************************************************************************)
EXTENDS PerformanceSnapshot, FiniteSetTheorems, TLAPS

Verdicts ==
    {"PASS", "FAIL", "ERROR", "WARN", "UNKNOWN", "NOT_APPLICABLE", "BLOCKED_RESOURCE",
     "UNCHANGED_PASS", "UNCHANGED_FAILURE", "INTRODUCED_FAILURE", "FIXED_FAILURE"}

-----------------------------------------------------------------------------
(* What one command, one subject and one case conclude.                     *)

Modes == {"docker", "inline"}

\* What the verdict on a command of a fate must be like.
SoundResult(r, mode, fate) ==
    /\ r.verdict \in {"PASS", "FAIL", "ERROR", "UNKNOWN", "NOT_APPLICABLE", "BLOCKED_RESOURCE"}
    /\ r.timeout \in BOOLEAN
    /\ r.timeout => r.verdict = "ERROR"
    /\ fate \in Outages(mode) => r.verdict \notin {"PASS", "FAIL"}
    /\ r.verdict = "FAIL" => fate \notin Outages(mode) \cup {"passes"}

\* What the verdict on a command is, from how it ran.
LEMMA ResultOf ==
  ASSUME NEW mode, NEW fate, NEW exit, NEW timeout \in BOOLEAN, NEW resource \in BOOLEAN,
         NEW detail, RunCommand(mode, fate) = Ran(exit, timeout, resource, detail)
  PROVE  LET r == CommandResult(mode, fate) IN
         /\ r.timeout = timeout
         /\ r.verdict \in {"PASS", "FAIL", "ERROR"}
         /\ timeout \/ resource \/ detail # None => r.verdict = "ERROR"
         /\ exit = None => r.verdict # "FAIL"
         /\ ~timeout /\ ~resource /\ detail = None /\ exit = 0 => r.verdict = "PASS"
<1>1. CommandResult(mode, fate) =
        [verdict |-> IF timeout \/ resource \/ detail # None THEN "ERROR"
                     ELSE IF exit = 0 THEN "PASS"
                     ELSE IF exit = None THEN "ERROR" ELSE "FAIL",
         timeout |-> timeout]
  BY DEF CommandResult, Ran
<1> QED
  BY <1>1

\* A command that came to no end of its own is an error, and a failure is one
\* that ended and did not pass, in the container and inline.
LEMMA CommandIsSound ==
  ASSUME NEW mode \in Modes, NEW fate \in Fates(mode)
  PROVE  SoundResult(CommandResult(mode, fate), mode, fate)
<1> DEFINE r == CommandResult(mode, fate)
<1>1. DOMAIN ExitCodes = {"passes", "fails", "outOfMemory", "stops", "killed", "crashes",
                          "noProgram", "noImage"}
  BY DEF ExitCodes
<1>2. /\ ExitCodes["passes"] = 0 /\ ExitCodes["stops"] = 124 /\ ExitCodes["killed"] = 137
      /\ ExitCodes["noImage"] = 125
  BY DEF ExitCodes
<1>3. None # "docker_unavailable" /\ None # "host_timeout" /\ None # "timeout"
        /\ None # "sandbox_runner_failure"
  BY NoneAssumption
<1>4. CASE mode = "inline"
  <2>1. fate \in {"passes", "fails", "outOfMemory", "stops", "killed", "crashes", "hangs"}
    BY <1>1, <1>4 DEF Fates
  <2>2. RunCommand(mode, fate) = RunInline(fate) /\ Outages(mode) = {"hangs"}
    BY <1>4 DEF RunCommand, Outages
  <2>3. CASE fate = "hangs"
    <3>1. RunCommand(mode, fate) = Ran(None, TRUE, FALSE, "timeout")
      BY <2>2, <2>3 DEF RunInline
    <3>2. r.verdict = "ERROR" /\ r.timeout = TRUE
      BY <3>1, ResultOf
    <3> QED
      BY <3>2 DEF SoundResult
  <2>4. CASE fate # "hangs"
    <3>1. RunCommand(mode, fate) = Ran(ExitCodes[fate], FALSE, FALSE, None)
      BY <2>2, <2>4 DEF RunInline
    <3>2. r.verdict \in {"PASS", "FAIL", "ERROR"} /\ r.timeout = FALSE
      BY <3>1, ResultOf
    <3>3. fate = "passes" => r.verdict = "PASS"
      <4> DEFINE exit == ExitCodes[fate]
      <4>1. fate = "passes" => exit = 0
        BY <1>2
      <4>2. RunCommand(mode, fate) = Ran(exit, FALSE, FALSE, None)
        BY <3>1
      <4> HIDE DEF exit
      <4>3. exit = 0 => r.verdict = "PASS"
        BY <4>2, ResultOf
      <4> QED
        BY <4>1, <4>3
    <3> QED
      BY <2>2, <2>4, <3>2, <3>3 DEF SoundResult
  <2> QED
    BY <2>3, <2>4
<1>5. CASE mode = "docker"
  <2>1. fate \in {"passes", "fails", "outOfMemory", "stops", "killed", "crashes",
                  "noProgram", "noImage", "hangs", "noDocker"}
    BY <1>1, <1>5 DEF Fates
  <2>2. /\ RunCommand(mode, fate) = RunDocker(fate)
        /\ Outages(mode) = {"hangs", "noDocker", "noImage", "killed"}
    BY <1>5 DEF RunCommand, Outages
  <2>3. CASE fate = "hangs"
    <3>1. RunCommand(mode, fate) = Ran(None, TRUE, FALSE, "host_timeout")
      BY <2>2, <2>3 DEF RunDocker
    <3>2. r.verdict = "ERROR" /\ r.timeout = TRUE
      BY <3>1, ResultOf
    <3> QED
      BY <3>2 DEF SoundResult
  <2>4. CASE fate = "noDocker"
    <3>1. RunCommand(mode, fate) = Ran(None, FALSE, FALSE, "docker_unavailable")
      BY <2>2, <2>4 DEF RunDocker
    <3>2. r.verdict = "ERROR" /\ r.timeout = FALSE
      BY <1>3, <3>1, ResultOf
    <3> QED
      BY <3>2 DEF SoundResult
  <2>5. CASE fate \notin {"hangs", "noDocker"}
    <3> DEFINE exit == ExitCodes[fate]
               timeout == exit \in {124, 137}
               resource == exit \in {137, 139} \/ fate = "outOfMemory"
               detail == IF exit = 125 THEN "sandbox_runner_failure" ELSE None
    <3>1. RunCommand(mode, fate) = Ran(exit, timeout, resource, detail)
      BY <2>2, <2>5 DEF RunDocker
    <3>2. fate = "passes" => ~timeout /\ ~resource /\ detail = None /\ exit = 0
      BY <1>2
    <3>3. fate = "killed" => timeout
      BY <1>2
    <3>4. fate = "noImage" => detail # None
      BY <1>2, <1>3
    <3>5. timeout \in BOOLEAN /\ resource \in BOOLEAN
      OBVIOUS
    <3> HIDE DEF exit, timeout, resource, detail
    <3>6. /\ r.timeout = timeout
          /\ r.verdict \in {"PASS", "FAIL", "ERROR"}
          /\ timeout \/ detail # None => r.verdict = "ERROR"
          /\ ~timeout /\ ~resource /\ detail = None /\ exit = 0 => r.verdict = "PASS"
      BY <3>1, <3>5, ResultOf
    <3> HIDE DEF r
    <3>7. fate = "passes" => r.verdict = "PASS"
      BY <3>2, <3>6
    <3>8. fate \in {"noImage", "killed"} => r.verdict = "ERROR"
      BY <3>3, <3>4, <3>6
    <3>9. r.timeout \in BOOLEAN /\ (r.timeout => r.verdict = "ERROR")
      BY <3>5, <3>6
    <3>10. SoundResult(r, mode, fate)
      BY <2>1, <2>2, <2>5, <3>6, <3>7, <3>8, <3>9 DEF SoundResult
    <3> QED
      BY <3>10 DEF r
  <2> QED
    BY <2>3, <2>4, <2>5
<1> QED
  BY <1>4, <1>5 DEF Modes

\* The same of every evaluator of a subject, whatever its profile has it do.
LEMMA SubjectIsSound ==
  ASSUME NEW mode \in Modes, NEW fates \in [Evaluators -> Fates(mode)], NEW tree,
         NEW profile, NEW e \in Evaluators
  PROVE  SoundResult(RunSubject(tree, mode, fates, profile)[e], mode, fates[e])
<1>1. SoundResult(CommandResult(mode, fates[e]), mode, fates[e])
  BY CommandIsSound
<1>2. \A v \in {"UNKNOWN", "BLOCKED_RESOURCE", "NOT_APPLICABLE"} :
        SoundResult([verdict |-> v, timeout |-> FALSE], mode, fates[e])
  BY DEF SoundResult
<1>3. RunSubject(tree, mode, fates, profile)[e] \in
        {CommandResult(mode, fates[e])} \cup
          {[verdict |-> v, timeout |-> FALSE] : v \in {"UNKNOWN", "BLOCKED_RESOURCE", "NOT_APPLICABLE"}}
  BY DEF RunSubject
<1> QED
  BY <1>1, <1>2, <1>3

-----------------------------------------------------------------------------
(* What an evaluation of trees concludes.                                   *)

\* What VerdictsHaveCauses and Consistent claim of the payload of a case.
SoundPayload(case, p) ==
    /\ p.vector \in [Dimensions -> Verdicts]
    /\ \A e \in Evaluators :
         case.candidateFates[e] \in Outages(case.mode) =>
            p.vector[e] \notin {"PASS", "FAIL", "WARN"}
    /\ \/ case.candidateFates["tests"] \in Outages(case.mode)
       \/ case.baselineFates["tests"] \in Outages(case.mode)
       => p.vector.regression = "UNKNOWN"
    /\ p.summary = "VERIFIED_FAIL" =>
         \/ \E e \in {"tests", "build"} :
              case.candidateFates[e] \notin Outages(case.mode) \cup {"passes"}
         \/ case.candidate.secret
         \/ case.candidate.imports = "forbidden"
         \/ case.candidate.paths # PathsOf(case.baseline)
    /\ /\ p.vector.correctness = "PASS"
       /\ \E d \in {"security", "architecture", "scope"} : p.vector[d] = "FAIL"
       => p.summary = "VERIFIED_FAIL"
    /\ \A result \in p.results : result.timeout => result.verdict # "PASS"
    /\ p.eligibility # "INSUFFICIENT_EVIDENCE"

LEMMA CaseIsSound ==
  ASSUME NEW case, IsCase(case), NEW profile
  PROVE  SoundPayload(case, EvaluateTrees(case, profile))
<1> DEFINE candidate == case.candidate
           baseline == case.baseline
           identity == <<candidate.hash, IF baseline = None THEN None ELSE baseline.hash>>
           cand == RunSubject(candidate, case.mode, case.candidateFates, profile)
           base == RunSubject(baseline, case.mode, case.baselineFates, profile)
           comparison == [e \in Evaluators |-> Classify(base[e].verdict, cand[e].verdict)]
           Verdict(e) == IF e \in {"lint", "typecheck"} /\ comparison[e] = "UNCHANGED_FAILURE"
                         THEN "WARN" ELSE cand[e].verdict
           vector == [d \in Dimensions |->
                       CASE d \in Evaluators -> Verdict(d)
                         [] d = "correctness" -> Correctness(Verdict("tests"), Verdict("build"))
                         [] d = "regression" -> comparison["tests"]
                         [] d = "security" -> SecurityPolicy(candidate)
                         [] d = "architecture" -> ArchitecturePolicy(candidate, profile)
                         [] d = "scope" -> ScopePolicy(candidate, baseline, profile)
                         [] d = "acceptance" -> AcceptanceChecks
                         [] d = "ci" -> "NOT_APPLICABLE"]
           results == {[verdict |-> Verdict(e), timeout |-> cand[e].timeout] : e \in Evaluators}
                       \cup {base[e] : e \in Evaluators}
           p == EvaluateTrees(case, profile)
<1>1. p = Payload("TEST_ELIGIBLE", vector, Summary(vector), results, identity)
  BY DEF EvaluateTrees
<1>2. /\ p.vector = vector /\ p.summary = Summary(vector)
      /\ p.results = results /\ p.eligibility = "TEST_ELIGIBLE"
  <2> HIDE DEF vector, results, identity, p
  <2> QED
    BY <1>1 DEF Payload
<1>3. \A e \in Evaluators :
        /\ SoundResult(cand[e], case.mode, case.candidateFates[e])
        /\ SoundResult(base[e], case.mode, case.baselineFates[e])
  BY SubjectIsSound DEF IsCase, Modes
<1>4. \A e \in Evaluators : comparison[e] = Classify(base[e].verdict, cand[e].verdict)
  OBVIOUS
<1> HIDE DEF cand, base, comparison
<1>5. \A e \in Evaluators :
        Verdict(e) = cand[e].verdict \/ (Verdict(e) = "WARN" /\ comparison[e] = "UNCHANGED_FAILURE")
  OBVIOUS
<1>6. Verdict("tests") = cand["tests"].verdict /\ Verdict("build") = cand["build"].verdict
  OBVIOUS
<1>7. /\ \A e \in Evaluators : vector[e] = Verdict(e)
      /\ vector.correctness = Correctness(Verdict("tests"), Verdict("build"))
      /\ vector.regression = comparison["tests"]
      /\ vector.security = SecurityPolicy(candidate)
      /\ vector.architecture = ArchitecturePolicy(candidate, profile)
      /\ vector.scope = ScopePolicy(candidate, baseline, profile)
      /\ vector.acceptance = "UNKNOWN"
      /\ vector.ci = "NOT_APPLICABLE"
      /\ vector = [d \in Dimensions |-> vector[d]]
  <2> HIDE DEF Verdict
  <2> QED
    BY DEF Evaluators, Dimensions, AcceptanceChecks
<1>8. \A result \in results : \E e \in Evaluators :
        \/ result.verdict = Verdict(e) /\ result.timeout = cand[e].timeout
        \/ result = base[e]
  <2> HIDE DEF Verdict
  <2> QED
    OBVIOUS
<1> HIDE DEF Verdict, vector, results, p
<1>9. \A b, c \in {"PASS", "FAIL", "ERROR", "UNKNOWN", "NOT_APPLICABLE", "BLOCKED_RESOURCE"} :
        /\ Classify(b, c) \in {"UNCHANGED_PASS", "INTRODUCED_FAILURE", "FIXED_FAILURE",
                               "UNCHANGED_FAILURE", "UNKNOWN"}
        /\ Classify(b, c) \in {"INTRODUCED_FAILURE", "UNCHANGED_FAILURE"} => c = "FAIL"
        /\ b \notin {"PASS", "FAIL"} \/ c \notin {"PASS", "FAIL"} => Classify(b, c) = "UNKNOWN"
  BY DEF Classify
<1>10. \A e \in Evaluators :
        /\ comparison[e] \in {"UNCHANGED_PASS", "INTRODUCED_FAILURE", "FIXED_FAILURE",
                               "UNCHANGED_FAILURE", "UNKNOWN"}
        /\ comparison[e] \in {"INTRODUCED_FAILURE", "UNCHANGED_FAILURE"} =>
             cand[e].verdict = "FAIL"
        /\ \/ case.candidateFates[e] \in Outages(case.mode)
           \/ case.baselineFates[e] \in Outages(case.mode)
           => comparison[e] = "UNKNOWN"
  BY <1>3, <1>4, <1>9 DEF SoundResult
<1>11. \A e \in Evaluators :
        /\ Verdict(e) \in {"PASS", "FAIL", "ERROR", "UNKNOWN", "NOT_APPLICABLE",
                            "BLOCKED_RESOURCE", "WARN"}
        /\ Verdict(e) = "WARN" => cand[e].verdict = "FAIL"
        /\ Verdict(e) # "WARN" => Verdict(e) = cand[e].verdict
  BY <1>3, <1>5, <1>10 DEF SoundResult
<1>12. "tests" \in Evaluators /\ "build" \in Evaluators
  BY DEF Evaluators
<1>13. /\ vector.correctness \in {"PASS", "FAIL", "ERROR", "UNKNOWN", "NOT_APPLICABLE",
                                  "BLOCKED_RESOURCE"}
       /\ vector.correctness = "FAIL" =>
            cand["tests"].verdict = "FAIL" \/ cand["build"].verdict = "FAIL"
       /\ vector.correctness = "PASS" => cand["tests"].verdict = "PASS"
  <2>1. \A t, b \in {"PASS", "FAIL", "ERROR", "UNKNOWN", "NOT_APPLICABLE", "BLOCKED_RESOURCE"} :
          /\ Correctness(t, b) \in {"PASS", "FAIL", "ERROR", "UNKNOWN", "NOT_APPLICABLE",
                                    "BLOCKED_RESOURCE"}
          /\ Correctness(t, b) = "FAIL" => t = "FAIL" \/ b = "FAIL"
          /\ Correctness(t, b) = "PASS" => t = "PASS"
    BY DEF Correctness
  <2> QED
    BY <1>3, <1>6, <1>7, <1>12, <2>1 DEF SoundResult
<1>14. /\ vector.security \in {"PASS", "FAIL"}
       /\ vector.security = "FAIL" => candidate.secret = TRUE
  BY <1>7 DEF SecurityPolicy, IsCase, IsTree
<1>15. /\ vector.architecture \in {"PASS", "FAIL", "UNKNOWN", "NOT_APPLICABLE"}
       /\ vector.architecture = "FAIL" => candidate.imports = "forbidden"
  BY <1>7 DEF ArchitecturePolicy, IsCase, IsTree
<1>16. /\ vector.scope \in {"PASS", "FAIL", "NOT_APPLICABLE"}
       /\ vector.scope = "FAIL" => candidate.paths # PathsOf(baseline)
  BY <1>7 DEF ScopePolicy
<1>17. vector \in [Dimensions -> Verdicts]
  <2>1. \A d \in Dimensions : vector[d] \in Verdicts
    BY <1>7, <1>10, <1>11, <1>12, <1>13, <1>14, <1>15, <1>16 DEF Dimensions, Verdicts
  <2> QED
    BY <1>7, <2>1
<1>18. ASSUME NEW e \in Evaluators, case.candidateFates[e] \in Outages(case.mode)
       PROVE  vector[e] \notin {"PASS", "FAIL", "WARN"}
  BY <1>3, <1>7, <1>11, <1>18 DEF SoundResult
<1>19. \/ case.candidateFates["tests"] \in Outages(case.mode)
       \/ case.baselineFates["tests"] \in Outages(case.mode)
       => vector.regression = "UNKNOWN"
  BY <1>7, <1>10, <1>12
<1>20. /\ vector.regression = "INTRODUCED_FAILURE" => cand["tests"].verdict = "FAIL"
       /\ vector.regression \in {"UNCHANGED_PASS", "INTRODUCED_FAILURE", "FIXED_FAILURE",
                                 "UNCHANGED_FAILURE", "UNKNOWN"}
  BY <1>7, <1>10, <1>12
<1>21. ASSUME Summary(vector) = "VERIFIED_FAIL"
       PROVE  \/ \E e \in {"tests", "build"} :
                   case.candidateFates[e] \notin Outages(case.mode) \cup {"passes"}
              \/ case.candidate.secret
              \/ case.candidate.imports = "forbidden"
              \/ case.candidate.paths # PathsOf(case.baseline)
  <2>1. \/ vector.regression = "INTRODUCED_FAILURE" \/ vector.correctness = "FAIL"
        \/ \E d \in {"security", "architecture", "scope"} : vector[d] = "FAIL"
    BY <1>21 DEF Summary
  <2>2. \/ cand["tests"].verdict = "FAIL" \/ cand["build"].verdict = "FAIL"
        \/ vector.security = "FAIL" \/ vector.architecture = "FAIL" \/ vector.scope = "FAIL"
    BY <1>13, <1>20, <2>1
  <2>3. ASSUME NEW e \in {"tests", "build"}, cand[e].verdict = "FAIL"
        PROVE  case.candidateFates[e] \notin Outages(case.mode) \cup {"passes"}
    BY <1>3, <1>12, <2>3 DEF SoundResult
  <2> QED
    BY <1>14, <1>15, <1>16, <2>2, <2>3
<1>22. ASSUME vector.correctness = "PASS",
              \E d \in {"security", "architecture", "scope"} : vector[d] = "FAIL"
       PROVE  Summary(vector) = "VERIFIED_FAIL"
  <2>1. vector.regression \notin {"INTRODUCED_FAILURE", "UNCHANGED_FAILURE"}
    BY <1>7, <1>10, <1>12, <1>13, <1>22
  <2> QED
    BY <1>20, <1>22, <2>1 DEF Summary
<1>23. \A result \in results : result.timeout => result.verdict # "PASS"
  BY <1>3, <1>8, <1>11 DEF SoundResult
<1> QED
  <2>1. SoundPayload(case, p)
    BY <1>2, <1>17, <1>18, <1>19, <1>21, <1>22, <1>23 DEF SoundPayload
  <2> QED
    BY <2>1 DEF p


-----------------------------------------------------------------------------
(* The inductive invariant.                                                 *)

RowRecords == [work: Works, current: BOOLEAN]

SessionRecords ==
    [pc: {"idle", "started", "looked", "returned"}, sweeps: BOOLEAN, recompute: BOOLEAN,
     todo: SUBSET Tasks, work: Works \cup {None}, found: BOOLEAN, raced: BOOLEAN]

Performers ==
    [pc: {"idle", "free", "outcomes", "read", "done"}, wanted: SUBSET Cohorts,
     outcomes: [Tasks -> Nat], evaluations: SUBSET RowRecords]

Layers == {"analytics", "evaluation", "performance"}

\* Rows of the outcome table follow their tasks, and tasks their budgets.
TableOK ==
    /\ left \in WorldRecords
    /\ TableTypeOK
    /\ \A t \in Tasks : /\ table[t] <= task[t]
                        /\ task[t] + left.events[t] <= Len(Facts[t])

\* What the sessions of the evaluation layer and their rows are.
EvaluationOK ==
    /\ evaluations \subseteq RowRecords
    /\ evaluator \in [Evaluating -> SessionRecords]
    /\ \A s \in Evaluating : evaluator[s].pc \in {"looked", "returned"} => evaluator[s].work \in Works
    /\ \A s \in Runners :
         /\ evaluator[s].pc \in {"looked", "returned"} => evaluator[s].work.case \in Cases
         /\ evaluator[s].pc # "started" /\ evaluator[s].sweeps = FALSE

\* No identity has two current rows.
OneCurrent ==
    \A row, other \in evaluations :
        row.current /\ other.current /\ Identity(row.work) = Identity(other.work) => row = other

\* A pass of the performance layer has its lock, and what it read of the
\* outcomes lies between what is published and what the table holds.
PassOK ==
    /\ published \in [basis: [Tasks -> Nat], evaluations: SUBSET RowRecords, wanted: SUBSET Cohorts]
    /\ performer \in [Performing -> Performers]
    /\ \A s \in Performing : performer[s].pc # "idle" => held["performance"] = s
    /\ \A t \in Tasks : published.basis[t] <= table[t]
    /\ \A s \in Performing : performer[s].pc \in {"outcomes", "read"} =>
         \A t \in Tasks : /\ published.basis[t] <= performer[s].outcomes[t]
                          /\ performer[s].outcomes[t] <= table[t]

HeldOK == held \in [Layers -> {None, Analytics} \cup Evaluating \cup Performing]

IInv == TableOK /\ HeldOK /\ EvaluationOK /\ OneCurrent /\ PassOK


-----------------------------------------------------------------------------
(* Steps of the tables and of the budgets.                                  *)

Rises == \A t \in Tasks : table[t] <= table'[t]

\* A step spends nothing, or one of a budget.
Spends ==
    \/ left' = left
    \/ left.operator > 0 /\ left' = [left EXCEPT !.operator = @ - 1]
    \/ left.units > 0 /\ left' = [left EXCEPT !.units = @ - 1]
    \/ left.crashes > 0 /\ left' = [left EXCEPT !.crashes = @ - 1]

LEMMA SpendingKeepsTable ==
  ASSUME TableOK, UNCHANGED tableVars, Spends
  PROVE  TableOK' /\ Rises
<1>1. /\ left.operator \in Nat /\ left.units \in Nat /\ left.crashes \in Nat
      /\ left \in WorldRecords
  BY DEF TableOK, WorldRecords
<1>2. left' \in WorldRecords /\ left'.events = left.events
  <2>1. \A n \in Nat : n > 0 => n - 1 \in Nat
    OBVIOUS
  <2>2. CASE left' = left
    BY <1>1, <2>2
  <2>3. CASE left.operator > 0 /\ left' = [left EXCEPT !.operator = @ - 1]
    BY <1>1, <2>1, <2>3 DEF WorldRecords
  <2>4. CASE left.units > 0 /\ left' = [left EXCEPT !.units = @ - 1]
    BY <1>1, <2>1, <2>4 DEF WorldRecords
  <2>5. CASE left.crashes > 0 /\ left' = [left EXCEPT !.crashes = @ - 1]
    BY <1>1, <2>1, <2>5 DEF WorldRecords
  <2> QED
    BY <2>2, <2>3, <2>4, <2>5 DEF Spends
<1>3. task' = task /\ table' = table
  BY DEF tableVars
<1>4. \A t \in Tasks : table[t] \in Nat
  BY DEF TableOK, TableTypeOK
<1> QED
  BY <1>2, <1>3, <1>4 DEF TableOK, TableTypeOK, Rises

LEMMA MovingKeepsTable ==
  ASSUME TableOK, NEW t \in Tasks, TaskMoves(t)
  PROVE  TableOK' /\ Rises
<1>1. /\ task \in [Tasks -> Nat] /\ table \in [Tasks -> Nat] /\ left \in WorldRecords
      /\ \A u \in Tasks : table[u] <= task[u] /\ task[u] + left.events[u] <= Len(Facts[u])
  BY DEF TableOK, TableTypeOK
<1>2. left.events \in [Tasks -> Nat]
  BY <1>1 DEF WorldRecords
<1>3. /\ left.events[t] > 0
      /\ task' = [task EXCEPT ![t] = @ + 1] /\ table' = table
      /\ left' = [left EXCEPT !.events[t] = @ - 1]
  BY DEF TaskMoves, TaskChanges
<1>4. left.events[t] - 1 \in Nat
  BY <1>2, <1>3
<1>5. [left.events EXCEPT ![t] = @ - 1] \in [Tasks -> Nat]
  BY <1>2, <1>4
<1>6. left' = [left EXCEPT !.events = [left.events EXCEPT ![t] = @ - 1]]
  BY <1>1, <1>3 DEF WorldRecords
<1>7. left' \in WorldRecords /\ left'.events = [left.events EXCEPT ![t] = @ - 1]
  BY <1>1, <1>5, <1>6 DEF WorldRecords
<1>8. \A u \in Tasks : Len(Facts[u]) \in Nat
  BY PerformanceAssumption, \A s \in Seq(FactRecords) : Len(s) \in Nat
<1>9. \A u \in Tasks : table'[u] <= task'[u] /\ task'[u] + left'.events[u] <= Len(Facts[u])
  BY <1>1, <1>2, <1>3, <1>7, <1>8
<1> QED
  BY <1>1, <1>3, <1>7, <1>9 DEF TableOK, TableTypeOK, Rises

LEMMA PublishingKeepsTable ==
  ASSUME TableOK, NEW t \in Tasks, AnalyticsPublishes(t)
  PROVE  TableOK' /\ Rises
<1>1. /\ task \in [Tasks -> Nat] /\ table \in [Tasks -> Nat] /\ left \in WorldRecords
      /\ \A u \in Tasks : table[u] <= task[u] /\ task[u] + left.events[u] <= Len(Facts[u])
  BY DEF TableOK, TableTypeOK
<1>2. PICK n \in table[t]..task[t] : table' = [table EXCEPT ![t] = n] /\ task' = task
  BY DEF AnalyticsPublishes, Publish
<1>3. n \in Nat /\ table[t] <= n /\ n <= task[t]
  BY <1>1, <1>2
<1>4. left' = left
  BY DEF AnalyticsPublishes
<1> QED
  BY <1>1, <1>2, <1>3, <1>4 DEF TableOK, TableTypeOK, Rises

-----------------------------------------------------------------------------
(* Steps of the advisory locks.                                             *)

\* A session that is not of the performance layer never frees its lock.
LockStays == \A p \in Performing : held["performance"] = p => held'["performance"] = p

LEMMA SessionsDiffer ==
  /\ Sweep # Operator /\ Runners \cap {Sweep, Operator} = {}
  /\ \A s \in Evaluating \cup {Analytics} : s \notin Performing /\ s # None
  /\ Analytics \notin Evaluating
  /\ \A p \in Performing : p # None /\ p \notin Evaluating /\ p # Analytics
BY EvaluationAssumption, PerformanceAssumption

LEMMA ReleasedKeepsHeld ==
  ASSUME HeldOK, NEW s \in {Analytics} \cup Evaluating \cup Performing, held' = Released(s)
  PROVE  /\ HeldOK'
         /\ \A l \in Layers : held[l] # s => held'[l] = held[l]
<1>1. held' = [l \in Layers |-> IF held[l] = s THEN None ELSE held[l]]
  BY DEF Released, HeldOK
<1>2. HeldOK'
  BY <1>1 DEF HeldOK
<1> QED
  BY <1>1, <1>2

LEMMA LockedKeepsHeld ==
  ASSUME HeldOK, NEW s \in {Analytics} \cup Evaluating \cup Performing, NEW layer \in Layers,
         TryLock(layer, s)
  PROVE  /\ HeldOK' /\ held[layer] = None /\ held'[layer] = s
         /\ \A l \in Layers : l # layer => held'[l] = held[l]
<1>1. held \in [Layers -> {None, Analytics} \cup Evaluating \cup Performing]
  BY DEF HeldOK
<1>2. held[layer] = None /\ held' = [held EXCEPT ![layer] = s]
  BY DEF TryLock
<1>3. held' \in [Layers -> {None, Analytics} \cup Evaluating \cup Performing]
  BY <1>1, <1>2
<1> QED
  BY <1>1, <1>2, <1>3 DEF HeldOK

LEMMA OthersKeepPerformanceLock ==
  ASSUME HeldOK, NEW s \in {Analytics} \cup Evaluating,
         \/ held' = held
         \/ held' = Released(s)
         \/ \E layer \in {"analytics", "evaluation"} : TryLock(layer, s)
  PROVE  HeldOK' /\ LockStays
<1>1. CASE held' = held
  BY <1>1 DEF HeldOK, LockStays
<1>2. CASE held' = Released(s)
  BY <1>2, ReleasedKeepsHeld, SessionsDiffer DEF LockStays, Layers
<1>3. ASSUME NEW layer \in {"analytics", "evaluation"}, TryLock(layer, s)
      PROVE  HeldOK' /\ LockStays
  <2>1. layer \in Layers /\ layer # "performance" /\ "performance" \in Layers
    BY DEF Layers
  <2> QED
    BY <1>3, <2>1, LockedKeepsHeld DEF LockStays
<1> QED
  BY <1>1, <1>2, <1>3

-----------------------------------------------------------------------------
(* Steps of the sessions that evaluate.                                     *)

\* No identity that has a current row is left without.
NoneLost ==
    \A row \in evaluations : row.current =>
        \E other \in evaluations' : other.current /\ Identity(other.work) = Identity(row.work)

LEMMA SessionsAreRecords ==
  /\ \A a, b \in BOOLEAN : /\ Session(a, b) \in SessionRecords
                           /\ Session(a, b).pc = "started" /\ Session(a, b).sweeps = a
  /\ Idle \in SessionRecords /\ Idle.pc = "idle" /\ Idle.sweeps = FALSE
BY DEF Session, Idle, SessionRecords

\* One session moves on and the rows stay.
LEMMA ProceedsOK ==
  ASSUME EvaluationOK, OneCurrent, NEW s \in Evaluating, NEW record \in SessionRecords,
         Proceeds(s, record), UNCHANGED evaluations,
         record.pc \in {"looked", "returned"} =>
            record.work \in Works /\ (s \in Runners => record.work.case \in Cases),
         s \in Runners => record.pc # "started" /\ record.sweeps = FALSE
  PROVE  EvaluationOK' /\ OneCurrent' /\ NoneLost
<1>1. evaluator' = [evaluator EXCEPT ![s] = record] /\ evaluations' = evaluations
  BY DEF Proceeds
<1>2. evaluator' \in [Evaluating -> SessionRecords]
  BY <1>1 DEF EvaluationOK
<1>3. \A o \in Evaluating : evaluator'[o] = IF o = s THEN record ELSE evaluator[o]
  BY <1>1 DEF EvaluationOK
<1>4. Runners \subseteq Evaluating
  BY DEF Evaluating
<1>5. EvaluationOK'
  BY <1>1, <1>2, <1>3, <1>4 DEF EvaluationOK
<1> QED
  BY <1>1, <1>5 DEF OneCurrent, NoneLost

LEMMA OnwardOK ==
  ASSUME EvaluationOK, NEW s \in Evaluating
  PROVE  /\ Onward(s) \in SessionRecords
         /\ Onward(s).pc \in {"idle", "started"}
         /\ s \in Runners => Onward(s).pc = "idle" /\ Onward(s).sweeps = FALSE
<1>1. evaluator[s] \in SessionRecords
  BY DEF EvaluationOK
<1>2. evaluator[s].sweeps \in BOOLEAN /\ evaluator[s].recompute \in BOOLEAN
        /\ evaluator[s].todo \subseteq Tasks
  BY <1>1 DEF SessionRecords
<1>3. CASE evaluator[s].sweeps = TRUE
  <2>1. s \notin Runners
    BY <1>3 DEF EvaluationOK
  <2>2. Onward(s) = [Session(TRUE, evaluator[s].recompute) EXCEPT !.todo = evaluator[s].todo]
    BY <1>3 DEF Onward
  <2> QED
    BY <1>2, <2>1, <2>2 DEF Session, SessionRecords
<1>4. CASE evaluator[s].sweeps = FALSE
  BY <1>4, SessionsAreRecords DEF Onward
<1> QED
  BY <1>2, <1>3, <1>4

\* A commit: the rows are replaced, the others that looked are overtaken.
LEMMA CommitsOK ==
  ASSUME EvaluationOK, NEW s \in Evaluating, NEW rows \in SUBSET RowRecords, Commits(s, rows)
  PROVE  EvaluationOK' /\ evaluations' = rows
<1>1. /\ evaluations' = rows
      /\ evaluator' = [o \in Evaluating |->
                         IF o = s THEN Onward(s)
                         ELSE IF evaluator[o].pc = "looked" /\ Sought(o) = Sought(s)
                                THEN [evaluator[o] EXCEPT !.raced = TRUE]
                         ELSE evaluator[o]]
  BY DEF Commits
<1>2. \A o \in Evaluating :
        \/ o = s /\ evaluator'[o] = Onward(s)
        \/ o # s /\ evaluator'[o] \in {evaluator[o], [evaluator[o] EXCEPT !.raced = TRUE]}
  BY <1>1
<1>3. \A record \in SessionRecords :
        LET after == [record EXCEPT !.raced = TRUE] IN
        /\ after \in SessionRecords /\ after.pc = record.pc
        /\ after.work = record.work /\ after.sweeps = record.sweeps
  BY DEF SessionRecords
<1>4. \A o \in Evaluating : o # s =>
        /\ evaluator'[o] \in SessionRecords /\ evaluator'[o].pc = evaluator[o].pc
        /\ evaluator'[o].work = evaluator[o].work /\ evaluator'[o].sweeps = evaluator[o].sweeps
  <2> TAKE o \in Evaluating
  <2> HAVE o # s
  <2> DEFINE before == evaluator[o]
  <2>1. before \in SessionRecords
    BY DEF EvaluationOK
  <2>2. evaluator'[o] = before \/ evaluator'[o] = [before EXCEPT !.raced = TRUE]
    BY <1>2
  <2> HIDE DEF before
  <2>3. /\ evaluator'[o] \in SessionRecords /\ evaluator'[o].pc = before.pc
        /\ evaluator'[o].work = before.work /\ evaluator'[o].sweeps = before.sweeps
    BY <1>3, <2>1, <2>2
  <2> QED
    BY <2>3 DEF before
<1>5. evaluator' \in [Evaluating -> SessionRecords]
  <2>1. \A o \in Evaluating : evaluator'[o] \in SessionRecords
    BY <1>2, <1>4, OnwardOK
  <2> QED
    BY <1>1, <2>1
<1>6. \A o \in Evaluating : evaluator'[o].pc \in {"looked", "returned"} => evaluator'[o].work \in Works
  BY <1>2, <1>4, OnwardOK DEF EvaluationOK
<1>7. \A o \in Runners :
        /\ evaluator'[o].pc \in {"looked", "returned"} => evaluator'[o].work.case \in Cases
        /\ evaluator'[o].pc # "started" /\ evaluator'[o].sweeps = FALSE
  <2> TAKE o \in Runners
  <2>1. o \in Evaluating
    BY DEF Evaluating
  <2>2. CASE o = s
    BY <1>2, <2>1, <2>2, OnwardOK
  <2>3. CASE o # s
    BY <1>4, <2>1, <2>3 DEF EvaluationOK
  <2> QED
    BY <2>2, <2>3
<1> QED
  BY <1>1, <1>5, <1>6, <1>7 DEF EvaluationOK


\* persist_run keeps the rows of an identity to one that is current, and never
\* leaves an identity without that had one: a recompute replaces what is current
\* now, and a row is inserted only where none is current now.
LEMMA PersistOK ==
  ASSUME EvaluationOK, OneCurrent, NEW s \in Evaluating, PersistRun(s)
  PROVE  EvaluationOK' /\ OneCurrent' /\ NoneLost
<1> DEFINE work == evaluator[s].work
           id == Identity(work)
<1>1. evaluator[s].pc = "looked" /\ work \in Works
  BY DEF PersistRun, Unchanged, Supersedes, Inserts, UniqueViolation, EvaluationOK
<1>2. Sought(s) = id
  BY DEF Sought
<1>3. Row(work) \in RowRecords /\ Row(work).current = TRUE /\ Row(work).work = work
  BY <1>1 DEF Row, RowRecords
<1>4. CASE Unchanged(s)
  <2>1. Proceeds(s, Onward(s)) /\ UNCHANGED evaluations
    BY <1>4 DEF Unchanged
  <2> QED
    BY <2>1, OnwardOK, ProceedsOK
<1>5. CASE UniqueViolation(s)
  <2>1. Proceeds(s, Idle) /\ UNCHANGED evaluations
    BY <1>5 DEF UniqueViolation, Dies
  <2> QED
    BY <2>1, SessionsAreRecords, ProceedsOK
<1>6. CASE Supersedes(s)
  <2> DEFINE rows == Superseded(id) \cup {Row(work)}
  <2>1. Commits(s, rows)
    BY <1>2, <1>6 DEF Supersedes
  <2>2. \A row \in Superseded(id) : \E old \in evaluations :
          /\ row.work = old.work /\ row \in RowRecords
          /\ Identity(old.work) = id => row.current = FALSE
          /\ Identity(old.work) # id => row = old
    <3> TAKE row \in Superseded(id)
    <3>1. PICK old \in evaluations :
            row = IF Identity(old.work) = id THEN [old EXCEPT !.current = FALSE] ELSE old
      BY DEF Superseded
    <3>2. old \in RowRecords
      BY DEF EvaluationOK
    <3>3. [old EXCEPT !.current = FALSE] \in RowRecords
            /\ [old EXCEPT !.current = FALSE].work = old.work
            /\ [old EXCEPT !.current = FALSE].current = FALSE
      BY <3>2 DEF RowRecords
    <3> QED
      BY <3>1, <3>2, <3>3
  <2>3. \A old \in evaluations : Identity(old.work) # id => old \in Superseded(id)
    BY DEF Superseded
  <2> HIDE DEF id, work
  <2>4. rows \in SUBSET RowRecords
    BY <1>3, <2>2
  <2>5. EvaluationOK' /\ evaluations' = rows
    BY <2>1, <2>4, CommitsOK
  <2>6. Row(work) \in rows
    OBVIOUS
  <2>7. \A row \in rows : row.current =>
          \/ row = Row(work)
          \/ row \in evaluations /\ Identity(row.work) # id
    BY <2>2
  <2>8. id = Identity(work)
    BY DEF id
  <2>9. \A row, other \in rows :
          row.current /\ other.current /\ Identity(row.work) = Identity(other.work) => row = other
    BY <1>3, <2>7, <2>8 DEF OneCurrent
  <2>10. OneCurrent'
    BY <2>5, <2>9 DEF OneCurrent
  <2>11. NoneLost
    <3> SUFFICES ASSUME NEW row \in evaluations, row.current
                 PROVE  \E other \in rows : other.current /\ Identity(other.work) = Identity(row.work)
      BY <2>5 DEF NoneLost
    <3>1. CASE Identity(row.work) = id
      BY <1>3, <2>6, <2>8, <3>1
    <3>2. CASE Identity(row.work) # id
      BY <2>3, <3>2
    <3> QED
      BY <3>1, <3>2
  <2> QED
    BY <2>5, <2>10, <2>11
<1>7. CASE Inserts(s)
  <2> DEFINE rows == evaluations \cup {Row(work)}
  <2>1. Commits(s, rows) /\ Current(id) = {}
    BY <1>2, <1>7 DEF Inserts
  <2>2. \A row \in evaluations : row.current => Identity(row.work) # id
    BY <2>1 DEF Current
  <2> HIDE DEF id, work
  <2>3. rows \in SUBSET RowRecords
    BY <1>3 DEF EvaluationOK
  <2>4. EvaluationOK' /\ evaluations' = rows
    BY <2>1, <2>3, CommitsOK
  <2>5. id = Identity(work)
    BY DEF id
  <2>6. \A row, other \in rows :
          row.current /\ other.current /\ Identity(row.work) = Identity(other.work) => row = other
    BY <1>3, <2>2, <2>5 DEF OneCurrent
  <2>7. OneCurrent'
    BY <2>4, <2>6 DEF OneCurrent
  <2>8. NoneLost
    BY <2>4 DEF NoneLost
  <2> QED
    BY <2>4, <2>7, <2>8
<1> QED
  BY <1>4, <1>5, <1>6, <1>7 DEF PersistRun

\* The work a session takes up.
LEMMA WorksAreTyped ==
  /\ \A t \in Tasks, cohort \in CohortNames :
       /\ Work(None, t, "INSUFFICIENT_EVIDENCE", cohort) \in Works
       /\ \A known \in CohortNames \cup {None}, commit \in BOOLEAN :
            Work(None, t, ClassifyTask(known, commit), cohort) \in Works
  /\ \A case \in Cases, u \in Units :
       /\ Work(case, u, "TEST_ELIGIBLE", "fixture") \in Works
       /\ Work(case, u, "TEST_ELIGIBLE", "fixture").case = case
BY DEF Work, Works, CohortNames, ClassifyTask

LEMMA LookOK ==
  ASSUME EvaluationOK, OneCurrent, NEW s \in Evaluating, NEW session \in SessionRecords,
         NEW work \in Works, Look(s, session, work), UNCHANGED evaluations,
         s \in Runners => work.case \in Cases /\ session.sweeps = FALSE
  PROVE  EvaluationOK' /\ OneCurrent' /\ NoneLost
<1> DEFINE found == Current(Identity(work)) # {}
           record == [session EXCEPT !.pc = "looked", !.work = work, !.found = found]
<1>1. Proceeds(s, record)
  BY DEF Look
<1>2. found \in BOOLEAN
  OBVIOUS
<1> HIDE DEF found
<1>3. /\ record \in SessionRecords /\ record.pc = "looked" /\ record.work = work
      /\ record.sweeps = session.sweeps
  BY <1>2 DEF SessionRecords
<1> HIDE DEF record
<1> QED
  BY <1>1, <1>3, ProceedsOK

LEMMA SweepsOK ==
  ASSUME EvaluationOK, OneCurrent, NEW s \in {Sweep, Operator}, NEW recompute \in BOOLEAN,
         SweepBegins(s, recompute)
  PROVE  EvaluationOK' /\ OneCurrent' /\ NoneLost
<1> DEFINE record == [Session(TRUE, recompute) EXCEPT !.todo = InsufficientTasks]
<1>1. Proceeds(s, record) /\ UNCHANGED evaluations
  BY DEF SweepBegins, evaluationVars
<1>2. InsufficientTasks \in SUBSET Tasks
  BY DEF InsufficientTasks
<1>3. record \in SessionRecords /\ record.pc = "started"
  BY <1>2 DEF Session, SessionRecords
<1>4. s \in Evaluating /\ s \notin Runners
  BY SessionsDiffer DEF Evaluating
<1> QED
  BY <1>1, <1>3, <1>4, ProceedsOK

LEMMA SweepLooksOK ==
  ASSUME EvaluationOK, OneCurrent, NEW s \in {Sweep, Operator}, NEW t \in Tasks, SweepLooks(s, t)
  PROVE  EvaluationOK' /\ OneCurrent' /\ NoneLost
<1> DEFINE session == [evaluator[s] EXCEPT !.todo = @ \ {t}]
           work == Work(None, t, "INSUFFICIENT_EVIDENCE", Cohort[t])
<1>1. Look(s, session, work) /\ UNCHANGED evaluations
  BY DEF SweepLooks
<1>2. s \in Evaluating /\ s \notin Runners
  BY SessionsDiffer DEF Evaluating
<1>3. session \in SessionRecords
  <2>1. evaluator[s] \in SessionRecords
    BY <1>2 DEF EvaluationOK
  <2> QED
    BY <2>1 DEF SessionRecords
<1>4. work \in Works
  <2>1. Cohort[t] \in CohortNames
    BY EvaluationAssumption
  <2> QED
    BY <2>1, WorksAreTyped
<1> QED
  BY <1>1, <1>2, <1>3, <1>4, LookOK

LEMMA OperatorEvaluatesOK ==
  ASSUME EvaluationOK, OneCurrent, NEW t \in Tasks, OperatorEvaluates(t)
  PROVE  EvaluationOK' /\ OneCurrent' /\ NoneLost
<1> DEFINE known == IF table[t] > 0 THEN Cohort[t] ELSE None
           commit == HasCommit(t)
           work == Work(None, t, ClassifyTask(known, commit), DefaultCohort)
<1>1. PICK recompute \in BOOLEAN : Look(Operator, Session(FALSE, recompute), work)
  BY DEF OperatorEvaluates
<1>2. UNCHANGED evaluations
  BY DEF OperatorEvaluates
<1>3. Operator \in Evaluating /\ Operator \notin Runners
  BY SessionsDiffer DEF Evaluating
<1>4. work \in Works
  <2>1. known \in CohortNames \cup {None}
    BY EvaluationAssumption
  <2>2. commit \in BOOLEAN
    BY DEF HasCommit
  <2>3. DefaultCohort \in CohortNames
    BY DEF DefaultCohort, CohortNames
  <2> HIDE DEF known, commit
  <2> QED
    BY <2>1, <2>2, <2>3, WorksAreTyped
<1> HIDE DEF work
<1> QED
  BY <1>1, <1>2, <1>3, <1>4, LookOK, SessionsAreRecords

LEMMA RunUnitOK ==
  ASSUME EvaluationOK, OneCurrent, NEW s \in Runners, NEW u \in Units, RunUnit(s, u)
  PROVE  EvaluationOK' /\ OneCurrent' /\ NoneLost
<1>1. PICK case \in Cases :
        LET work == Work(case, u, "TEST_ELIGIBLE", "fixture") IN
        \/ Look(s, Session(FALSE, TRUE), work)
        \/ Proceeds(s, [Session(FALSE, TRUE) EXCEPT !.pc = "returned", !.work = work])
  BY DEF RunUnit
<1>2. UNCHANGED evaluations
  BY DEF RunUnit
<1> DEFINE work == Work(case, u, "TEST_ELIGIBLE", "fixture")
           record == [Session(FALSE, TRUE) EXCEPT !.pc = "returned", !.work = work]
<1>3. s \in Evaluating
  BY DEF Evaluating
<1>4. work \in Works /\ work.case = case
  BY WorksAreTyped
<1> HIDE DEF work
<1>5. /\ record \in SessionRecords /\ record.pc = "returned" /\ record.work = work
      /\ record.sweeps = FALSE
  BY <1>4 DEF Session, SessionRecords
<1>6. CASE Look(s, Session(FALSE, TRUE), work)
  <2>1. Session(FALSE, TRUE) \in SessionRecords /\ Session(FALSE, TRUE).sweeps = FALSE
    BY SessionsAreRecords
  <2> QED
    BY <1>2, <1>3, <1>4, <1>6, <2>1, LookOK
<1>7. CASE Proceeds(s, record)
  <2> HIDE DEF record
  <2> QED
    BY <1>2, <1>3, <1>4, <1>5, <1>7, ProceedsOK
<1> QED
  BY <1>1, <1>6, <1>7 DEF work

LEMMA StopsOK ==
  ASSUME EvaluationOK, OneCurrent, NEW s \in Evaluating, Proceeds(s, Idle), UNCHANGED evaluations
  PROVE  EvaluationOK' /\ OneCurrent' /\ NoneLost
BY SessionsAreRecords, ProceedsOK

LEMMA RestsOK ==
  ASSUME EvaluationOK, OneCurrent, UNCHANGED evaluationVars
  PROVE  EvaluationOK' /\ OneCurrent' /\ NoneLost
BY DEF EvaluationOK, OneCurrent, NoneLost, evaluationVars


-----------------------------------------------------------------------------
(* Every step of the layers.                                                *)

\* What a step of analytics and evaluation leaves behind.
LayersKept ==
    /\ TableOK' /\ Rises /\ HeldOK' /\ LockStays
    /\ EvaluationOK' /\ OneCurrent' /\ NoneLost

LEMMA EvaluationStep ==
  ASSUME IInv, EvaluationNext
  PROVE  LayersKept
<1> USE DEF LayersKept
<1>1. TableOK /\ HeldOK /\ EvaluationOK /\ OneCurrent
  BY DEF IInv
<1>2. CASE AnalyticsBegins
  <2>1. TryLock("analytics", Analytics) /\ UNCHANGED <<tableVars, evaluationVars>> /\ Spends
    BY <1>2 DEF AnalyticsBegins, Spends
  <2> QED
    BY <1>1, <2>1, SpendingKeepsTable, OthersKeepPerformanceLock, RestsOK
<1>3. CASE AnalyticsEnds
  <2>1. held' = Released(Analytics) /\ UNCHANGED <<tableVars, evaluationVars>> /\ Spends
    BY <1>3 DEF AnalyticsEnds, Spends
  <2> QED
    BY <1>1, <2>1, SpendingKeepsTable, OthersKeepPerformanceLock, RestsOK
<1>4. CASE TimerSweeps
  <2>1. SweepBegins(Sweep, FALSE) /\ Spends
    BY <1>4 DEF TimerSweeps, Spends
  <2>2. TryLock("evaluation", Sweep) /\ UNCHANGED tableVars
    BY <2>1 DEF SweepBegins
  <2>3. Sweep \in Evaluating
    BY DEF Evaluating
  <2> QED
    BY <1>1, <2>1, <2>2, <2>3, SpendingKeepsTable, OthersKeepPerformanceLock, SweepsOK
<1>5. CASE OperatorSweeps
  <2>1. PICK recompute \in BOOLEAN : SweepBegins(Operator, recompute)
    BY <1>5 DEF OperatorSweeps
  <2>2. Spends
    BY <1>5 DEF OperatorSweeps, Spends
  <2>3. TryLock("evaluation", Operator) /\ UNCHANGED tableVars
    BY <2>1 DEF SweepBegins
  <2>4. Operator \in Evaluating
    BY DEF Evaluating
  <2> QED
    BY <1>1, <2>1, <2>2, <2>3, <2>4, SpendingKeepsTable, OthersKeepPerformanceLock, SweepsOK
<1>6. ASSUME NEW t \in Tasks, TaskMoves(t)
      PROVE  LayersKept
  <2>1. UNCHANGED <<held, evaluationVars>>
    BY <1>6 DEF TaskMoves
  <2> QED
    BY <1>1, <1>6, <2>1, MovingKeepsTable, OthersKeepPerformanceLock, RestsOK
<1>7. ASSUME NEW t \in Tasks, AnalyticsPublishes(t)
      PROVE  LayersKept
  <2>1. UNCHANGED <<held, evaluationVars>>
    BY <1>7 DEF AnalyticsPublishes
  <2> QED
    BY <1>1, <1>7, <2>1, PublishingKeepsTable, OthersKeepPerformanceLock, RestsOK
<1>8. ASSUME NEW t \in Tasks, OperatorEvaluates(t)
      PROVE  LayersKept
  <2>1. UNCHANGED <<tableVars, held>> /\ Spends
    BY <1>8 DEF OperatorEvaluates, Spends
  <2> QED
    BY <1>1, <1>8, <2>1, SpendingKeepsTable, OthersKeepPerformanceLock, OperatorEvaluatesOK
<1>9. ASSUME NEW s \in {Sweep, Operator}, SweepEnds(s)
      PROVE  LayersKept
  <2>1. /\ Proceeds(s, Idle) /\ held' = Released(s)
        /\ UNCHANGED <<tableVars, evaluations>> /\ Spends
    BY <1>9 DEF SweepEnds, Spends
  <2>2. s \in Evaluating
    BY DEF Evaluating
  <2> QED
    BY <1>1, <2>1, <2>2, SpendingKeepsTable, OthersKeepPerformanceLock, StopsOK
<1>10. ASSUME NEW s \in {Sweep, Operator}, NEW t \in Tasks, SweepLooks(s, t)
       PROVE  LayersKept
  <2>1. UNCHANGED <<tableVars, held>> /\ Spends
    BY <1>10 DEF SweepLooks, Spends
  <2> QED
    BY <1>1, <1>10, <2>1, SpendingKeepsTable, OthersKeepPerformanceLock, SweepLooksOK
<1>11. ASSUME NEW s \in Runners, NEW u \in Units, RunUnit(s, u)
       PROVE  LayersKept
  <2>1. UNCHANGED <<tableVars, held>> /\ Spends
    BY <1>11 DEF RunUnit, Spends
  <2> QED
    BY <1>1, <1>11, <2>1, SpendingKeepsTable, OthersKeepPerformanceLock, RunUnitOK
<1>12. ASSUME NEW s \in Evaluating, PersistRun(s)
       PROVE  LayersKept
  <2>1. /\ held' = held \/ held' = Released(s)
        /\ UNCHANGED tableVars /\ Spends
    BY <1>12 DEF PersistRun, Unchanged, Supersedes, Inserts, UniqueViolation, Commits, Dies, Spends
  <2> QED
    BY <1>1, <1>12, <2>1, SpendingKeepsTable, OthersKeepPerformanceLock, PersistOK
<1>13. ASSUME NEW s \in Evaluating, Returns(s)
       PROVE  LayersKept
  <2>1. Proceeds(s, Idle) /\ UNCHANGED <<tableVars, held, evaluations>> /\ Spends
    BY <1>13 DEF Returns, Spends
  <2> QED
    BY <1>1, <2>1, SpendingKeepsTable, OthersKeepPerformanceLock, StopsOK
<1>14. ASSUME NEW s \in Evaluating, EvaluatorCrashes(s)
       PROVE  LayersKept
  <2>1. /\ Proceeds(s, Idle) /\ held' = Released(s)
        /\ UNCHANGED <<tableVars, evaluations>> /\ Spends
    BY <1>14 DEF EvaluatorCrashes, Spends
  <2> QED
    BY <1>1, <2>1, SpendingKeepsTable, OthersKeepPerformanceLock, StopsOK
<1> HIDE DEF LayersKept
<1> QED
  BY <1>2, <1>3, <1>4, <1>5, <1>6, <1>7, <1>8, <1>9, <1>10, <1>11, <1>12, <1>13, <1>14
     DEF EvaluationNext

\* A step of the layers below leaves a pass of the performance layer as it is.
LEMMA PassRests ==
  ASSUME IInv, LayersKept, UNCHANGED performanceVars
  PROVE  PassOK'
<1>1. published' = published /\ performer' = performer
  BY DEF performanceVars
<1>2. PassOK /\ table \in [Tasks -> Nat] /\ table' \in [Tasks -> Nat]
  BY DEF IInv, TableOK, TableTypeOK, LayersKept
<1>3. /\ published.basis \in [Tasks -> Nat]
      /\ \A s \in Performing : performer[s].outcomes \in [Tasks -> Nat]
  BY <1>2 DEF PassOK, Performers
<1>4. \A s \in Performing : performer[s].pc # "idle" => held'["performance"] = s
  BY <1>2 DEF PassOK, LayersKept, LockStays
<1>5. \A t \in Tasks : table[t] <= table'[t]
  BY DEF LayersKept, Rises
<1>6. \A t \in Tasks : published.basis[t] <= table'[t]
  BY <1>2, <1>3, <1>5 DEF PassOK
<1>7. \A s \in Performing : performer[s].pc \in {"outcomes", "read"} =>
        \A t \in Tasks : performer[s].outcomes[t] <= table'[t]
  BY <1>2, <1>3, <1>5 DEF PassOK
<1> QED
  BY <1>1, <1>2, <1>4, <1>6, <1>7 DEF PassOK

\* What is published comes from outcomes no older than before.
GoesForward == \A t \in Tasks : published.basis[t] <= published'.basis[t]

\* One session of the performance layer moves on, with its lock or without.
LEMMA PassMoves ==
  ASSUME IInv, NEW s \in Performing, NEW record \in Performers,
         performer' = [performer EXCEPT ![s] = record], published' = published, table' = table,
         \A p \in Performing : p # s /\ held["performance"] = p => held'["performance"] = p,
         record.pc # "idle" => held'["performance"] = s,
         record.pc \in {"outcomes", "read"} =>
            \A t \in Tasks : /\ published.basis[t] <= record.outcomes[t]
                             /\ record.outcomes[t] <= table[t]
  PROVE  PassOK' /\ GoesForward
<1>1. PassOK
  BY DEF IInv
<1>2. performer' \in [Performing -> Performers]
  BY <1>1 DEF PassOK
<1>3. \A p \in Performing : performer'[p] = IF p = s THEN record ELSE performer[p]
  BY <1>1 DEF PassOK
<1>4. \A p \in Performing : performer'[p].pc # "idle" => held'["performance"] = p
  BY <1>1, <1>3 DEF PassOK
<1>5. \A p \in Performing : performer'[p].pc \in {"outcomes", "read"} =>
        \A t \in Tasks : /\ published.basis[t] <= performer'[p].outcomes[t]
                         /\ performer'[p].outcomes[t] <= table[t]
  BY <1>1, <1>3 DEF PassOK
<1>6. \A t \in Tasks : published.basis[t] \in Nat
  BY <1>1 DEF PassOK
<1> QED
  BY <1>1, <1>2, <1>4, <1>5, <1>6 DEF PassOK, GoesForward

\* What a step of the performance layer keeps of the layers below.
LEMMA LayersRest ==
  ASSUME IInv, UNCHANGED <<tableVars, evaluationVars>>, Spends
  PROVE  TableOK' /\ EvaluationOK' /\ OneCurrent' /\ NoneLost
BY SpendingKeepsTable, RestsOK DEF IInv

Performed == TableOK' /\ HeldOK' /\ EvaluationOK' /\ OneCurrent' /\ PassOK' /\ NoneLost /\ GoesForward

LEMMA BeginsOK ==
  ASSUME IInv, NEW s \in Performing, NEW wanted \in SUBSET Cohorts, PerformanceBegins(s, wanted), Spends
  PROVE  Performed
<1> DEFINE record == [performer[s] EXCEPT !.pc = "free", !.wanted = wanted]
<1>1. /\ TryLock("performance", s)
      /\ performer' = [performer EXCEPT ![s].pc = "free", ![s].wanted = wanted]
      /\ UNCHANGED <<tableVars, evaluationVars>> /\ published' = published
  BY DEF PerformanceBegins
<1>2. performer \in [Performing -> Performers] /\ performer[s] \in Performers
  BY DEF IInv, PassOK
<1>3. record \in Performers /\ record.pc = "free"
  BY <1>2 DEF Performers
<1>4. performer' = [performer EXCEPT ![s] = record]
  BY <1>1, <1>2
<1>5. /\ HeldOK' /\ held["performance"] = None /\ held'["performance"] = s
  BY <1>1, LockedKeepsHeld DEF IInv, Layers
<1>6. \A p \in Performing : p # None
  BY SessionsDiffer
<1>7. table' = table
  BY <1>1 DEF tableVars
<1> HIDE DEF record
<1>8. PassOK' /\ GoesForward
  BY <1>1, <1>3, <1>4, <1>5, <1>6, <1>7, PassMoves
<1> QED
  BY <1>1, <1>5, <1>8, LayersRest DEF Performed

\* The pass ends, fails or dies: its session is idle and its lock is free.
LEMMA LeavesOK ==
  ASSUME IInv, NEW s \in Performing, Leaves(s), held' = Released(s), published' = published,
         UNCHANGED <<tableVars, evaluationVars>>, Spends
  PROVE  Performed
<1>1. performer' = [performer EXCEPT ![s] = PerformanceIdle]
  BY DEF Leaves
<1>2. PerformanceIdle \in Performers /\ PerformanceIdle.pc = "idle"
  BY DEF PerformanceIdle, Performers, NoOutcomes
<1>3. HeldOK' /\ \A l \in Layers : held[l] # s => held'[l] = held[l]
  BY ReleasedKeepsHeld DEF IInv
<1>4. \A p \in Performing : p # s /\ held["performance"] = p => held'["performance"] = p
  BY <1>3 DEF Layers
<1>5. table' = table
  BY DEF tableVars
<1>6. PassOK' /\ GoesForward
  BY <1>1, <1>2, <1>4, <1>5, PassMoves
<1> QED
  BY <1>3, <1>6, LayersRest DEF Performed

LEMMA ReadsOutcomesOK ==
  ASSUME IInv, NEW s \in Performing, ReadsOutcomes(s)
  PROVE  Performed
<1> DEFINE record == [performer[s] EXCEPT !.pc = "outcomes", !.outcomes = table]
<1>1. /\ performer[s].pc = "free"
      /\ performer' = [performer EXCEPT ![s].pc = "outcomes", ![s].outcomes = table]
      /\ UNCHANGED <<tableVars, evaluationVars>> /\ published' = published
      /\ held' = held /\ Spends
  BY DEF ReadsOutcomes, Spends
<1>2. performer \in [Performing -> Performers] /\ performer[s] \in Performers
  BY DEF IInv, PassOK
<1>3. table \in [Tasks -> Nat] /\ table' = table
  BY <1>1 DEF IInv, TableOK, TableTypeOK, tableVars
<1>4. record \in Performers /\ record.pc = "outcomes" /\ record.outcomes = table
  BY <1>2, <1>3 DEF Performers
<1>5. performer' = [performer EXCEPT ![s] = record]
  BY <1>1, <1>2
<1>6. held["performance"] = s
  BY <1>1 DEF IInv, PassOK
<1>7. \A t \in Tasks : published.basis[t] <= table[t] /\ table[t] <= table[t]
  BY <1>3 DEF IInv, PassOK
<1> HIDE DEF record
<1>8. PassOK' /\ GoesForward
  BY <1>1, <1>3, <1>4, <1>5, <1>6, <1>7, PassMoves
<1>9. HeldOK'
  BY <1>1 DEF IInv, HeldOK
<1> QED
  BY <1>1, <1>8, <1>9, LayersRest DEF Performed

LEMMA ReadsEvaluationsOK ==
  ASSUME IInv, NEW s \in Performing, ReadsEvaluations(s)
  PROVE  Performed
<1> DEFINE rows == {row \in evaluations : row.current}
           record == [performer[s] EXCEPT !.pc = "read", !.evaluations = rows]
<1>1. /\ performer[s].pc = "outcomes"
      /\ performer' = [performer EXCEPT ![s].pc = "read", ![s].evaluations = rows]
      /\ UNCHANGED <<tableVars, evaluationVars>> /\ published' = published
      /\ held' = held /\ Spends
  BY DEF ReadsEvaluations, Spends
<1>2. performer \in [Performing -> Performers] /\ performer[s] \in Performers
  BY DEF IInv, PassOK
<1>3. rows \in SUBSET RowRecords
  BY DEF IInv, EvaluationOK
<1> HIDE DEF rows
<1>4. record \in Performers /\ record.pc = "read" /\ record.outcomes = performer[s].outcomes
  BY <1>2, <1>3 DEF Performers
<1>5. performer' = [performer EXCEPT ![s] = record]
  BY <1>1, <1>2
<1>6. held["performance"] = s /\ table' = table
  BY <1>1 DEF IInv, PassOK, tableVars
<1>7. \A t \in Tasks : /\ published.basis[t] <= performer[s].outcomes[t]
                       /\ performer[s].outcomes[t] <= table[t]
  BY <1>1 DEF IInv, PassOK
<1> HIDE DEF record
<1>8. PassOK' /\ GoesForward
  BY <1>1, <1>4, <1>5, <1>6, <1>7, PassMoves
<1>9. HeldOK'
  BY <1>1 DEF IInv, HeldOK
<1> QED
  BY <1>1, <1>8, <1>9, LayersRest DEF Performed

\* The commit of a pass: nobody else is in a pass, so nobody's reading is older.
LEMMA PublishesOK ==
  ASSUME IInv, NEW s \in Performing, Publishes(s)
  PROVE  Performed
<1> DEFINE snapshot == Snapshot(performer[s].outcomes, performer[s].evaluations, performer[s].wanted)
           record == [performer[s] EXCEPT !.pc = "done"]
<1>1. /\ performer[s].pc = "read"
      /\ performer' = [performer EXCEPT ![s].pc = "done"]
      /\ UNCHANGED <<tableVars, evaluationVars>> /\ published' = snapshot
      /\ held' = held /\ Spends
  BY DEF Publishes, Steps, Spends
<1>2. performer \in [Performing -> Performers] /\ performer[s] \in Performers
  BY DEF IInv, PassOK
<1>3. /\ snapshot \in [basis: [Tasks -> Nat], evaluations: SUBSET RowRecords, wanted: SUBSET Cohorts]
      /\ snapshot.basis = performer[s].outcomes
  BY <1>2 DEF Snapshot, Performers
<1>4. record \in Performers /\ record.pc = "done"
  BY <1>2 DEF Performers
<1>5. performer' = [performer EXCEPT ![s] = record]
  BY <1>1, <1>2
<1> HIDE DEF snapshot, record
<1>6. performer' \in [Performing -> Performers]
  BY <1>2, <1>4, <1>5
<1>7. \A p \in Performing : performer'[p] = IF p = s THEN record ELSE performer[p]
  BY <1>2, <1>5
<1>8. held["performance"] = s /\ table' = table
        /\ \A p \in Performing : performer[p].pc # "idle" => held["performance"] = p
  BY <1>1 DEF IInv, PassOK, tableVars
<1>9. \A p \in Performing : performer'[p].pc \notin {"outcomes", "read"}
                             /\ (performer'[p].pc # "idle" => held'["performance"] = p)
  BY <1>1, <1>4, <1>7, <1>8
<1>10. \A t \in Tasks : /\ published.basis[t] <= performer[s].outcomes[t]
                        /\ performer[s].outcomes[t] <= table[t]
  BY <1>1 DEF IInv, PassOK
<1>11. PassOK'
  BY <1>1, <1>3, <1>6, <1>8, <1>9, <1>10 DEF PassOK
<1>12. GoesForward
  BY <1>1, <1>3, <1>10 DEF GoesForward
<1>13. HeldOK'
  BY <1>1 DEF IInv, HeldOK
<1> QED
  BY <1>1, <1>11, <1>12, <1>13, LayersRest DEF Performed

\* Every step keeps the invariant, loses no identity its current row and
\* publishes nothing older.
LEMMA Step ==
  ASSUME IInv, Next
  PROVE  IInv' /\ NoneLost /\ GoesForward
<1>1. CASE EvaluationNext /\ UNCHANGED performanceVars
  <2>1. LayersKept
    BY <1>1, EvaluationStep
  <2>2. PassOK'
    BY <1>1, <2>1, PassRests
  <2>3. GoesForward
    <3>1. published' = published /\ \A t \in Tasks : published.basis[t] \in Nat
      BY <1>1 DEF performanceVars, IInv, PassOK
    <3> QED
      BY <3>1 DEF GoesForward
  <2> QED
    BY <2>1, <2>2, <2>3 DEF LayersKept, IInv
<1>2. CASE TimerPerforms
  <2>1. PerformanceBegins(PerformanceTimer, {"production_all"}) /\ Spends
    BY <1>2 DEF TimerPerforms, Spends
  <2>2. Performed
    BY <2>1, BeginsOK DEF Performing, Cohorts
  <2> QED
    BY <2>2 DEF Performed, IInv
<1>3. CASE UserPerforms
  <2>1. PICK c \in Cohorts : PerformanceBegins(PerformanceUser, {c})
    BY <1>3 DEF UserPerforms
  <2>2. Spends
    BY <1>3 DEF UserPerforms, Spends
  <2>3. Performed
    BY <2>1, <2>2, BeginsOK DEF Performing
  <2> QED
    BY <2>3 DEF Performed, IInv
<1>4. ASSUME NEW s \in Performing, Perform(s) \/ PerformanceFails(s)
      PROVE  IInv' /\ NoneLost /\ GoesForward
  <2>1. CASE PerformanceEnds(s)
    <3>1. /\ Leaves(s) /\ held' = Released(s) /\ published' = published
          /\ UNCHANGED <<tableVars, evaluationVars>> /\ Spends
      BY <2>1 DEF PerformanceEnds, Spends
    <3> QED
      BY <3>1, LeavesOK DEF Performed, IInv
  <2>2. CASE PerformanceFails(s)
    <3>1. /\ Leaves(s) /\ held' = Released(s) /\ published' = published
          /\ UNCHANGED <<tableVars, evaluationVars>> /\ Spends
      BY <2>2 DEF PerformanceFails, Spends
    <3> QED
      BY <3>1, LeavesOK DEF Performed, IInv
  <2> QED
    BY <1>4, <2>1, <2>2, ReadsOutcomesOK, ReadsEvaluationsOK, PublishesOK DEF Perform, Performed, IInv
<1> QED
  BY <1>1, <1>2, <1>3, <1>4 DEF Next

LEMMA Stutter ==
  ASSUME IInv, UNCHANGED vars
  PROVE  IInv' /\ NoneLost /\ GoesForward
<1>1. LayersKept /\ UNCHANGED performanceVars
  BY SpendingKeepsTable, RestsOK
     DEF IInv, vars, LayersKept, LockStays, HeldOK, Spends, performanceVars
<1>2. PassOK'
  BY <1>1, PassRests
<1>3. GoesForward
  BY <1>1 DEF GoesForward, performanceVars, IInv, PassOK
<1> QED
  BY <1>1, <1>2, <1>3 DEF IInv, LayersKept

LEMMA Initial ==
  ASSUME Init
  PROVE  IInv
<1>1. left \in WorldRecords /\ left \in Worlds
  BY EvaluationAssumption DEF Init, EvaluationInit
<1>2. /\ task = [t \in Tasks |-> IF t \in left.board THEN 1 ELSE 0]
      /\ table = [t \in Tasks |-> 0]
  BY DEF Init, EvaluationInit
<1>3. \A t \in Tasks : left.events[t] \in Nat /\ Len(Facts[t]) \in Nat
                        /\ left.events[t] + 1 <= Len(Facts[t])
  BY <1>1, PerformanceAssumption, \A s \in Seq(FactRecords) : Len(s) \in Nat DEF WorldRecords
<1>4. TableOK
  BY <1>1, <1>2, <1>3 DEF TableOK, TableTypeOK
<1>5. HeldOK
  BY DEF Init, EvaluationInit, HeldOK, Layers
<1>6. EvaluationOK
  <2>1. evaluations = {} /\ evaluator = [s \in Evaluating |-> Idle]
    BY DEF Init, EvaluationInit
  <2>2. \A s \in Evaluating : evaluator[s] = Idle
    BY <2>1
  <2>3. Runners \subseteq Evaluating
    BY DEF Evaluating
  <2> QED
    BY <2>1, <2>2, <2>3, SessionsAreRecords DEF EvaluationOK
<1>7. OneCurrent
  BY DEF Init, EvaluationInit, OneCurrent
<1>8. PassOK
  <2>1. /\ published = NothingPublished
        /\ performer = [s \in Performing |-> PerformanceIdle]
    BY DEF Init
  <2>2. PerformanceIdle \in Performers /\ PerformanceIdle.pc = "idle"
    BY DEF PerformanceIdle, Performers, NoOutcomes
  <2>3. /\ NothingPublished \in [basis: [Tasks -> Nat], evaluations: SUBSET RowRecords, wanted: SUBSET Cohorts]
        /\ \A t \in Tasks : NothingPublished.basis[t] = 0
    BY DEF NothingPublished, NoOutcomes
  <2> QED
    BY <1>2, <2>1, <2>2, <2>3 DEF PassOK
<1> QED
  BY <1>4, <1>5, <1>6, <1>7, <1>8 DEF IInv

\* The inductive invariant holds: rows and sessions are typed, an identity has
\* one current row, and only the holder of the performance lock is in a pass,
\* whose outcomes lie between the published ones and the table.
THEOREM Invariant == Spec => []IInv
<1>1. Init => IInv
  BY Initial
<1>2. IInv /\ [Next]_vars => IInv'
  BY Step, Stutter
<1> QED
  BY <1>1, <1>2, PTL DEF Spec


-----------------------------------------------------------------------------
(* What the rows and verdicts are worth.                                    *)

\* IdentityKeepsCurrent: whatever sessions race, fail or crash, an identity has
\* one current row of evaluation_runs at most and is never without once it had
\* one.
THEOREM IdentityKeepsCurrentHolds == Spec => IdentityKeepsCurrent
<1>1. ASSUME IInv', NoneLost
      PROVE  CurrentKept
  <2> USE DEF CurrentKept
  <2> TAKE row \in evaluations'
  <2> DEFINE id == Identity(row.work)
             S == {r \in evaluations' : Identity(r.work) = id /\ r.current}
  <2>1. Cardinality(S) =< 1
    <3>1. \A r, other \in S : r = other
      BY <1>1 DEF IInv, OneCurrent
    <3>2. CASE S = {}
      BY <3>2, FS_EmptySet
    <3>3. CASE S # {}
      <4>1. PICK r \in S : S = {r}
        BY <3>1, <3>3
      <4>2. Cardinality(S) = 1
        BY <4>1, FS_Singleton
      <4> QED
        BY <4>2
    <3> QED
      BY <3>2, <3>3
  <2>2. ASSUME Current(id) # {}
        PROVE  Current(id)' # {}
    <3>1. PICK r \in evaluations : r.current /\ Identity(r.work) = id
      BY <2>2 DEF Current
    <3>2. PICK other \in evaluations' : other.current /\ Identity(other.work) = id
      BY <1>1, <3>1 DEF NoneLost
    <3> QED
      BY <3>2 DEF Current
  <2> QED
    BY <2>1, <2>2
<1>2. IInv /\ [Next]_vars => [CurrentKept]_evaluations
  BY <1>1, Step, Stutter
<1>3. Spec => [][CurrentKept]_evaluations
  BY <1>2, Invariant, PTL DEF Spec
<1> QED
  BY <1>3 DEF IdentityKeepsCurrent

\* PublishedNeverGoesBack: what is published was made from outcomes no older
\* than what was published before, for every task.
THEOREM PublishedNeverGoesBackHolds == Spec => PublishedNeverGoesBack
<1>1. IInv /\ [Next]_vars => [GoesForward]_published
  BY Step, Stutter
<1>2. Spec => [][GoesForward]_published
  BY <1>1, Invariant, PTL DEF Spec
<1> QED
  BY <1>2 DEF PublishedNeverGoesBack, GoesForward

\* The payload of a case is sound, in a row or in the hands of a caller.
LEMMA PayloadIsSound ==
  ASSUME NEW work \in Works
  PROVE  /\ work.case # None => /\ work.case \in Cases
                                /\ SoundPayload(work.case, PayloadOf(work))
         /\ work.case = None => /\ PayloadOf(work).vector = AllUnknown
                                /\ PayloadOf(work).results = {}
<1>1. CASE work.case # None
  <2>1. work.case \in Cases
    BY <1>1 DEF Works
  <2>2. PayloadOf(work) = EvaluateTrees(work.case, Profile)
    BY <1>1, <2>1 DEF PayloadOf, Evaluated
  <2>3. IsCase(work.case)
    BY <2>1, EvaluationAssumption
  <2> QED
    BY <1>1, <2>1, <2>2, <2>3, CaseIsSound
<1>2. CASE work.case = None
  BY <1>2 DEF PayloadOf, InsufficientRow, Payload
<1> QED
  BY <1>1, <1>2

\* VerdictsHaveCauses: a command the sandbox lost is neither a PASS nor a FAIL, a
\* VERIFIED_FAIL has a command that ran and failed or a finding of a policy
\* behind it, and tests that pass do not make up for a policy that fails.
THEOREM VerdictsHaveCausesHolds == Spec => []VerdictsHaveCauses
<1>1. ASSUME IInv
      PROVE  VerdictsHaveCauses
  <2>1. \A end \in Conclusions : SoundPayload(end.of, end.payload)
    <3> TAKE end \in Conclusions
    <3>1. PICK s \in Runners :
            /\ evaluator[s].pc \in {"looked", "returned"}
            /\ end = [of |-> evaluator[s].work.case, payload |-> PayloadOf(evaluator[s].work)]
      BY DEF Conclusions
    <3>2. s \in Evaluating
      BY DEF Evaluating
    <3>3. evaluator[s].work \in Works /\ evaluator[s].work.case \in Cases
      BY <1>1, <3>1, <3>2 DEF IInv, EvaluationOK
    <3>4. evaluator[s].work.case # None
      BY <3>3, EvaluationAssumption
    <3> QED
      BY <3>1, <3>3, <3>4, PayloadIsSound
  <2>2. OutageIsNoVerdict
    BY <2>1 DEF OutageIsNoVerdict, SoundPayload
  <2>3. FailureHasACause
    BY <2>1 DEF FailureHasACause, SoundPayload
  <2>4. PolicyFailureIsNoPass
    BY <2>1 DEF PolicyFailureIsNoPass, SoundPayload
  <2> QED
    BY <2>2, <2>3, <2>4 DEF VerdictsHaveCauses
<1>2. IInv => VerdictsHaveCauses
  BY <1>1
<1> QED
  BY <1>2, Invariant, PTL

-----------------------------------------------------------------------------
(* Counting.                                                                *)

\* A population is a set of tasks with one row each.
OneRowPerTask(rows) ==
    IsFiniteSet(rows) /\ \A row, other \in rows : row.task = other.task => row = other

\* Of such rows there are as many as tasks.
LEMMA AsManyAsTasks ==
  ASSUME NEW rows, OneRowPerTask(rows)
  PROVE  Cardinality(TasksOf(rows)) = Cardinality(rows)
<1> DEFINE f == [row \in rows |-> row.task]
<1>1. f \in Bijection(rows, TasksOf(rows))
  <2>1. f \in [rows -> TasksOf(rows)]
    BY DEF TasksOf
  <2>2. \A a, b \in rows : f[a] = f[b] => a = b
    BY DEF OneRowPerTask
  <2>3. \A t \in TasksOf(rows) : \E a \in rows : f[a] = t
    BY DEF TasksOf
  <2> HIDE DEF f
  <2>4. f \in Injection(rows, TasksOf(rows))
    BY <2>1, <2>2 DEF Injection, IsInjective
  <2>5. f \in Surjection(rows, TasksOf(rows))
    BY <2>1, <2>3 DEF Surjection
  <2> QED
    BY <2>4, <2>5 DEF Bijection
<1>2. ExistsBijection(rows, TasksOf(rows))
  BY <1>1 DEF ExistsBijection
<1> QED
  BY <1>2, FS_Bijection DEF OneRowPerTask

\* Rows in three kinds are as many as the tasks of the first and the rows of the
\* two others.
LEMMA ThreeKinds ==
  ASSUME NEW rows, NEW a \in SUBSET rows, NEW b \in SUBSET rows, NEW c \in SUBSET rows,
         OneRowPerTask(rows), rows = a \cup b \cup c,
         a \cap b = {}, a \cap c = {}, b \cap c = {}
  PROVE  Cardinality(TasksOf(a)) + Cardinality(b) + Cardinality(c) = Cardinality(TasksOf(rows))
<1>1. IsFiniteSet(rows) /\ IsFiniteSet(a) /\ IsFiniteSet(b) /\ IsFiniteSet(c)
  BY FS_Subset DEF OneRowPerTask
<1>2. OneRowPerTask(a)
  BY <1>1 DEF OneRowPerTask
<1>3. IsFiniteSet(a \cup b) /\ Cardinality(a \cup b) = Cardinality(a) + Cardinality(b)
  <2>1. /\ IsFiniteSet(a \cup b)
        /\ Cardinality(a \cup b) = Cardinality(a) + Cardinality(b) - Cardinality(a \cap b)
    BY <1>1, FS_Union
  <2>2. Cardinality(a \cap b) = 0
    BY FS_EmptySet
  <2>3. Cardinality(a) \in Nat /\ Cardinality(b) \in Nat
    BY <1>1, FS_CardinalityType
  <2> QED
    BY <2>1, <2>2, <2>3
<1>4. (a \cup b) \cap c = {}
  OBVIOUS
<1>5. Cardinality(rows) = Cardinality(a \cup b) + Cardinality(c)
  <2> DEFINE ab == a \cup b
  <2>1. ab \cup c = rows /\ ab \cap c = {} /\ IsFiniteSet(ab)
    BY <1>3, <1>4
  <2> HIDE DEF ab
  <2>2. Cardinality(ab \cup c) = Cardinality(ab) + Cardinality(c) - Cardinality(ab \cap c)
    BY <1>1, <2>1, FS_Union
  <2>3. Cardinality(ab \cap c) = 0
    BY <2>1, FS_EmptySet
  <2>4. Cardinality(ab) \in Nat /\ Cardinality(c) \in Nat
    BY <1>1, <2>1, FS_CardinalityType
  <2>5. Cardinality(rows) = Cardinality(ab) + Cardinality(c)
    <3>1. Cardinality(rows) = Cardinality(ab) + Cardinality(c) - 0
      BY <2>1, <2>2, <2>3
    <3> QED
      BY <2>4, <3>1
  <2> QED
    BY <2>5 DEF ab
<1>6. Cardinality(TasksOf(rows)) = Cardinality(rows) /\ Cardinality(TasksOf(a)) = Cardinality(a)
  BY <1>2, AsManyAsTasks
<1> QED
  BY <1>3, <1>5, <1>6

LEMMA PartsAreOneRowPerTask ==
  ASSUME NEW rows, OneRowPerTask(rows), NEW part \in SUBSET rows
  PROVE  OneRowPerTask(part)
BY FS_Subset DEF OneRowPerTask

\* Of the members of a cohort every metric counts each once.
LEMMA MetricsAddUp ==
  ASSUME NEW members, OneRowPerTask(members), \A row \in members : row.facts \in FactRecords,
         NEW agg \in ComputeMetrics(members)
  PROVE  /\ Cardinality(agg.known) + agg.unknown_n + agg.na_n = Cardinality(agg.evaluated)
         /\ agg.metric # "quality_tests_pass_rate" => agg.evaluated = agg.members
         /\ agg.members = TasksOf(members)
<1>1. \A row \in members : /\ row.facts.lifecycle \in {"DONE", "NOT_DONE", "UNKNOWN"}
                            /\ row.facts.verification \in {"PASS", "FAIL", "UNKNOWN", "NOT_APPLICABLE"}
  BY DEF FactRecords
<1>2. CASE agg = Lifecycle(members)
  <2> DEFINE known == {row \in members : row.facts.lifecycle \in {"DONE", "NOT_DONE"}}
             unknown == {row \in members : row.facts.lifecycle = "UNKNOWN"}
  <2>1. /\ agg.known = TasksOf(known) /\ agg.unknown_n = Cardinality(unknown)
        /\ agg.na_n = Cardinality({}) /\ agg.evaluated = TasksOf(members)
        /\ agg.members = TasksOf(members)
    BY <1>2 DEF Lifecycle, Aggregate
  <2>2. members = known \cup unknown \cup {} /\ known \cap unknown = {}
    BY <1>1
  <2> HIDE DEF known, unknown
  <2>3. known \in SUBSET members /\ unknown \in SUBSET members /\ {} \in SUBSET members
    BY <2>2
  <2>4. Cardinality(TasksOf(known)) + Cardinality(unknown) + Cardinality({}) = Cardinality(TasksOf(members))
    BY <2>2, <2>3, ThreeKinds
  <2> QED
    BY <2>1, <2>4
<1>3. CASE agg = VerifiedSuccess(members)
  <2> DEFINE known == {row \in members : row.facts.verification \in {"PASS", "FAIL"}}
             unknown == {row \in members : row.facts.verification = "UNKNOWN"}
             na == {row \in members : row.facts.verification = "NOT_APPLICABLE"}
  <2>1. /\ agg.known = TasksOf(known) /\ agg.unknown_n = Cardinality(unknown)
        /\ agg.na_n = Cardinality(na) /\ agg.evaluated = TasksOf(members)
        /\ agg.members = TasksOf(members)
    BY <1>3 DEF VerifiedSuccess, Aggregate
  <2>2. /\ members = known \cup unknown \cup na
        /\ known \cap unknown = {} /\ known \cap na = {} /\ unknown \cap na = {}
    BY <1>1
  <2> HIDE DEF known, unknown, na
  <2>3. known \in SUBSET members /\ unknown \in SUBSET members /\ na \in SUBSET members
    BY <2>2
  <2>4. Cardinality(TasksOf(known)) + Cardinality(unknown) + Cardinality(na) = Cardinality(TasksOf(members))
    BY <2>2, <2>3, ThreeKinds
  <2> QED
    BY <2>1, <2>4
<1>4. CASE agg = Quality(members)
  <2> DEFINE evaluated == QualityMembers(members)
             With(verdicts) == {row \in evaluated : row.evaluation.vector.tests \in verdicts}
             known == With({"PASS", "FAIL"})
             unknown == evaluated \ With({"PASS", "FAIL", "NOT_APPLICABLE"})
             na == With({"NOT_APPLICABLE"})
  <2>1. /\ agg.known = TasksOf(known) /\ agg.unknown_n = Cardinality(unknown)
        /\ agg.na_n = Cardinality(na) /\ agg.evaluated = TasksOf(evaluated)
        /\ agg.members = TasksOf(members) /\ agg.metric = "quality_tests_pass_rate"
    BY <1>4 DEF Quality, Aggregate
  <2>2. /\ evaluated = known \cup unknown \cup na
        /\ known \cap unknown = {} /\ known \cap na = {} /\ unknown \cap na = {}
    OBVIOUS
  <2>3. evaluated \in SUBSET members
    BY DEF QualityMembers
  <2> HIDE DEF evaluated, known, unknown, na
  <2>4. OneRowPerTask(evaluated)
    BY <2>3, PartsAreOneRowPerTask
  <2>5. known \in SUBSET evaluated /\ unknown \in SUBSET evaluated /\ na \in SUBSET evaluated
    BY <2>2
  <2>6. Cardinality(TasksOf(known)) + Cardinality(unknown) + Cardinality(na) = Cardinality(TasksOf(evaluated))
    BY <2>2, <2>4, <2>5, ThreeKinds
  <2> QED
    BY <2>1, <2>6
<1> QED
  BY <1>2, <1>3, <1>4 DEF ComputeMetrics

\* The population has one row per task, with facts the metrics know.
LEMMA PopulationIsOneRowPerTask ==
  ASSUME NEW outcomes \in [Tasks -> Nat], NEW rows,
         \A t \in Tasks : outcomes[t] <= Len(Facts[t])
  PROVE  /\ OneRowPerTask(Population(outcomes, rows))
         /\ \A row \in Population(outcomes, rows) : row.facts \in FactRecords
<1> DEFINE known == {u \in Tasks : outcomes[u] > 0}
           f == [t \in known |->
                  [task |-> t, production |-> Cohort[t] = "production",
                   facts |-> Facts[t][outcomes[t]], evaluation |-> EvaluationOf(t, rows)]]
<1>1. Population(outcomes, rows) = {f[t] : t \in known}
  BY DEF Population
<1>2. \A t \in known : f[t].task = t /\ f[t].facts = Facts[t][outcomes[t]]
  OBVIOUS
<1>3. f \in [known -> {f[t] : t \in known}]
  OBVIOUS
<1>4. known \in SUBSET Tasks /\ \A t \in known : outcomes[t] \in 1..Len(Facts[t])
  <2>1. \A t \in Tasks : Len(Facts[t]) \in Nat
    BY PerformanceAssumption, \A s \in Seq(FactRecords) : Len(s) \in Nat
  <2> QED
    BY <2>1
<1> HIDE DEF f, known
<1>5. IsFiniteSet(known)
  BY <1>4, PerformanceAssumption, FS_Subset
<1>6. f \in Surjection(known, {f[t] : t \in known})
  BY <1>3 DEF Surjection
<1>7. IsFiniteSet(Population(outcomes, rows))
  BY <1>1, <1>5, <1>6, FS_Surjection
<1>8. \A row, other \in Population(outcomes, rows) : row.task = other.task => row = other
  BY <1>1, <1>2
<1>9. \A row \in Population(outcomes, rows) : row.facts \in FactRecords
  <2>1. \A t \in known : Facts[t][outcomes[t]] \in FactRecords
    <3> TAKE t \in known
    <3>1. Facts[t] \in Seq(FactRecords)
      BY <1>4, PerformanceAssumption
    <3>2. \A seq \in Seq(FactRecords) : \A i \in 1..Len(seq) : seq[i] \in FactRecords
      OBVIOUS
    <3> QED
      BY <1>4, <3>1, <3>2
  <2> QED
    BY <1>1, <1>2, <2>1
<1> QED
  BY <1>7, <1>8, <1>9 DEF OneRowPerTask

\* Consistent: rows and sessions have their types, no row of evaluation_runs
\* passes what timed out or judges what had no evidence, and in what is
\* published every member of a cohort is counted once.
THEOREM ConsistentHolds == Spec => []Consistent
<1>1. ASSUME IInv
      PROVE  TypeOK
  <2>1. TableTypeOK
    BY <1>1 DEF IInv, TableOK
  <2>2. held \in [{"analytics", "evaluation", "performance"} ->
                   {None, Analytics} \cup Evaluating \cup Performing]
    BY <1>1 DEF IInv, HeldOK, Layers
  <2>3. ASSUME NEW row \in evaluations
        PROVE  /\ row.work \in Works /\ row.current \in BOOLEAN
               /\ PayloadOf(row.work).vector \in [Dimensions -> Verdicts]
    <3>1. row.work \in Works /\ row.current \in BOOLEAN
      BY <1>1 DEF IInv, EvaluationOK, RowRecords
    <3>2. AllUnknown \in [Dimensions -> Verdicts]
      BY DEF AllUnknown, Verdicts
    <3> QED
      BY <3>1, <3>2, PayloadIsSound DEF SoundPayload
  <2>4. \A s \in Evaluating : evaluator[s].pc \in {"idle", "started", "looked", "returned"}
    BY <1>1 DEF IInv, EvaluationOK, SessionRecords
  <2>5. \A s \in Performing : performer[s].pc \in {"idle", "free", "outcomes", "read", "done"}
    BY <1>1 DEF IInv, PassOK, Performers
  <2> QED
    BY <2>1, <2>2, <2>3, <2>4, <2>5 DEF TypeOK, Verdicts
<1>2. ASSUME IInv
      PROVE  DataQualityHolds
  <2>1. ASSUME NEW row \in evaluations
        PROVE  LET payload == PayloadOf(row.work) IN
               /\ \A result \in payload.results : result.timeout => result.verdict # "PASS"
               /\ payload.eligibility = "INSUFFICIENT_EVIDENCE" =>
                       \A result \in payload.results : result.verdict \notin {"PASS", "FAIL"}
    <3>1. row.work \in Works
      BY <1>2 DEF IInv, EvaluationOK, RowRecords
    <3> QED
      BY <3>1, PayloadIsSound DEF SoundPayload
  <2> QED
    BY <2>1 DEF DataQualityHolds
<1>3. ASSUME IInv
      PROVE  PublishedCountsAddUp
  <2> DEFINE population == Population(published.basis, published.evaluations)
  <2>1. published.basis \in [Tasks -> Nat]
    BY <1>3 DEF IInv, PassOK
  <2>2. \A t \in Tasks : published.basis[t] <= Len(Facts[t])
    <3>1. \A t \in Tasks : /\ published.basis[t] \in Nat /\ table[t] \in Nat /\ task[t] \in Nat
                            /\ left.events[t] \in Nat /\ Len(Facts[t]) \in Nat
      BY <1>3, <2>1, PerformanceAssumption, \A s \in Seq(FactRecords) : Len(s) \in Nat
         DEF IInv, TableOK, TableTypeOK, WorldRecords
    <3>2. \A t \in Tasks : /\ published.basis[t] <= table[t] /\ table[t] <= task[t]
                            /\ task[t] + left.events[t] <= Len(Facts[t])
      BY <1>3 DEF IInv, TableOK, PassOK
    <3> TAKE t \in Tasks
    <3>3. \A a, b, c, d, e \in Nat : a <= b /\ b <= c /\ c + d <= e => a <= e
      OBVIOUS
    <3> QED
      BY <3>1, <3>2, <3>3
  <2>3. OneRowPerTask(population) /\ \A row \in population : row.facts \in FactRecords
    BY <2>1, <2>2, PopulationIsOneRowPerTask
  <2> HIDE DEF population
  <2>4. SUFFICES ASSUME NEW c \in published.wanted, NEW agg \in Result.aggregates[c]
        PROVE  /\ Cardinality(agg.known) + agg.unknown_n + agg.na_n = Cardinality(agg.evaluated)
               /\ agg.metric # "quality_tests_pass_rate" => agg.evaluated = agg.members
               /\ agg.members = UNION {a.members : a \in Result.aggregates[c]}
    BY DEF PublishedCountsAddUp
  <2> DEFINE members == CohortMembers(population, c)
  <2>5. Result.aggregates[c] = ComputeMetrics(members)
    BY DEF Result, RunEngine, population
  <2>6. members \in SUBSET population
    BY DEF CohortMembers
  <2> HIDE DEF members
  <2>7. OneRowPerTask(members) /\ \A row \in members : row.facts \in FactRecords
    BY <2>3, <2>6, PartsAreOneRowPerTask
  <2>8. \A a \in ComputeMetrics(members) : a.members = TasksOf(members)
    BY <2>7, MetricsAddUp
  <2>9. UNION {a.members : a \in Result.aggregates[c]} = TasksOf(members)
    <3>1. ComputeMetrics(members) # {}
      BY DEF ComputeMetrics
    <3> QED
      BY <2>5, <2>8, <3>1
  <2> QED
    BY <2>5, <2>7, <2>8, <2>9, MetricsAddUp
<1>4. IInv => Consistent
  BY <1>1, <1>2, <1>3 DEF Consistent
<1> QED
  BY <1>4, Invariant, PTL

=============================================================================
