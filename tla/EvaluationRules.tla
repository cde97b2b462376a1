--------------------------- MODULE EvaluationRules ---------------------------
(***************************************************************************)
(* What an evaluation concludes (src/engineering_os/evaluation): from how  *)
(* the commands of a candidate and of its baseline end in the sandbox, and *)
(* from what the policies find in the trees, to verdicts, comparisons, the *)
(* quality vector and the summary.  Everything here is a function.         *)
(*                                                                         *)
(* A tree is a record: its hash, the imports the architecture policy finds *)
(* in it, whether it holds a secret, and its version of the forbidden      *)
(* paths (0: it has none).  A profile names the evaluators it has a        *)
(* command for, those it blocks, and whether it has architecture and scope *)
(* rules.                                                                  *)
(***************************************************************************)
EXTENDS Naturals, FiniteSets

CONSTANT None

ASSUME NoneAssumption ==
    /\ None \notin Nat
    /\ None \notin {"docker_unavailable", "host_timeout", "timeout", "sandbox_runner_failure"}

Evaluators == {"build", "tests", "lint", "typecheck"}

Dimensions ==
    Evaluators \cup {"correctness", "regression", "security", "architecture",
                     "scope", "acceptance", "ci"}

AllUnknown == [d \in Dimensions |-> "UNKNOWN"]

(***************************************************************************)
(* The sandbox.  A fate is what happens to a command: it passes or fails,  *)
(* it reports MemoryError, it is killed or crashes, it stops itself after  *)
(* a time, it never ends, or it is never started because the container has *)
(* no such program, the image is missing or docker is away.  The mode is   *)
(* docker, or inline: a child process of the evaluator itself, for which   *)
(* only an end by the timeout counts as an outage.  (Inline, a program     *)
(* that is not there raises: the evaluation ends without a verdict, so no  *)
(* case has that fate.)                                                    *)
(***************************************************************************)
ExitCodes ==
    [passes |-> 0, fails |-> 1, outOfMemory |-> 1, stops |-> 124, killed |-> 137,
     crashes |-> 139, noProgram |-> 127, noImage |-> 125]

Fates(mode) ==
    LET ends == DOMAIN ExitCodes \cup {"hangs"}
    IN  IF mode = "inline" THEN ends \ {"noImage", "noProgram"} ELSE ends \cup {"noDocker"}

\* The command did not come to an end of its own.  (A container that lacks the
\* program is not told from a command that fails.)
Outages(mode) ==
    IF mode = "inline" THEN {"hangs"} ELSE {"hangs", "noDocker", "noImage", "killed"}

Ran(exit, timeout, resource, detail) ==
    [exit |-> exit, timeout |-> timeout, resource |-> resource, detail |-> detail]

\* Mutant of RunDocker: a docker that is not there is an exit code like any other.
RunDockerBlind(fate) ==
    CASE fate = "noDocker" -> Ran(1, FALSE, FALSE, None)
      [] fate = "hangs" -> Ran(None, TRUE, FALSE, "host_timeout")
      [] OTHER -> Ran(ExitCodes[fate], FALSE, FALSE, None)

RunDocker(fate) ==
    CASE fate = "noDocker" -> Ran(None, FALSE, FALSE, "docker_unavailable")
      [] fate = "hangs" -> Ran(None, TRUE, FALSE, "host_timeout")
      [] OTHER ->
            LET exit == ExitCodes[fate]
            IN  Ran(exit, exit \in {124, 137}, exit \in {137, 139} \/ fate = "outOfMemory",
                    IF exit = 125 THEN "sandbox_runner_failure" ELSE None)

RunInline(fate) ==
    IF fate = "hangs" THEN Ran(None, TRUE, FALSE, "timeout")
    ELSE Ran(ExitCodes[fate], FALSE, FALSE, None)

RunCommand(mode, fate) == IF mode = "inline" THEN RunInline(fate) ELSE RunDocker(fate)

\* Mutant of CommandResult: no exit code is taken for zero.
CommandResultFalsy(mode, fate) ==
    LET ran == RunCommand(mode, fate)
    IN  [verdict |-> IF ran.exit \in {0, None} THEN "PASS" ELSE "FAIL", timeout |-> ran.timeout]

\* The verdict on one command.
CommandResult(mode, fate) ==
    LET ran == RunCommand(mode, fate)
    IN  [verdict |-> IF ran.timeout \/ ran.resource \/ ran.detail # None THEN "ERROR"
                     ELSE IF ran.exit = 0 THEN "PASS"
                     ELSE IF ran.exit = None THEN "ERROR" ELSE "FAIL",
         timeout |-> ran.timeout]

\* All commands of one subject, the candidate or the baseline.
RunSubject(tree, mode, fates, profile) ==
    [e \in Evaluators |->
        IF tree = None THEN [verdict |-> "UNKNOWN", timeout |-> FALSE]
        ELSE IF e \in profile.blocked THEN [verdict |-> "BLOCKED_RESOURCE", timeout |-> FALSE]
        ELSE IF e \notin profile.commands THEN [verdict |-> "NOT_APPLICABLE", timeout |-> FALSE]
        ELSE CommandResult(mode, fates[e])]

(***************************************************************************)
(* Comparison with the baseline, and the policies.                         *)
(***************************************************************************)
Classify(baseline, candidate) ==
    CASE baseline = "PASS" /\ candidate = "PASS" -> "UNCHANGED_PASS"
      [] baseline = "PASS" /\ candidate = "FAIL" -> "INTRODUCED_FAILURE"
      [] baseline = "FAIL" /\ candidate = "PASS" -> "FIXED_FAILURE"
      [] baseline = "FAIL" /\ candidate = "FAIL" -> "UNCHANGED_FAILURE"
      [] OTHER -> "UNKNOWN"

ArchitecturePolicy(tree, profile) ==
    IF ~profile.importRules THEN "NOT_APPLICABLE"
    ELSE [allowed |-> "PASS", forbidden |-> "FAIL", unreadable |-> "UNKNOWN"][tree.imports]

PathsOf(tree) == IF tree = None THEN 0 ELSE tree.paths

\* Changed paths are those that differ from the baseline's, all without one.
ScopePolicy(tree, baseline, profile) ==
    IF ~profile.pathRules THEN "NOT_APPLICABLE"
    ELSE IF tree.paths # PathsOf(baseline) THEN "FAIL" ELSE "PASS"

SecurityPolicy(tree) == IF tree.secret THEN "FAIL" ELSE "PASS"

\* No acceptance criterion is mapped to a check yet, whatever the task says.
AcceptanceChecks == "UNKNOWN"

(***************************************************************************)
(* The quality vector and the summary.                                     *)
(***************************************************************************)
\* Mutant of Correctness: what is not a PASS is a FAIL.
CorrectnessHarsh(tests, build) ==
    IF tests = "PASS" /\ build \in {"PASS", "NOT_APPLICABLE"} THEN "PASS" ELSE "FAIL"

Correctness(tests, build) ==
    IF tests = "PASS" /\ build \in {"PASS", "NOT_APPLICABLE"} THEN "PASS"
    ELSE IF tests = "FAIL" \/ build = "FAIL" THEN "FAIL"
    ELSE IF tests \in {"NOT_APPLICABLE", "UNKNOWN"} /\ build = "PASS" THEN "UNKNOWN"
    ELSE IF tests # "NOT_APPLICABLE" THEN tests ELSE build

\* Mutant of Summary: the policies are not looked at.
SummaryPolicyBlind(v) ==
    IF v.regression = "INTRODUCED_FAILURE" \/ v.correctness = "FAIL" THEN "VERIFIED_FAIL"
    ELSE IF v.correctness = "PASS" THEN "VERIFIED_PASS"
    ELSE "PARTIAL"

Summary(v) ==
    IF v.regression = "INTRODUCED_FAILURE" \/ v.correctness = "FAIL" THEN "VERIFIED_FAIL"
    ELSE IF v.correctness = "PASS" /\ v.regression \in {"UNCHANGED_PASS", "FIXED_FAILURE", "UNKNOWN"}
    THEN IF \E d \in {"security", "architecture", "scope"} : v[d] = "FAIL" THEN "VERIFIED_FAIL"
         ELSE IF \E d \in {"lint", "typecheck", "acceptance", "ci"} : v[d] \in {"UNKNOWN", "WARN"}
         THEN "PARTIAL" ELSE "VERIFIED_PASS"
    ELSE "PARTIAL"

Payload(eligibility, vector, summary, results, identity) ==
    [eligibility |-> eligibility, vector |-> vector, summary |-> summary,
     results |-> results, identity |-> identity]

\* The engine on the trees of a case and the fates of the commands in them; every
\* caller says that they are eligible.
EvaluateTrees(case, profile) ==
    LET candidate == case.candidate
        baseline == case.baseline
        identity == <<candidate.hash, IF baseline = None THEN None ELSE baseline.hash>>
        cand == RunSubject(candidate, case.mode, case.candidateFates, profile)
        base == RunSubject(baseline, case.mode, case.baselineFates, profile)
        comparison == [e \in Evaluators |-> Classify(base[e].verdict, cand[e].verdict)]
        Verdict(e) == IF e \in {"lint", "typecheck"} /\ comparison[e] = "UNCHANGED_FAILURE"
                      THEN "WARN" ELSE cand[e].verdict
        vector == [d \in Dimensions |->
                    CASE d \in Evaluators -> Verdict(d)
                      [] d = "correctness" -> Correctness(Verdict("tests"), Verdict("build"))
                      [] d = "regression" -> comparison["tests"]
                      [] d = "security" -> SecurityPolicy(candidate)
                      [] d = "architecture" -> ArchitecturePolicy(candidate, profile)
                      [] d = "scope" -> ScopePolicy(candidate, baseline, profile)
                      [] d = "acceptance" -> AcceptanceChecks
                      [] d = "ci" -> "NOT_APPLICABLE"]
        results == {[verdict |-> Verdict(e), timeout |-> cand[e].timeout] : e \in Evaluators}
                    \cup {base[e] : e \in Evaluators}
    IN  Payload("TEST_ELIGIBLE", vector, Summary(vector), results, identity)

\* A tree and a case as the callers of the engine make them.
IsTree(tree) ==
    /\ tree.imports \in {"allowed", "forbidden", "unreadable"}
    /\ tree.secret \in BOOLEAN
    /\ tree.paths \in Nat

IsCase(case) ==
    /\ case.mode \in {"docker", "inline"}
    /\ case.candidateFates \in [Evaluators -> Fates(case.mode)]
    /\ case.baselineFates \in [Evaluators -> Fates(case.mode)]
    /\ IsTree(case.candidate)
    /\ case.candidate # None
    /\ case.baseline # None => IsTree(case.baseline)

(***************************************************************************)
(* A task without a tree to evaluate.                                      *)
(***************************************************************************)
\* (A fixture without a commit is TEST_ELIGIBLE if its workspace is the
\* runtime's own, and a commit counts for production if its evidence is
\* AVAILABLE: left out, the sweep treats both as it treats a missing commit.)
ClassifyTask(cohort, commit) ==
    IF cohort = None THEN "INSUFFICIENT_EVIDENCE"
    ELSE IF cohort = "excluded" THEN "EXCLUDED"
    ELSE IF ~commit THEN "INSUFFICIENT_EVIDENCE"
    ELSE IF cohort = "fixture" THEN "TEST_ELIGIBLE" ELSE "ELIGIBLE"

InsufficientRow(t) ==
    Payload("INSUFFICIENT_EVIDENCE", AllUnknown, "INSUFFICIENT_EVIDENCE", {},
            <<"insufficient", t>>)
=============================================================================
