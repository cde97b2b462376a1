------------------------ MODULE MCPerformanceSnapshot ------------------------
(***************************************************************************)
(* The derived layers for TLC: a production task that gets a commit, a     *)
(* fixture task that never does, two units that evaluate trees, and worlds *)
(* that spend small budgets on different things.                           *)
(***************************************************************************)
EXTENDS PerformanceSnapshot

CONSTANTS t1, t2

MCCohort == [t \in Tasks |-> IF t = t1 THEN "production" ELSE "fixture"]

MCCommitAt == [t \in Tasks |-> IF t = t1 THEN 2 ELSE 9]

Fact(lifecycle, verification) == [lifecycle |-> lifecycle, verification |-> verification]

MCFacts ==
    [t \in Tasks |-> <<Fact("NOT_DONE", "UNKNOWN"), Fact("DONE", "PASS")>>]

MCTierFloor == [INSUFFICIENT |-> 1, EXPLORATORY |-> 2, PROVISIONAL |-> 3, SUPPORTED |-> 4]

\* The fixture profile, with type checks blocked.
MCProfile ==
    [commands |-> {"build", "tests", "lint"}, blocked |-> {"typecheck"},
     importRules |-> TRUE, pathRules |-> TRUE]

Clean == [hash |-> "clean", imports |-> "allowed", secret |-> FALSE, paths |-> 0]
Broken == [Clean EXCEPT !.hash = "broken"]

Passing == [e \in Evaluators |-> "passes"]
Failing == [Passing EXCEPT !.tests = "fails", !.lint = "fails"]

Case(kind, candidate, baseline, mode, candidateFates, baselineFates, persisted, expected) ==
    [kind |-> kind, candidate |-> candidate, baseline |-> baseline, mode |-> mode,
     candidateFates |-> candidateFates, baselineFates |-> baselineFates,
     persisted |-> persisted, expected |-> expected]

\* An experiment unit compares a tree with itself; a run may still be lost.
UnitCases ==
    {Case("unit", Clean, Clean, "inline", fates, Passing, TRUE, None) :
        fates \in {Passing, [Passing EXCEPT !.tests = "hangs"]}}

CanaryCases ==
    {Case("canary", Broken, Clean, "docker", [Passing EXCEPT !.tests = fate], Passing, TRUE,
          "INTRODUCED_FAILURE") : fate \in {"fails", "noDocker"}}

\* Every fate of every command, for callers who keep the result.
FateCases ==
    {Case("fate", Broken, Clean, end[1], [Passing EXCEPT ![e] = end[2]], base, FALSE, None) :
        end \in UNION {{m} \X Fates(m) : m \in {"docker", "inline"}},
        e \in {"tests", "build", "lint"},
        base \in {Passing, Failing, [Passing EXCEPT !.tests = "hangs"]}}

\* Trees the policies find something in.
PolicyCases ==
    {Case("tree", [hash |-> "other", imports |-> imports, secret |-> secret, paths |-> paths],
          Clean, "docker", Passing, Passing, FALSE, None) :
        imports \in {"allowed", "forbidden", "unreadable"}, secret \in BOOLEAN, paths \in {0, 1}}

\* ... and one evaluated without a baseline.
AloneCases == {[case EXCEPT !.baseline = None] : case \in PolicyCases}

MCCases == UnitCases \cup CanaryCases \cup FateCases \cup PolicyCases \cup AloneCases

World(timers, board, operator, units, crashes, kinds) ==
    [timers |-> timers, board |-> board,
     events |-> [t \in Tasks |-> IF t = t1 /\ t \in board THEN 1 ELSE 0],
     operator |-> operator, units |-> units, crashes |-> crashes, kinds |-> kinds]

AllTimers == {"analytics", "evaluation", "performance"}

MCWorlds ==
    {World(AllTimers, {t1}, 1, 0, 0, {}), World(AllTimers, {t1, t2}, 0, 0, 1, {}),
     World(AllTimers \ {"performance"}, {t2}, 2, 0, 1, {}),
     World({"performance"}, {}, 0, 2, 1, {"unit", "canary"}),
     World({"performance"}, {}, 0, 1, 0, {"fate", "tree"})}

MCOperatorWorld == {World(AllTimers, {t1}, 1, 0, 0, {})}
=============================================================================
