---------------------------- MODULE RealAgentRun ----------------------------
(***************************************************************************)
(* The confirmatory experiment with real agents: a budget authorization    *)
(* file, run-real, which executes one unit after the other and rewrites    *)
(* sequence.json after each, and analyze-real, which labels what           *)
(* sequence.json holds.  Nothing locks the files, a killed run leaves what *)
(* it had written and a new one starts from its first unit.                *)
(* The definition is the number of its version: editing it changes its     *)
(* hash.  The interval of the primary effect is reduced to the lead in     *)
(* successes at which it leaves zero out.                                  *)
(***************************************************************************)
EXTENDS Integers, Sequences, FiniteSets

CONSTANTS
  Runners,        \* processes that run write-budget, run-real or analyze-real
  MaxVersions,    \* bound: versions of the definition
  Planned,        \* planned_n of each version, in pairs
  OrderBit,       \* pair_order_bit of each pair
  Lead,           \* successes the candidate must be ahead
  HandWritten,    \* [units, calls] of the authorizations a human writes directly
  Outcomes,       \* outcomes a unit may have in this instance
  MaxStarts,      \* bound: runs started
  None, Torn

Versions == 1..MaxVersions
AllOutcomes == {"PASS", "FAIL", "UNKNOWN", "INSECURE", "LEAK", "BLOCKED_PROVIDER_AUTH"}

ASSUME RunAssumption ==
  /\ MaxVersions \in Nat \ {0} /\ MaxStarts \in Nat
  /\ Planned \in [Versions -> Nat \ {0}]
  /\ \A v \in Versions : \A p \in 1..Planned[v] : OrderBit[p] \in {0, 1}
  /\ Lead \in Nat \ {0}
  /\ HandWritten \subseteq [units : Nat, calls : Nat]
  /\ Outcomes \subseteq AllOutcomes

VARIABLES
  h1,          \* verify-operator-boundary reports status=PASS
  version,     \* version of the definition file
  auth,        \* LLM_BUDGET_AUTHORIZATION
  sequence,    \* sequence.json
  analysis,    \* analysis.json
  run,         \* what each process is doing
  starts,      \* runs started
  spawned,     \* history: agent processes spawned for each version
  earned       \* history: versions whose own run showed evidence

runVars == <<h1, version, auth, sequence, analysis, run, starts, spawned, earned>>

-----------------------------------------------------------------------------
(* Assignments and the label.                                              *)

PlannedUnits(v) == 2 * Planned[v]

\* Two units a pair, in the order its bit says.
AssignPaired(v) ==
  [i \in 1..PlannedUnits(v) |->
     LET pair == (i + 1) \div 2
         first == i % 2 = 1
     IN [pair |-> pair,
         role |-> IF first <=> (OrderBit[pair] = 0) THEN "CONTROL" ELSE "CANDIDATE"]]

\* The analysis is given the assignments of the results there are: a pair of
\* which only the first unit has run is collected as well.
CollectedPairs(results) == {results[i].unit.pair : i \in DOMAIN results}

\* paired_binary leaves out a pair that lacks a unit.
CompletePairs(results) ==
  {p \in CollectedPairs(results) :
     \A role \in {"CONTROL", "CANDIDATE"} :
       \E i \in DOMAIN results : results[i].unit = [pair |-> p, role |-> role]}

Successes(results, role) ==
  Cardinality({i \in DOMAIN results :
    /\ results[i].unit.role = role /\ results[i].outcome = "PASS"
    /\ results[i].unit.pair \in CompletePairs(results)})

Has(results, outcomes) == \E i \in DOMAIN results : results[i].outcome \in outcomes

\* Mutant of Label: the horizon is not asked for.
LabelPartial(v, results) ==
  IF Successes(results, "CANDIDATE") >= Successes(results, "CONTROL") + Lead
  THEN "QUALIFIED_CANDIDATE" ELSE "VALID_NO_PROMOTION"

\* Label of a final analysis.  An insecure unit has a known test outcome, a
\* leaking one fails the validity of the whole sequence.
Label(v, results) ==
  IF Cardinality(CollectedPairs(results)) < Planned[v] THEN "COLLECTING"
  ELSE IF Has(results, {"UNKNOWN", "LEAK", "BLOCKED_PROVIDER_AUTH"}) THEN "INVALIDATED"
  ELSE IF /\ ~Has(results, {"INSECURE"})
          /\ Successes(results, "CANDIDATE") >= Successes(results, "CONTROL") + Lead
       THEN "QUALIFIED_CANDIDATE"
  ELSE "VALID_NO_PROMOTION"

\* What a run must have collected, for its last pair only the unit that ran
\* first: history only, not a step of the code.
Evidence(v, results) ==
  /\ Len(results) \in PlannedUnits(v) - 1..PlannedUnits(v)
  /\ \A i \in DOMAIN results :
       results[i].unit = AssignPaired(v)[i] /\ results[i].outcome \in {"PASS", "FAIL"}
  /\ Successes(results, "CANDIDATE") >= Successes(results, "CONTROL") + Lead

\* The analysis of no results names no protocol; completed is its completed_n.
Analysis(v, results) ==
  [label |-> Label(v, results), version |-> IF results = <<>> THEN None ELSE v,
   completed |-> Len(results)]

-----------------------------------------------------------------------------
(* The authorization.                                                      *)

Authorization(v, units, calls) == [version |-> v, units |-> units, calls |-> calls, valid |-> TRUE]

\* load_authorization_artifact and bind_protocol.
Authorized(v) ==
  /\ auth # None
  /\ auth.valid
  /\ auth.units > 0 /\ auth.calls > 0
  /\ auth.version = v
  /\ auth.units <= PlannedUnits(v) /\ auth.calls <= PlannedUnits(v)

Idle == [pc |-> "idle", version |-> None, units |-> 0, calls |-> 0, made |-> 0,
         results |-> <<>>]

RunInit ==
  /\ version = 1
  /\ auth = None /\ sequence = None /\ analysis = None
  /\ run = [r \in Runners |-> Idle]
  /\ starts = 0
  /\ spawned = [v \in Versions |-> 0]
  /\ earned = {}

\* write-budget: the checks, up to the test that no file is there ...
CheckBudget(r) ==
  /\ run[r].pc = "idle"
  /\ h1
  /\ auth = None
  /\ run' = [run EXCEPT ![r] = [Idle EXCEPT !.pc = "write_budget", !.version = version]]
  /\ UNCHANGED <<h1, version, auth, sequence, analysis, starts, spawned, earned>>

\* ... and the write.
WriteBudget(r) ==
  /\ run[r].pc = "write_budget"
  /\ LET v == run[r].version IN auth' = Authorization(v, PlannedUnits(v), PlannedUnits(v))
  /\ run' = [run EXCEPT ![r] = Idle]
  /\ UNCHANGED <<h1, version, sequence, analysis, starts, spawned, earned>>

\* A human writes the file from the template, removes it, or lets it expire.
Authorize ==
  /\ \/ /\ auth = None
        /\ \E a \in HandWritten : auth' = Authorization(version, a.units, a.calls)
     \/ /\ auth # None
        /\ auth' \in {None, [auth EXCEPT !.valid = FALSE]} \ {auth}
  /\ UNCHANGED <<h1, version, sequence, analysis, run, starts, spawned, earned>>

EditDefinition ==
  /\ version < MaxVersions
  /\ version' = version + 1
  /\ UNCHANGED <<h1, auth, sequence, analysis, run, starts, spawned, earned>>

-----------------------------------------------------------------------------
(* run-real.                                                               *)

\* The gate is read once, before the first unit.
StartRun(r) ==
  /\ run[r].pc = "idle"
  /\ starts < MaxStarts
  /\ Authorized(version)
  /\ starts' = starts + 1
  /\ run' = [run EXCEPT ![r] = [Idle EXCEPT !.pc = "loop", !.version = version,
                                            !.units = auth.units, !.calls = auth.calls]]
  /\ UNCHANGED <<h1, version, auth, sequence, analysis, spawned, earned>>

AtEnd(r) == Len(run[r].results) = PlannedUnits(run[r].version)

\* Mutant of MayExecute: the invocations are compared after one more was made.
MayExecuteOneMore(r) ==
  /\ ~AtEnd(r)
  /\ Len(run[r].results) < run[r].units
  /\ run[r].made <= run[r].calls

MayExecute(r) ==
  /\ ~AtEnd(r)
  /\ Len(run[r].results) < run[r].units
  /\ run[r].made < run[r].calls

\* The agent's process is spawned when there is a store to sign it in with.
SpawnAgent(r) ==
  /\ run[r].pc = "loop"
  /\ MayExecute(r)
  /\ spawned' = [spawned EXCEPT ![run[r].version] = @ + 1]
  /\ run' = [run EXCEPT ![r].pc = "unit"]
  /\ UNCHANGED <<h1, version, auth, sequence, analysis, starts, earned>>

\* The result is appended and written; then the invocation is counted.
EndUnit(r) ==
  \E outcome \in Outcomes :
    /\ IF outcome = "BLOCKED_PROVIDER_AUTH" THEN run[r].pc = "loop" /\ MayExecute(r)
                                            ELSE run[r].pc = "unit"
    /\ LET v == run[r].version
           results == Append(run[r].results,
                        [unit |-> AssignPaired(v)[Len(run[r].results) + 1], outcome |-> outcome])
       IN /\ sequence' = [version |-> v, results |-> results]
          /\ earned' = IF Evidence(v, results) THEN earned \union {v} ELSE earned
          /\ run' = [run EXCEPT ![r].pc = "loop", ![r].results = results,
                       ![r].made = IF outcome = "BLOCKED_PROVIDER_AUTH" THEN @ ELSE @ + 1]
  /\ UNCHANGED <<h1, version, auth, analysis, starts, spawned>>

\* The loop ends at the last unit, at a limit, or as the clock has run out:
\* _finish writes the sequence once more (its status is read by nobody) ...
Finish(r) ==
  /\ run[r].pc = "loop"
  /\ sequence' = [version |-> run[r].version, results |-> run[r].results]
  /\ run' = [run EXCEPT ![r].pc = "analyze"]
  /\ UNCHANGED <<h1, version, auth, analysis, starts, spawned, earned>>

\* analyze-real reads sequence.json for the definition it has just loaded.
StartAnalyze(r) ==
  /\ run[r].pc = "idle"
  /\ sequence \notin {None, Torn}
  /\ run' = [run EXCEPT ![r] = [Idle EXCEPT !.pc = "analyze", !.version = version,
                                            !.results = sequence.results]]
  /\ UNCHANGED <<h1, version, auth, sequence, analysis, starts, spawned, earned>>

\* ... and both commands end by writing analysis.json.
WriteAnalysis(r) ==
  /\ run[r].pc = "analyze"
  /\ analysis' = Analysis(run[r].version, run[r].results)
  /\ run' = [run EXCEPT ![r] = Idle]
  /\ UNCHANGED <<h1, version, auth, sequence, starts, spawned, earned>>

\* A process is killed, possibly in the middle of rewriting a file.
KillRunner(r) ==
  /\ run[r].pc # "idle"
  /\ run' = [run EXCEPT ![r] = Idle]
  /\ CASE run[r].pc \in {"unit", "loop"} -> sequence' \in {sequence, Torn} /\ UNCHANGED analysis
       [] run[r].pc = "analyze" -> analysis' \in {analysis, Torn} /\ UNCHANGED sequence
       [] OTHER -> UNCHANGED <<sequence, analysis>>
  /\ UNCHANGED <<h1, version, auth, starts, spawned, earned>>

RunStep(r) ==
  \/ WriteBudget(r) \/ SpawnAgent(r) \/ EndUnit(r) \/ Finish(r) \/ WriteAnalysis(r)

RunNext ==
  \/ \E r \in Runners :
       RunStep(r) \/ CheckBudget(r) \/ StartRun(r) \/ StartAnalyze(r) \/ KillRunner(r)
  \/ Authorize
  \/ EditDefinition

-----------------------------------------------------------------------------
RunTypeOK ==
  /\ h1 \in BOOLEAN
  /\ version \in Versions
  /\ auth = None \/ auth \in [version : Versions, units : Nat, calls : Nat, valid : BOOLEAN]
  /\ sequence \in {None, Torn} \/ Len(sequence.results) <= PlannedUnits(sequence.version)
  /\ analysis \in {None, Torn} \/ analysis.version \in Versions \union {None}
  /\ \A r \in Runners : run[r].pc \in {"idle", "write_budget", "loop", "unit", "analyze"}
  /\ starts \in 0..MaxStarts
  /\ earned \subseteq Versions

\* One run never spawns more agents than its authorization allowed when the
\* gate was read, nor starts a unit beyond it: the unit that is running counts
\* although the run has not counted it yet.
WithinAuthorization ==
  \A r \in Runners : run[r].pc \in {"loop", "unit"} =>
    LET running == IF run[r].pc = "unit" THEN 1 ELSE 0
    IN /\ run[r].made + running <= run[r].calls
       /\ Len(run[r].results) + running <= run[r].units

\* budget_limits.py:54 says of the limit of invocations that it is HARD, since the
\* "sequential runner will not spawn process n+1": no more agents are spawned for
\* a definition than it plans units, whatever is killed and started again.
\* The code keeps it for each run and not for each authorization.
HardInvocationLimit == \A v \in Versions : spawned[v] <= PlannedUnits(v)

\* A candidate is only called qualified on results that some run of that
\* definition produced, one after the other from its first unit: every planned
\* unit but possibly the very last passed or failed, and over the complete pairs
\* the candidate is ahead.
QualifiedIsEarned ==
  analysis \notin {None, Torn} /\ analysis.label = "QUALIFIED_CANDIDATE" =>
    analysis.version \in earned

\* docs/experiments/EXPERIMENT_ANALYSIS.md says that confirmatory evidence "is
\* blocked (BLOCKED_HORIZON) until planned N is collected".  The code blocks it
\* until each planned pair has a unit: the last may still be outstanding.
ConfirmatoryAtHorizon ==
  analysis \notin {None, Torn} /\ analysis.label = "QUALIFIED_CANDIDATE" =>
    analysis.completed >= PlannedUnits(analysis.version)
=============================================================================
