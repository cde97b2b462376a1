------------------------- MODULE ExperimentLifecycle -------------------------
(***************************************************************************)
(* Fixture experiments (engineering_os/experiments/persist.py) and their   *)
(* five-minute timer (materialize.py).  Each command is a session of its   *)
(* own; all but invalidate work under the advisory lock 620260827.         *)
(* run_fixture commits twice per unit, once before and once after the      *)
(* unit is executed, and a session may die between any two steps: what it  *)
(* has not committed is rolled back and its lock is free.                  *)
(***************************************************************************)
EXTENDS Naturals, FiniteSets

CONSTANTS
  Operators,     \* sessions of engineering-os-experiment commands
  Timer,         \* the session of hermes-eos-experiments.timer
  NoSession,     \* holder of a free lock
  Pairs,         \* pairs of units; PAIRED is the design of every definition
  PlannedN,      \* sample_plan.planned_n, in pairs
  MaxProtocols,  \* bound: protocol versions of the experiment
  MaxCommands,   \* bound: operator commands
  MaxCrashes,    \* bound: crashes
  MaxBusy        \* bound: runs of lower-layer materializers

Sessions == Operators \union {Timer}
Units == UNION Pairs
Protocols == 1..MaxProtocols

ASSUME SessionAssumption == NoSession \notin Sessions /\ Timer \notin Operators
ASSUME PairAssumption ==
  Units \subseteq Nat /\ IsFiniteSet(Units) /\ PlannedN \in Nat \ {0}
ASSUME BoundAssumption == {MaxProtocols, MaxCommands, MaxCrashes, MaxBusy} \subseteq Nat

VARIABLES
  registered, \* protocol versions frozen so far; the last one is the loaded one
  state,      \* state[k], committed
  assigned,   \* protocols whose units have been assigned
  started,    \* started[k]: units whose execution_started_at is set
  seen,       \* seen[k][u]: the observed outcome, "none" before there is one
  result,     \* result[k]: the current row of experiment_results
  amended,    \* protocols amended (invalidate) after outcomes were observed
  executions, \* executions[k][u]: how often the unit has really been executed
  lock,       \* holder of the experiments lock
  lowerBusy,  \* an analytics, evaluation or performance run holds its lock
  pc,         \* pc[s]: what session s does next
  job,        \* job[s]: its command, protocol, unit, snapshot and pending write
  budget      \* commands, crashes and busy runs used, against the bounds

tables == <<registered, state, assigned, started, seen, result, amended>>
vars == <<tables, executions, lock, lowerBusy, pc, job, budget>>

Outcomes == {"known", "unknown", "breach"}
Seen == [Units -> Outcomes \union {"none"}]
NothingSeen == [u \in Units |-> "none"]

LifecycleStates == {"NONE", "PRE_REGISTERED", "READY", "RUNNING", "PAUSED",
                    "COMPLETED", "INVALIDATED"}
\* CONFIRMATORY stands for EVIDENCE_FOR, EVIDENCE_AGAINST and NO_CLEAR_EFFECT.
Conclusions == {"NOT_STARTED", "COLLECTING", "GUARDRAIL_FAILURE",
                "INSUFFICIENT_DATA", "CONFIRMATORY"}
Results == [conclusion: Conclusions, seen: Seen]

Ops == {"none", "preregister", "assign", "run-fixture", "analyze",
        "analyze --final", "invalidate", "materialize", "materialize --recompute"}
Jobs == [op: Ops, protocol: 0..MaxProtocols, unit: Units \union {0}, read: Seen,
         todo: SUBSET Protocols, marked: BOOLEAN]
NoJob == [op |-> "none", protocol |-> 0, unit |-> 0, read |-> NothingSeen,
          todo |-> {}, marked |-> FALSE]
Steps == {"idle", "lock", "check", "load", "next", "execute", "record",
          "analyze", "each", "invalidate"}

-----------------------------------------------------------------------------
(* Analysis of what has been observed (analyze.py, guardrails.py). *)

Observed(r) == {u \in Units : r[u] # "none"}
Known(r) == {u \in Units : r[u] \in {"known", "breach"}}

\* horizon_reached: the planned number of pairs is observed in full.
Horizon(r) == Cardinality({p \in Pairs : p \subseteq Observed(r)}) >= PlannedN

\* eval_guardrails: one observed FAIL of a guardrail metric is enough.
Breached(r) == \E u \in Units : r[u] = "breach"

\* More than a quarter of the assigned units has no known outcome, or no pair
\* is complete, so that there is no interval.
TooLittle(r) ==
  \/ 4 * Cardinality(Units \ Known(r)) > Cardinality(Units)
  \/ ~\E p \in Pairs : p \subseteq Known(r)

\* Mutant of Conclude: efficacy is looked at before the guardrail.
ConcludeEfficacyFirst(r) ==
  IF Horizon(r) THEN IF TooLittle(r) THEN "INSUFFICIENT_DATA" ELSE "CONFIRMATORY"
  ELSE IF Breached(r) THEN "GUARDRAIL_FAILURE" ELSE "COLLECTING"

Conclude(r) ==
  IF Breached(r) THEN "GUARDRAIL_FAILURE"
  ELSE IF ~Horizon(r) THEN "COLLECTING"
  ELSE IF TooLittle(r) THEN "INSUFFICIENT_DATA" ELSE "CONFIRMATORY"

-----------------------------------------------------------------------------
(* Sessions, the lock, and what every command begins with. *)

Init ==
  /\ registered = 0 /\ state = [k \in Protocols |-> "NONE"]
  /\ assigned = {} /\ started = [k \in Protocols |-> {}]
  /\ seen = [k \in Protocols |-> NothingSeen]
  /\ result = [k \in Protocols |-> [conclusion |-> "NOT_STARTED", seen |-> NothingSeen]]
  /\ amended = {}
  /\ executions = [k \in Protocols |-> [u \in Units |-> 0]]
  /\ lock = NoSession /\ lowerBusy = FALSE
  /\ pc = [s \in Sessions |-> "idle"] /\ job = [s \in Sessions |-> NoJob]
  /\ budget = [commands |-> 0, crashes |-> 0, busy |-> 0]

Goto(s, step) == pc' = [pc EXCEPT ![s] = step]
At(s, step, op) == pc[s] = step /\ job[s].op = op

\* Unlock and close the session: what it has not committed is rolled back.
Close(s) ==
  /\ Goto(s, "idle") /\ job' = [job EXCEPT ![s] = NoJob]
  /\ lock' = IF lock = s THEN NoSession ELSE lock

\* An operator starts a command; invalidate takes no lock.
Start(s) ==
  /\ s \in Operators /\ pc[s] = "idle" /\ budget.commands < MaxCommands
  /\ \E op \in Ops \ {"none", "materialize"} :
       /\ job' = [job EXCEPT ![s].op = op]
       /\ Goto(s, IF op = "invalidate" THEN "load" ELSE "lock")
  /\ budget' = [budget EXCEPT !.commands = @ + 1]
  /\ UNCHANGED <<tables, executions, lock, lowerBusy>>

Wake ==
  /\ pc[Timer] = "idle"
  /\ job' = [job EXCEPT ![Timer].op = "materialize"] /\ Goto(Timer, "lock")
  /\ UNCHANGED <<tables, executions, lock, lowerBusy, budget>>

\* pg_try_advisory_lock: status "locked" is an answer, nobody waits.
TryLock(s) ==
  /\ pc[s] = "lock"
  /\ IF lock # NoSession THEN Close(s)
     ELSE lock' = s /\ Goto(s, "check") /\ UNCHANGED job
  /\ UNCHANGED <<tables, executions, lowerBusy, budget>>

CheckLower(s) ==
  /\ pc[s] = "check"
  /\ IF lowerBusy THEN Close(s) ELSE Goto(s, "load") /\ UNCHANGED <<job, lock>>
  /\ UNCHANGED <<tables, executions, lowerBusy, budget>>

\* _load_protocol_row finds nothing; materialize has nothing to list.
NotFound(s) ==
  /\ pc[s] = "load" /\ job[s].op # "preregister" /\ registered = 0
  /\ Close(s)
  /\ UNCHANGED <<tables, executions, lowerBusy, budget>>

-----------------------------------------------------------------------------
(* The commands. *)

\* A new version is frozen; a known one is unchanged, or rejected when its
\* hash differs, and nothing is written.
Preregister(s) ==
  /\ At(s, "load", "preregister")
  /\ \/ /\ registered < MaxProtocols
        /\ registered' = registered + 1
        /\ state' = [state EXCEPT ![registered + 1] = "PRE_REGISTERED"]
     \/ registered > 0 /\ UNCHANGED <<registered, state>>
  /\ Close(s)
  /\ UNCHANGED <<assigned, started, seen, result, amended, executions, lowerBusy, budget>>

\* The units of the latest protocol are assigned once, all of them.
Assign(s) ==
  /\ At(s, "load", "assign") /\ registered > 0
  /\ IF registered \in assigned THEN UNCHANGED <<assigned, state>>
     ELSE /\ assigned' = assigned \union {registered}
          /\ state' = [state EXCEPT ![registered] =
                         IF @ = "PRE_REGISTERED" THEN "READY" ELSE @]
  /\ Close(s)
  /\ UNCHANGED <<registered, started, seen, result, amended, executions, lowerBusy, budget>>

\* run_fixture updates the state first; the write is pending, and keeps the
\* row locked, until the first unit commits it.
MarkRunning(s) ==
  /\ At(s, "load", "run-fixture") /\ registered > 0
  /\ job' = [job EXCEPT ![s].protocol = registered, ![s].marked = TRUE]
  /\ Goto(s, "next")
  /\ UNCHANGED <<tables, executions, lock, lowerBusy, budget>>

\* Mutant of Unstarted: execution_started_at is not looked at.
UnstartedOrNot(k) == IF k \in assigned THEN Units ELSE {}

Unstarted(k) == IF k \in assigned THEN Units \ started[k] ELSE {}

\* Mutant of BeginUnit: execution_started_at is not committed with it.
BeginUnitUncommitted(s) ==
  /\ pc[s] = "next"
  /\ \E u \in Unstarted(job[s].protocol) :
       /\ \A w \in Unstarted(job[s].protocol) : u <= w
       /\ state' = IF job[s].marked
                     THEN [state EXCEPT ![job[s].protocol] = "RUNNING"] ELSE state
       /\ job' = [job EXCEPT ![s].unit = u, ![s].marked = FALSE]
  /\ Goto(s, "execute")
  /\ UNCHANGED <<registered, started, assigned, seen, result, amended, executions,
                 lock, lowerBusy, budget>>

\* The next unit in order gets its execution_started_at, committed before it
\* is executed together with the pending state.
BeginUnit(s) ==
  /\ pc[s] = "next"
  /\ \E u \in Unstarted(job[s].protocol) :
       /\ \A w \in Unstarted(job[s].protocol) : u <= w
       /\ started' = [started EXCEPT ![job[s].protocol] = @ \union {u}]
       /\ state' = IF job[s].marked
                     THEN [state EXCEPT ![job[s].protocol] = "RUNNING"] ELSE state
       /\ job' = [job EXCEPT ![s].unit = u, ![s].marked = FALSE]
  /\ Goto(s, "execute")
  /\ UNCHANGED <<registered, assigned, seen, result, amended, executions,
                 lock, lowerBusy, budget>>

\* Every unit has been started: a state no unit has committed is rolled back.
FinishRun(s) ==
  /\ pc[s] = "next" /\ Unstarted(job[s].protocol) = {}
  /\ Close(s)
  /\ UNCHANGED <<tables, executions, lowerBusy, budget>>

\* run_unit works on a directory of its own, outside the transaction.
ExecuteUnit(s) ==
  /\ pc[s] = "execute"
  /\ executions' = [executions EXCEPT ![job[s].protocol][job[s].unit] = @ + 1]
  /\ Goto(s, "record")
  /\ UNCHANGED <<tables, lock, lowerBusy, job, budget>>

\* Exposure and observations of the unit, in one commit.
RecordUnit(s) ==
  /\ pc[s] = "record"
  /\ \E outcome \in Outcomes :
       seen' = [seen EXCEPT ![job[s].protocol][job[s].unit] = outcome]
  /\ job' = [job EXCEPT ![s].unit = 0]
  /\ Goto(s, "next")
  /\ UNCHANGED <<registered, state, assigned, started, result, amended,
                 executions, lock, lowerBusy, budget>>

\* analyze_experiment reads the latest protocol and its observations.
LoadForAnalysis(s) ==
  /\ pc[s] = "load" /\ job[s].op \in {"analyze", "analyze --final"} /\ registered > 0
  /\ job' = [job EXCEPT ![s].protocol = registered, ![s].read = seen[registered]]
  /\ Goto(s, "analyze")
  /\ UNCHANGED <<tables, executions, lock, lowerBusy, budget>>

Materializing(s) == job[s].op \in {"materialize", "materialize --recompute"}

\* Mutant of ListProtocols: only what is completed is analysed again.
ListCompleted(s) ==
  /\ pc[s] = "load" /\ Materializing(s) /\ registered > 0
  /\ job' = [job EXCEPT ![s].todo = {k \in Protocols : state[k] = "COMPLETED"}]
  /\ Goto(s, "each")
  /\ UNCHANGED <<tables, executions, lock, lowerBusy, budget>>

\* The timer lists the protocols in an analysable state, once.
ListProtocols(s) ==
  /\ pc[s] = "load" /\ Materializing(s) /\ registered > 0
  /\ job' = [job EXCEPT ![s].todo =
               {k \in Protocols : \/ state[k] \in {"RUNNING", "COMPLETED"}
                                  \/ /\ job[s].op = "materialize --recompute"
                                     /\ state[k] = "READY"}]
  /\ Goto(s, "each")
  /\ UNCHANGED <<tables, executions, lock, lowerBusy, budget>>

\* For each one it analyses, by experiment_id, the latest protocol, whatever
\* version was listed and whatever its state is now.
NextProtocol(s) ==
  /\ pc[s] = "each"
  /\ \E k \in job[s].todo :
       job' = [job EXCEPT ![s].todo = @ \ {k}, ![s].protocol = registered,
                          ![s].read = seen[registered]]
  /\ Goto(s, "analyze")
  /\ UNCHANGED <<tables, executions, lock, lowerBusy, budget>>

FinishMaterialize(s) ==
  /\ pc[s] = "each" /\ job[s].todo = {}
  /\ Close(s)
  /\ UNCHANGED <<tables, executions, lowerBusy, budget>>

\* The state an analysis of r leaves behind: a breach pauses at any time, a
\* conclusion completes once the horizon is reached.
StateAfter(current, r) ==
  IF Breached(r) THEN "PAUSED" ELSE IF Horizon(r) THEN "COMPLETED" ELSE current

\* The current result is replaced and the state follows; --final below the
\* horizon is BLOCKED_HORIZON and writes nothing.
Analyze(s) ==
  LET k == job[s].protocol
      r == job[s].read IN
  /\ pc[s] = "analyze"
  /\ IF job[s].op = "analyze --final" /\ ~Horizon(r) THEN UNCHANGED <<result, state>>
     ELSE /\ result' = [result EXCEPT ![k] = [conclusion |-> Conclude(r), seen |-> r]]
          /\ state' = [state EXCEPT ![k] = StateAfter(@, r)]
  /\ IF Materializing(s) THEN Goto(s, "each") /\ UNCHANGED <<job, lock>> ELSE Close(s)
  /\ UNCHANGED <<registered, assigned, started, seen, amended, executions,
                 lowerBusy, budget>>

LoadForInvalidate(s) ==
  /\ At(s, "load", "invalidate") /\ registered > 0
  /\ job' = [job EXCEPT ![s].protocol = registered]
  /\ Goto(s, "invalidate")
  /\ UNCHANGED <<tables, executions, lock, lowerBusy, budget>>

\* Another session's pending update of the row makes the UPDATE wait.
RowLocked(k) == \E q \in Sessions : job[q].marked /\ job[q].protocol = k

InvalidateRow(s) ==
  /\ pc[s] = "invalidate" /\ ~RowLocked(job[s].protocol)
  /\ state' = [state EXCEPT ![job[s].protocol] = "INVALIDATED"]
  /\ amended' = IF Observed(seen[job[s].protocol]) = {} THEN amended
                ELSE amended \union {job[s].protocol}
  /\ Close(s)
  /\ UNCHANGED <<registered, assigned, started, seen, result, executions,
                 lowerBusy, budget>>

-----------------------------------------------------------------------------
(* The environment. *)

Crash(s) ==
  /\ pc[s] # "idle" /\ budget.crashes < MaxCrashes
  /\ Close(s)
  /\ budget' = [budget EXCEPT !.crashes = @ + 1]
  /\ UNCHANGED <<tables, executions, lowerBusy>>

LowerStarts ==
  /\ ~lowerBusy /\ budget.busy < MaxBusy /\ lowerBusy' = TRUE
  /\ budget' = [budget EXCEPT !.busy = @ + 1]
  /\ UNCHANGED <<tables, executions, lock, pc, job>>

LowerEnds ==
  /\ lowerBusy /\ lowerBusy' = FALSE
  /\ UNCHANGED <<tables, executions, lock, pc, job, budget>>

Locking(s) == TryLock(s) \/ CheckLower(s) \/ NotFound(s)
Planning(s) == Preregister(s) \/ Assign(s)
Running(s) == MarkRunning(s) \/ BeginUnit(s) \/ FinishRun(s) \/ ExecuteUnit(s) \/ RecordUnit(s)
Analysing(s) == \/ LoadForAnalysis(s) \/ ListProtocols(s) \/ NextProtocol(s)
                \/ FinishMaterialize(s) \/ Analyze(s)
Invalidating(s) == LoadForInvalidate(s) \/ InvalidateRow(s)
Step(s) == Locking(s) \/ Planning(s) \/ Running(s) \/ Analysing(s) \/ Invalidating(s)

Next ==
  \/ \E s \in Sessions : Start(s) \/ Step(s) \/ Crash(s)
  \/ Wake \/ LowerStarts \/ LowerEnds

Spec == Init /\ [][Next]_vars

\* A started session goes on, systemd wakes the timer again, and a lower
\* layer's run ends; nobody has to start a command.
FairSpec ==
  /\ Spec /\ WF_vars(Wake) /\ WF_vars(LowerEnds)
  /\ \A s \in Sessions : WF_vars(Step(s))

-----------------------------------------------------------------------------
(* Properties. *)

\* Every variable keeps its type.
TypeOK ==
  /\ registered \in 0..MaxProtocols /\ state \in [Protocols -> LifecycleStates]
  /\ assigned \subseteq Protocols /\ started \in [Protocols -> SUBSET Units]
  /\ seen \in [Protocols -> Seen] /\ result \in [Protocols -> Results]
  /\ amended \subseteq Protocols /\ executions \in [Protocols -> [Units -> Nat]]
  /\ lock \in Sessions \union {NoSession} /\ lowerBusy \in BOOLEAN
  /\ pc \in [Sessions -> Steps] /\ job \in [Sessions -> Jobs]
  /\ budget \in [commands: 0..MaxCommands, crashes: 0..MaxCrashes, busy: 0..MaxBusy]

\* However often run-fixture is repeated, killed or raced, no unit of a
\* protocol is executed twice, and only an executed unit has an observation.
RunsOnce ==
  \A k \in Protocols, u \in Units :
    executions[k][u] <= 1 /\ (seen[k][u] # "none" => executions[k][u] = 1)

\* A protocol an analysis has completed or paused has the current result that
\* says why, drawn from all there is to observe now: nothing has been recorded
\* since, a completed one has reached its horizon without a breach, and a
\* paused one reports the safety stop, never an efficacy.
Settled == {"COMPLETED", "PAUSED"}
StateTellsResult ==
  \A k \in Protocols : state[k] \in Settled =>
    /\ result[k].seen = seen[k]
    /\ state[k] = "COMPLETED" =>
         /\ Horizon(seen[k]) /\ ~Breached(seen[k])
         /\ result[k].conclusion \in {"INSUFFICIENT_DATA", "CONFIRMATORY"}
    /\ state[k] = "PAUSED" =>
         Breached(seen[k]) /\ result[k].conclusion = "GUARDRAIL_FAILURE"

\* Outcomes are append-only: a later run never replaces one.
OutcomesStand ==
  [][\A k \in Protocols, u \in Units :
       seen[k][u] # "none" => seen'[k][u] = seen[k][u]]_vars

\* A protocol whose planned sample is collected does not stay RUNNING, unless
\* a newer version takes its place.
Concludes ==
  \A k \in Protocols :
    registered = k /\ state[k] = "RUNNING" /\ Horizon(seen[k])
      ~> registered # k \/ state[k] # "RUNNING"

\* docs/experiments/EXPERIMENT_PROTOCOL.md:28: a post-outcome amendment
\* invalidates the confirmatory interpretation.
AmendedStaysInvalid == \A k \in amended : state[k] = "INVALIDATED"
=============================================================================
