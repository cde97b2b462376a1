# Hermes Engineering OS: TLA+ models, checks and proofs

The repository puts an engineering control layer around the Hermes agent
runtime: timers read what Hermes did, turn it into facts, evaluations, metrics
and experiments, and an *adaptation* layer turns accepted results into policies
that may change how the next task is spawned. Paths below are relative to
`src/`; `adaptation/x.py` stands for `engineering_os/adaptation/x.py`, and so do
`analytics/`, `evaluation/`, `experiments/` and `performance/`.

## 1. The system

| Component | State it keeps | Operations | Talks to |
|---|---|---|---|
| **Adaptation control plane** (`adaptation/persist.py`, `materialize.py`, `db.py`, `cli.py`, `resolver.py`, `canary.py`, `guardrails.py`) | Postgres tables `adaptation_*` (bindings with a version chain, kill-switch row, exposures, guardrail events), the file `bindings.json`, the file `KILL` | shadow-start, canary-start-fixture, bind, disable, rollback, disable-all, the 1-minute timer | writes the files resolvers read |
| **Policy pipeline** (`adaptation/persist.py`, `recommend.py`, `compiler.py`, `schema.py`, `approval.py`, `shadow.py`) | recommendations, policy bundles, approvals, shadow decisions | recommend, compile, request-approval, approve, shadow, canary, promotion-request | reads experiment results; moves the control plane's binding |
| **Spawn actuation** (`adaptation/actuator.py`, `ipc_client.py`, `hermes_plugin.py`, `spawn_resolve.py`, `reserve.py`) | reservation table in SQLite, `state.json`, one Unix socket | the plugin asks with a 50 ms budget; the actuator resolves and reserves a slot; fail-open to the baseline | Hermes' spawn hook |
| **Production canary operations** (`adaptation/pag2_ops.py`, `approval_ed25519.py`) | `state.json`, the signed grant, H1 and H3 records | pag2-bind, pag2-canary, pag2-shadow, pag2-probe, pag2-rollback | the actuator, `analysis.json` of the real experiment |
| **Experiments** (`experiments/persist.py`, `materialize.py`, `executor.py`) | registry, assignments, execution status, observations, results | preregister, assign, run-fixture, analyze, invalidate, the 5-minute timer | evaluation engine |
| **Real-agent runner** (`experiments/hard_runner.py`, `real_executor.py`, `real_analyze.py`, `budget_gate.py`) | budget authorization, `sequence.json`, `analysis.json` | write-budget, run-real, analyze-real | spawns agents; its label gates production |
| **Analytics** (`analytics/`) | facts, outcomes and their history, trace references, usage, run rows | passes of the timer and of an operator | Kanban, Phoenix, git, GitHub; Postgres |
| **Evaluation** (`evaluation/`) | `evaluation_runs` and results | sweep of the timer, `--task`, units and canaries that evaluate trees | outcome table, docker or an inline sandbox |
| **Performance** (`performance/`) | published aggregates, failures, coverage | a pass of the timer or of an operator | outcome table and evaluations |
| **Agent OS** (`agent_os/`) | skill registry and five files beside it, a dirty flag | lifecycle hook, pre-turn hook, `agent-os regenerate`, routing, resolving | Hermes plugin API, skills on disk, the hub |
| **Integrations** (`integrations/github`, `integrations/hermes`), **observability**, **dashboard** | none of their own (read-only clients, caches) | list, correlate, health, GET endpoints | GitHub, Phoenix, Kanban |
| **Deployment** (`deploy/`, `scripts/`, `migrations/`, `bin/`) | systemd units and timers, SQL schema | install, migrate, verify | all of the above |

How they interact. Five materializers (analytics, evaluation, performance,
experiments, adaptation) share one Postgres server and coordinate through
session advisory locks: each tries its own key without waiting, and the higher
ones then look whether a lower layer holds its key. The layers meet in tables:
analytics commits one outcome after the other, evaluation and performance read
what is there. An experiment result reaches adaptation through its tables, too;
there it becomes a recommendation, a bundle, an approval and at last a binding.
Everything the resolvers need at spawn time goes through two files,
`bindings.json` and `KILL`, written by the control plane outside any
transaction. A production canary takes another way: a signed budget, a run of
real agents, the label in `analysis.json`, `pag2-bind`, `state.json`, the
actuator's Unix socket, which must answer within 50 ms or the baseline is run.

What is hard here:

* the bindings cache is written *before* the transaction commits, and
  disable-all writes it even without the lock;
* a canary is two transactions with an unlocked execution phase in between;
* a refused lock is an answer, not a wait, so half a command may be done;
* what an operator's command reads before it asks for the lock is stale when
  it writes;
* the actuator answers one client at a time, while clients give up after 50 ms;
  a slot that was reserved is never refunded, so a late answer costs one;
* a run of real agents can be killed and started again, and nothing locks its
  files; the gates of production are read one after the other;
* analytics reads a task in several steps from sources that fail one by one;
* evaluations are written by four kinds of sessions, of which one takes a lock;
* the skill registry is six files replaced one by one, under a lock that two of
  its three writers do not take;
* crashes at any point: sessions close and roll back, files stay.

Correctness, component by component: the control plane must keep one current
binding and a monotone version chain, leave resolvers in agreement with the
database, and not resolve to a candidate after a successful disable-all; the
pipeline must rest every bundle on the evidence it names and never open
production by itself; reservations must never exceed the approved exposure and
never be refunded; the spawn hook must always return and fail open; a production
exposure must have been earned by a run of its own definition and approved;
experiments must run a unit once and keep their final status; the outcome table
must follow the tasks and never go back; an identity must keep one current
evaluation, and a lost command must not become a verdict; what is published
must add up and catch up; the files of the registry must agree, or be marked.

`PROJECT.json` lists every component with its status, and under `hazards` each
place in the code where one of these can go wrong, with the properties that
would catch it.

## 2. Modules

| Module | Models | Used by |
|---|---|---|
| `PolicyPointer` | abstract: a pointer `[version, policy, mode]` that moves one version at a time, and a kill switch nothing clears | refined by `AdaptationControl` and `PolicyPipeline` |
| `AdaptationControl` | the control plane's commands and timer, step by step | runs `control`, `control_autodisable` |
| `PolicyPipeline` | from an experiment's result to a binding, one transaction per step | run `pipeline_safety` |
| `ExposureLedger` | abstract: candidate slots are granted one at a time, at most `MaxExposure`, never refunded, told only to a holder | refined by `SlotReservation`, `SpawnActuation`, `ProductionCommands` |
| `SlotReservation` | `reserve_sqlite`, statement by statement, for concurrent callers | run `slots_race` |
| `SpawnActuation` | the spawn-time path: gateways, socket, actuator, `state.json` and its operators | runs `spawn`, `spawn_strpath` |
| `RealAgentRun` | budget authorization, run-real, analyze-real and their files | extended by `ProductionCommands` |
| `ProductionCommands` | the `pag2-*` commands and their gates on top of a real run | run `production_safety` |
| `ExperimentLifecycle` | `experiments/persist.py` and its timer, one session each, commit by commit | run `experiment_safety` |
| `OutcomeRules` | functions: what analytics says of a task from its evidence | extended by `AnalyticsMaterializer` |
| `AnalyticsMaterializer` | the passes of analytics over sources that move and fail | runs `analytics_passes`, `analytics_usage` |
| `OutcomeTable` | abstract: one row per task that follows the task and never goes back | refined by `AnalyticsMaterializer`, extended by `EvaluationRuns` |
| `EvaluationRules` | functions: from how commands end and what policies find to verdicts, comparisons and the summary | extended by `EvaluationRuns`, `PerformanceRules` |
| `EvaluationRuns` | the sessions that write `evaluation_runs` | extended by `PerformanceSnapshot` |
| `PerformanceRules` | functions: cohorts, metrics, tiers and coverage of a population | extended by `PerformanceSnapshot` |
| `PerformanceSnapshot` | the passes of performance on top of the two lower layers | run `layers` |
| `SkillRouting` | functions: registry, classification, routing, resolution of missing capabilities | extended by `SkillRegistry` |
| `SkillRegistry` | hooks, turns and `agent-os regenerate` over the generated files | run `registry` |
| `MC<module>` | the instance TLC checks: what a `.cfg` cannot express, and the worlds | the runs |
| `<module>_proofs` | inductive invariant and theorems (`ExposureLedger_proofs`: of both `SlotReservation` and `SpawnActuation`) | TLAPS |

Composition follows what the code shares. `EvaluationRuns` and
`PerformanceSnapshot` are one state machine with the real advisory keys of three
layers; analytics appears in it as `OutcomeTable` promises it, and
`AnalyticsMaterializer` is checked to keep that promise. `ProductionCommands`
extends `RealAgentRun` because the label in `analysis.json` is its second gate.
`PolicyPipeline` and `AdaptationControl` meet in `PolicyPointer`: both move the
same row, one as whole transactions, the other step by step with files and
crashes. `SpawnActuation` and `ProductionCommands` share the actuator in the same
way through `ExposureLedger`. `AdaptationControl` and `ExperimentLifecycle` keep
the locks of the layers below them as a flag `lowerBusy` that the environment
raises and lowers: they read nothing the lower layers write in these commands,
only whether somebody holds a key.

Operators marked `Mutant of` are a definition changed as a plausible bug would
change the code; nothing uses them but the mutants of `PROJECT.json`.

### AdaptationControl

State and code: `rows` is `adaptation_bindings` of key `default` (committed
rows), `dbKill` the kill-switch row, `exposures` the exposures table,
`killFile` and `cache` the two files (the cache is absent, empty after the
truncation of `write_text`, corrupt when two writers overlapped, or whole),
`lock` the session advisory lock 720260827, `lowerBusy` whether any of the four
lower keys is held. Per process, `pc` is the step it takes next, `stage` its
uncommitted writes, `expected` the version it read, `draft` the cache contents
it is about to write or has loaded, `unit` and `cmd.mine` its canary's progress.
One command is the sequence of actions

    [EngageKill] TryLock CheckLower Read.. Cas QueryState TruncateFile
    WriteFile RewriteKill Commit Unlock

and a canary continues with `LoadForCanary RunUnit.. FinishUnits` and a second
pass of the same sequence (`ReadForVerdict`: exposures, guardrails, the
auto-disable). A refused lock ends the command, except for disable-all, which
goes on to `ReloadState` and writes the cache without the lock. `Crash` may
happen before every step.

Abstracted: a guardrail verdict is a property of the policy (`BadPolicies` fail
once a candidate has run). Left out: audit and plan rows, the wording of
reasons, selector matching (every context matches every policy: the interesting
case), and cache reads that tear within one write (a reader sees the empty or
the corrupt file instead).

Bounds: two operators and the timer, two policies of which one fails its
guardrail, one canary unit with one candidate slot, two commands, and one fault,
which is a crash or a busy spell of the lower layers. Two overlapping commands,
with the timer in between and a crash at any step, are what every interleaving
hazard of the code needs, since the lock admits one transaction at a time. Safety
and liveness are one run.

Fairness (`FairSpec`): a started process keeps being scheduled
(`WF_vars(Step(p))`), systemd starts the timer again and again
(`deploy/adaptation/hermes-eos-adaptation.timer`), and a lower layer's run ends
(`TimeoutStartSec` of its service). Operators are not fair: nobody has to start
a command. Crashes are bounded, never fair.

### PolicyPipeline

State and code: `result[e]` is the newest protocol of an experiment and its
current result, as `load_experiment_result` would find it now; `recs`, `bundles`
and `approvals` are the three tables, oldest row first (approvals that are equal
in every column a decision looks at count once); `guards[i]` the guardrail
events of the newest canary of bundle `i`; `binding` the current binding;
`shadowed` the newest shadow decision; `doing[o]` what an operator's command has
read and not yet written. A bundle's `hash` stands for what `hash_bundle`
covers: the file, the protocol hash and the class of the recommendation; the
protocol hash (`ProtocolHash`) is the experiment and its version, which
`freeze` both puts under it. A file's `experiment` is `Unnamed` when it leaves
the optional `source_experiment` out; it then compiles with a recommendation of
any experiment (`compiler.py:32`). The treatment is always compared: the code
skips the comparison for a recommendation that has none (`compiler.py:35`), but
`treatment_dimension` is NOT NULL in both databases, so every stored one has.

Actions: `ExperimentMoves` (the layer below amends, analyses or invalidates),
`ReadResult` and `Recommend` (the read comes before the lock, so the row may be
of a result that has changed), `Compile` (a hash already stored is left as it
is), `RequestApproval`, `ApproveTest` (the newest request, the newest bundle of
that name, the recommendation's mark), `Bind`, `Decide` and `RecordShadow`,
`RunCanary` and `Verdict`, `Disable`, `PromotionRequest`, and `GiveUp`: the lock
is held or the process dies, nothing more is written.

Bounds: two experiments, of which one may be amended once, with two outcomes;
five policy files that differ in what compiling and approving look at (no
experiment named, a shadow scope and one experiment named, an actuating scope,
unsound, another treatment), two recommendations, two bundles, one approval and
two binding versions: the smallest at which a second recommendation or bundle,
of the other experiment too, takes the name of the first. The result is read
only while there is room for another recommendation.

### SlotReservation and ExposureLedger

(Its state and behaviour are named `SlotInit`, `SlotNext`, `SlotSpec`: the
proofs extend it together with `SpawnActuation`.)
`table` holds the rows `[slot, unit]` of one policy and approval, `writer` the
caller between `BEGIN IMMEDIATE` and `COMMIT`. A call is `Lookup` (the unit has
a slot already), `Count` (the number of rows becomes the slot to take, or
EXPOSURE_EXHAUSTED), `Insert` (the first statement that opens a transaction;
primary key and unique index answer IntegrityError, which the code reports as
EXPOSURE_EXHAUSTED too), `Commit`, `Return`; `Busy` is SQLite's five-second
timeout, an exception to the caller. Between any two of them another caller may
run, so the count is stale when it is used, and only the constraints keep the
ledger exact. `told` and `refused` are history variables. `Crash` rolls an open
transaction back.

Bounds: three callers, three units, two slots: two callers can fight for one
slot while the other is free, and a third can be refused legitimately. Calls are
not counted; the state space is finite without a bound. A system in which every
unit has a slot can still be called, so there is no deadlock.

### SpawnActuation

`file` is `state.json` reduced to the mode and policy of its first binding
(`absent`, `torn`, `CANARY`, or `BASELINE` when rolled back), `edit[o]` an
operator's pag2-bind or pag2-rollback between reading, truncating and writing
it, `queue` the connections in systemd's listening socket, `server`, `req`,
`state`, `answer` the progress of the one request being served, `slots` the
reservation table, `call[c]` the open hook call of a gateway. `spawned` is
history: who was spawned with candidate overrides.

Actions: `HookCall` (connect and send always succeed: systemd listens),
`GiveUp` (the client's timeout or a closed connection, its request stays),
`Accept`, `LoadState` (an unreadable file ends the process), `Decide` (resolve,
then reserve), `DecideLate` (the 50 ms seam timeout), `Send`, `KillServer`,
`Restart`; `StartEdit`, `ReadFile`, `Truncate`, `WriteFile`, `KillOperator` for
the operators. `Written` says what two overlapping in-place writes leave: the
tail of the longer text.

`ReservePath` is the type of the argument `main()` hands to `serve_forever`:
the deployed program passes a `str` (`adaptation/actuator.py:213`), the tests a
`Path`. The run `spawn` uses `"Path"`, to see what the design gives when that
line is right; `spawn_strpath` uses `"str"`. `SlotReservation` covers the races
inside `reserve_sqlite`; here one server calls it, so a reservation is one step.

Bounds: two gateways, two tasks, two policies (a canary bound again under
another protocol), two operators, two calls, two edits, one kill or slow
resolution. The bounds on calls and edits make the system stop, hence
`CHECK_DEADLOCK FALSE`.

Fairness: the server and its restart (`Restart=` of the unit), a client's
timeout, an operator's command once started. Nothing makes the server answer in
time, and nobody has to call.

Left out: authentication of the peer and of the board, identity mismatches
(requests carry what the binding expects), the KILL file (`AdaptationControl`
has it), partial messages (the client sends its request in one `sendall`).

### RealAgentRun and ProductionCommands

State and code: `auth` is the budget authorization file, `sequence` and
`analysis` the two JSON files (a killed writer may leave them `Torn`),
`version` the number of the definition file's version (editing it changes its
hash), `run[r]` a process that runs write-budget, run-real or analyze-real with
the limits it read once; `spawned` and `earned` are history: agents spawned, and
versions whose own run showed evidence. On top, `h1`, `h3`, `grant`, `live` and
`trusted` are what the gates look at, `state` is `state.json`, `queue` the
actuator's unanswered requests, `slots` its reservations, `cmd[o]` the command
an operator runs; `told` and `opened` are history.

Actions: `CheckBudget`/`WriteBudget` (check, then write), `Authorize`,
`EditDefinition`, `StartRun`, `SpawnAgent`, `EndUnit`, `Finish`, `StartAnalyze`,
`WriteAnalysis`, `KillRunner`; `ReadGate` once per gate, `CheckBinding` and
`WriteBinding`, `ReadState` and `WriteRollback`, `Ask`, `Serve`, `TakeReply`,
`TimeoutAsk`, `Judge`, and `ChangeWorld` for the humans and cutovers that open
and close gates while a command reads them.

Abstracted: `sequence.json` is the version and the results; its status and its
count of invocations are written and read by nobody. The analysis gets the
assignments of the results there are (`real_analyze.py:117`) and collects a pair
whose only unit among them has run (`CollectedPairs`), while the statistics take
complete pairs (`CompletePairs`): a run that was stopped one unit short of its
plan, killed or at a hand-written limit of an odd number of units, reaches the
horizon and can be called qualified. `OnlyEarned` therefore asks for every
planned unit but possibly the very last, and for a lead over the complete pairs.

Bounds: two pairs of units that start in opposite arms, so that a complete pair
can carry the label while the other is half run; one definition, one run, an
authorization written by the command or by hand (two units, one call); an
operator who may bind and roll back and one who runs a canary or a shadow, a
world in which H1 is still closed under a grant that is valid or has expired,
and one change of the world. The question is whether an exposure can come about
before the chain is complete: H1 may open at any time, the label appears while
the commands run, and an expired grant has to keep the last gate closed. Grants
and H3 records that come and go between two reads of one command are left to
the theorems, which hold for every world and any number of changes.

### ExperimentLifecycle

State and code: `registered` counts the frozen versions of one experiment (the
last is the one `_load_protocol_row` finds), `state[k]`, `assigned`,
`started[k]` (units with `execution_started_at`), `seen[k][u]` (observations),
`result[k]` (the current row of `experiment_results`), `amended` (history: an
invalidation after outcomes), `executions[k][u]` (history: how often `run_unit`
really ran), `lock` (620260827) and `lowerBusy`. `job[s].marked` is the pending
`UPDATE .. state = 'RUNNING'` of run-fixture: it keeps the row locked and is
committed with the first unit, or rolled back if there is none.

Actions: `Start`, `Wake` (the timer), `TryLock`, `CheckLower`, `NotFound`;
`Preregister`, `Assign`; `MarkRunning`, `BeginUnit`, `ExecuteUnit`,
`RecordUnit`, `FinishRun` (two commits per unit, before and after it is
executed); `LoadForAnalysis`, `Analyze`; `ListProtocols`, `NextProtocol`,
`FinishMaterialize` (the timer lists versions, then analyses by experiment id,
which is always the latest one); `LoadForInvalidate`, `InvalidateRow` (no lock,
but it waits for a locked row); `Crash`.

Abstracted: an outcome is `known`, `unknown` or a guardrail `breach`; the order
in which `analyze` looks at guardrails, horizon and missing data is kept, the
interval it computes is not (`CONFIRMATORY` stands for evidence for, against and
no clear effect). All five definitions of the repository are PAIRED, so the
parallel-arms branch is left out, and with it the validity checks that a
balanced pair always passes. `executor.py`'s file work is `ExecuteUnit`.

Bounds: two operators and the timer, one version, two pairs with a plan of one
(so a protocol can complete with units left to run), four commands, one crash,
one busy spell. Four commands are preregister, assign and two that meet.

Fairness: a started session goes on, systemd wakes the timer
(`deploy/experiments/hermes-eos-experiments.timer`), a lower run ends.

### OutcomeRules, OutcomeTable, AnalyticsMaterializer

`OutcomeRules` is `analytics/rules/__init__.py`, `normalize.py` and `scope.py` as
functions of the evidence about a task: which runs qualify, the first pass, the
retries before a success, rework, the final outcome and what `source_hash`
covers.

State and code: `src` is Kanban (task, runs, events), `up` how Phoenix, git and
GitHub answer, `holder` the advisory lock 320260827, `session[s]` a pass with
what it has read of the task it works on, `db` the derived tables, `runRow` the
`materialization_runs` row of a session's last pass. A pass is `Begin` (or
`Locked`), per task `ReadTask`, `ReadRuns`, `ReadEvidence`, `MaterializeTask` or
`TaskFails`, or `MissTask` for an id that no board has (`Unlisted`: an operator
may ask for any), then `Finish`; `Crash` closes the connection. Between the reads the
sources move: `StartRun`, `EndRun`, `CompleteByHand`, `Reopen`, `SourceFlips`.
Phoenix has three answers: all traces, only those among the newest spans (the
client's fallback), or a failure, for which stored traces stand in.

Bounds are *worlds*, chosen at the start, which spend the same small budget on
different things: `Retries` (a task that crashed before, tried again in three
ways), `Verdicts` (blocked, crashed within a second, found wrong),
`PhoenixOutage` and `GitOutage` (two changes of a source), `TwoSessions` (timer
and operator, recompute, one fault), `TwoTasks` (one pass over two tasks, one of
which may fail). The product of all of them adds states, not cases.

Fairness: a running pass goes on and the timer begins again and again
(`deploy/analytics/hermes-eos-analytics.timer`); the sources owe nothing, so
`OutcomesCatchUp` has "they come back for good" as its premise.

### EvaluationRules, EvaluationRuns, PerformanceRules, PerformanceSnapshot

`EvaluationRules` takes a *fate* for each command (passes, fails, is killed,
hangs, docker or the image is missing, ...) through `RunDocker` or `RunInline`,
`CommandResult`, `Classify`, the policies, `Correctness`, the comparison with
the baseline and `Summary` to what `evaluate_trees` returns. `ClassifyTask` keeps
the cohort and the commit of `eligibility.py` and leaves out the workspace path
that makes a fixture without a commit TEST_ELIGIBLE and the grade of the git
evidence: the sweep treats both as it treats a missing commit.

`EvaluationRuns`: `task` and `table` are those of `OutcomeTable`, `held` the
advisory keys 320260827, 420260827 and 520260827, `evaluations` the rows of
`evaluation_runs`, `evaluator[s]` a session. The sweep takes its lock, the
operator's `--task`, experiment units and fixture canaries take none. All end in
`persist_run`: `Look` for a current row, then `Unchanged`, `Supersedes`,
`Inserts`, or `UniqueViolation`, when the partial unique index speaks because
somebody has committed in between. `PerformanceSnapshot` adds `performer[s]` and
`published`, what the current rows were made from: `PerformanceBegins` (own key,
then one look at the lower two), `ReadsOutcomes`, `ReadsEvaluations`,
`Publishes`, `PerformanceEnds`, `PerformanceFails`. `PerformanceRules` says what
a population is aggregated to; an aggregate names its members where the code
keeps counts.

Bounds: a production task that gets a commit and a fixture task that never does;
worlds `[timers, board, operator, units, crashes, kinds]`: all timers with one
operator command, all timers with two tasks and a crash, operators against the
sweep, two units or canaries with a crash, and one caller that goes through
every fate of every command and every finding of the policies. A world names
what it does not use, so that the last ones do not pay for the timers.

Fairness: timers fire and sessions go on (weak); `AnalyticsCatchesUp(t)` is
strong, since each pass of analytics comes to every task and
`AnalyticsMaterializer` shows that it catches up; `TimerPerforms` is strong under
the assumption `[]<>` no pass of the two lower layers is under way. The code does
not enforce that: it rests on the units of `deploy/`, timers of five minutes for
passes of seconds, and says which assumption the freshness of performance needs.

### SkillRouting and SkillRegistry

`SkillRouting` has `build_registry`, `classify`, the scoring and the greedy
selection of the router (at most three selected, two supporting) and the
resolver's candidates with their trust tiers, as functions over numbered skills;
scores are the code's, doubled. The loop over the ranking is a recursive
function, `Decided`: what has been decided after the first n skills. A text that
asks for nothing is answered with nothing before any skill is scored.
The 358 rows of `github-expanded.json` that `build_registry` merges last are left
out: none has a capability and none is installed, so no answer depends on them.
The scan of a hit is what the caller's `scan_fn` says. The plugin's tool always
says None (`plugin/__init__.py:121`, "None => ask/no auto"), with which a hit of
T0 or T1 is still one the resolver would install.
`RoutingAssumption` says what the code's own data structures are: each file lists
finitely much, and the registry is a dict, so no two repositories and no
capability share an identifier.

`SkillRegistry`: `disk` is `~/.hermes/skills`, `files` the six generated files,
each the inventory it was made from, `dirty` and `stamp` the two marker files,
`mutex` the lock of `lifecycle/sync.py`, `work[p]` a gateway thread or a command.
A lifecycle event is `Change`, `MarkDirty`, `TakeLock`, `CheckDirty`,
`ListSkills`, `ReadSkills`, `WriteFile` five times, `HashFiles`,
`WriteEvidence`, `WriteStamp`, `ClearDirty`; `StartCommand` and a `Turn` that
finds no registry begin at `ListSkills` without the lock. A skill that is gone
when it is read ends the regeneration with an exception; the hooks swallow it.
`settled` is history: the files come from a regeneration that no change, no
other regeneration and no crash came across.

Bounds: two threads and one command; eight skills, four sources and two seeds
taken from the repository's own registry, two of the skills come and go; eight
texts and every subset of six hub hits; worlds `[changes, commands, turns,
crashes]` that let two kinds of things come across each other: (2,1,0,0),
(2,0,1,0), (2,0,0,1), (1,1,0,1), (1,0,1,1), (0,1,1,1).

Fairness: threads and processes run on. Nobody has to change a skill or to ask.

## 3. Runs

| Run | Question | Answer |
|---|---|---|
| `control` | version chain, agreement of cache and database, kill switch, refinement of `PolicyPointer`; the cache heals after crashes and unlocked writes, commands return | holds |
| `control_autodisable` | a failed canary is disabled before it returns | **violated**: the second lock may be refused |
| `pipeline_safety` | bundles rest on the evidence they name, marks agree with grants, production stays closed, nothing recorded is rewritten, refinement of `PolicyPointer` | holds |
| `slots_race` | exposure, dense slots, somebody wins a race, refinement of `ExposureLedger` | holds |
| `spawn` | a candidate is spawned only for the holder of its slot, no refund, refinement of `ExposureLedger`; hooks return, a waiting request of a bound canary takes the slot | holds with a `Path` |
| `spawn_strpath` | the last of these, as deployed | **violated**: every candidate decision ends the server |
| `production_safety` | a run stays within the authorization it read; a label is earned by its own run, complete or one unit short; an exposure was earned and approved; verdicts are true; refinement of `ExposureLedger` | holds |
| `experiment_safety` | units run once, state and current result agree, outcomes stand, collected samples are concluded | holds |
| `analytics_passes` | history, run rows and evidence tell the truth, a decided first pass stays, refinement of `OutcomeTable`, outcomes catch up | holds |
| `analytics_usage` | usage of models catches up, too | **violated** after an outage of Phoenix |
| `layers` | a lost command is no verdict, failures have a cause, an identity keeps one current row, what is published adds up, never goes back and catches up | holds |
| `registry` | the files agree or are marked, hooks return; routing misses, selects and installs only with a reason | holds |

Each violated property quotes the document it comes from in its comment and in
`PROJECT.json` (`findings`). Every property of a passing run has a mutant there
under which TLC finds it violated; a property that is a conjunction has one for
its parts where they fail in different ways.

The conjunctions are named for what their parts have in common, and every part
is a definition of its own with its own comment:

| Run | Property | Parts |
|---|---|---|
| `production_safety` | `LimitsHold` | `TypeOK`, `WithinAuthorization` |
| | `OnlyEarned` | `QualifiedIsEarned`, `ExposureWasEarned` (with `ExposureWasApproved` in it) |
| `analytics_passes` | `Consistent` | `TypeOK`, `HistoryTellsOutcome`, `SuccessMeansRecorded`, `NoQualityViolation` |
| `layers` | `Consistent` | `TypeOK`, `DataQualityHolds`, `PublishedCountsAddUp` |
| | `VerdictsHaveCauses` | `OutageIsNoVerdict`, `FailureHasACause`, `PolicyFailureIsNoPass` |
| `registry` | `Consistent` | `TypeOK`, `FilesAgree` |
| | `AnswersHaveReasons` | `MissingHasAReason`, `SelectionIsNeeded`, `InstallsByTier` |

Where the prover has the type invariant, and for `OneCurrent` and
`AtMostMaximum`, no run lists the invariant: TLC checked each once, section 4
proves it for every instance.

### Further configurations

The suite is kept small enough to be run on every change. These configurations
stay beside it; each checks one statement of the documentation and TLC refutes
it in seconds. Run them with `tlc -config <file> <module>`.

| Configuration | Property | The code | The document |
|---|---|---|---|
| `AdaptationControl_killrow.cfg` | `DisableAllSetsRow` | `adaptation/persist.py:940`: without the lock the KILL file and the cache are written, the row is not | `docs/adaptation/ADAPTATION_OPERATIONS.md:14` |
| `AdaptationControl_exposure.cfg` | `NoExposureAfterDisable` | `adaptation/persist.py:685`: a canary already running goes on with the cache it has loaded | `docs/adaptation/ADAPTATION_ROLLBACK.md:7` "Stop assigning new candidate tasks / fixture units" |
| `SpawnActuation_readable.cfg` | `PersistedIsReadable` | `adaptation/pag2_ops.py:546`: two in-place writes may overlap | `docs/operations/PRODUCTION_ROLLBACK_RESULT.md:8` |
| `ExperimentLifecycle_amended.cfg` | `AmendedStaysInvalid` | `experiments/persist.py:314`: a later run or analysis gives the protocol another state | `docs/experiments/EXPERIMENT_PROTOCOL.md:27` "Post-outcome amendment invalidates confirmatory interpretation" |
| `PolicyPipeline_promotion.cfg` | `BadCanaryBlocksPromotion` | `adaptation/persist.py:873`: of the events of one canary, which share `created_at`, an arbitrary one is looked at | `docs/adaptation/ADAPTATION_SEMANTICS.md:63` "Critical UNKNOWN → no further promotion." |
| `PolicyPipeline_invalidated.cfg` | `CandidateStands` | `adaptation/persist.py:524`: the experiment, read at `:171`, is not looked at again when its policy is bound | `docs/adaptation/ADAPTATION_VALIDITY.md:6` "source experiment not `INVALIDATED`" |
| `ProductionCommands_horizon.cfg` | `ConfirmatoryAtHorizon` | `experiments/real_analyze.py:117`: the assignments are cut to the results there are, and `experiments/analyze.py:88` collects a pair of which only one unit is left | `docs/experiments/EXPERIMENT_ANALYSIS.md:13` "Fixed horizon: confirmatory `EVIDENCE_*` is blocked (`BLOCKED_HORIZON`) until planned N is collected" |
| `ProductionCommands_evidence.cfg` | `BoundOnOwnEvidence` | `experiments/real_analyze.py:171`: results of an earlier definition are labelled with the hash of the edited one | `docs/experiments/EXPERIMENT_VALIDITY.md:7` "frozen hash matches stored protocol" |
| `ProductionCommands_hardlimit.cfg` | `HardInvocationLimit` | `experiments/hard_runner.py:59`: a run that is started again counts from zero | `experiments/budget_limits.py:54` "sequential runner will not spawn process n+1" |
| `SkillRegistry_trust.cfg` | `InstallsAsDocumented` (TLC refutes either conjunct alone, too) | `agent_os/core/resolver.py:101`: a trusted hit is taken for allowlisted when it names no repository; `:55`: an inconclusive scan does not keep T0 and T1 back | `docs/agent-os/skills/SKILL_TRUST_MODEL.md:9` "Yes only if allowlisted **and** `should_allow_install(..., force=False)` is True", `:17` "`ask` scan outcomes are not auto-install."; `agent_os/policies/trust-policy.yaml:50` `ask_verdict_not_auto_install: true` |
| `PerformanceSnapshot_cohort.cfg` | `EveryProductionTaskCounts` | `evaluation/cli.py:190`: `--task` persists with the default cohort `fixture` (`evaluation/persist.py:57`), which takes the task out of the production population | `docs/observability/PERFORMANCE_SEMANTICS.md:17` "Default production population is `task_outcomes.production_cohort = true`" |

### Noticed while modelling, and not a run

Adaptation:

* a crash between the cache write and the commit (`adaptation/persist.py:558`)
  leaves resolvers on a binding that was rolled back. `CacheAgrees` therefore
  speaks of uncrashed systems, and `CacheHeals` says the timer repairs it;
* `rollback` (`adaptation/persist.py:857`) is a disable with another trigger and
  adds a version each time, while `docs/adaptation/ADAPTATION_ROLLBACK.md:10`
  calls it idempotent; the mode it leaves is the same;
* a second canary of one policy records a unit with `ON CONFLICT`
  (`adaptation/persist.py:713`), whichever arm it was in before; shadow decisions
  may be credited to another bundle of the same name (`adaptation/persist.py:595`);
* `quality.py` counts a fixture policy in production as a leak, while a
  TEST_ONLY recommendation compiles to the scope PRODUCTION_SHADOW; that shadow
  comes before canary (`docs/adaptation/ADAPTATION_ROLLOUT.md:3`) is not looked at by `bind_policy`;
* `consume_nonce` has no caller in `src/`; the receive loop of
  `adaptation/actuator.py:187` makes no progress on a partial message (its one
  client sends with `sendall`); `adaptation/reserve.py:105` answers
  EXPOSURE_EXHAUSTED to the loser of a race although slots may be free.

Experiments:

* a fixture unit whose run died is never run again and never observed
  (`experiments/persist.py:323-330`), so its protocol may stay RUNNING below its
  horizon. That is the price of `RunsOnce`, and why `Concludes` only speaks of a
  collected sample;
* `run-real` does not look at H1, although `docs/experiments/EXPERIMENT_OPERATIONS.md:9` says so;
  a protocol without promotion may be run again until one has it; units of two
  runs share `unit_dir` (`experiments/real_executor.py:70`); the authorization is
  tested and then written (`experiments/budget_gate.py:204`);
* units evaluate with the workspace as its own baseline, so that regression and
  scope compare a tree with itself.

Analytics, evaluation, performance:

* a crashed pass leaves its row `running`; checkpoints
  (`analytics/materialize.py:672`) move after errors, too, and are read by nothing;
* a pass over an id that no board has counts it as unchanged and ends with
  `success` and no outcome (`analytics/materialize.py:487`, `:635`), while the dry
  run counts it as an error (`:577`, and says `success`, too):
  `SuccessMeansRecorded` speaks of the targets a board has;
* in the container a missing program (exit 127) and a failed `docker cp` count as
  FAIL (inline a missing program raises, and there is no evaluation), though
  `docs/evaluation/EVALUATION_SEMANTICS.md:10` says missing evidence is not FAIL: `Outages` names
  the fates `OutageIsNoVerdict` speaks of; the inline sandbox, a "test helper",
  is set by `experiments/executor.py:35`, `real_executor.py:156` and
  `adaptation/canary.py:61`;
* a task that becomes eligible keeps its INSUFFICIENT row (`evaluation/cli.py:99`);
  two trees with one hash share an identity (`evaluation/persist.py:33`);
  RULESET_MISMATCH cannot happen, since `run_engine` passes one ruleset for both
  sides; VERIFIED_PASS with the fixture profile cannot be reached.

Agent OS:

* the lifecycle hook that comes within two seconds of a regeneration leaves the
  flag and nobody comes back for it (`agent_os/lifecycle/sync.py:38`):
  `StaleIsMarked` holds because the flag stays, and it is all that holds;
* a hub hit that is "trusted" without a repository keeps tier T2; T0 and T1 with
  the scan "ask" are installed although the policy rule is
  `ask_verdict_not_auto_install`.

## 4. Proofs

Each proof module states an inductive invariant, shows that `Init` implies it
and that every action keeps it (one lemma per action or group of actions), and
derives the theorems. Before a proof was begun, TLC checked the candidate
invariant on the run of its module.

**`AdaptationControl_proofs`**, for every set of policies and operators and
every bound: `TypeCorrect`, `OneCurrentHolds`, `KillSwitchHolds`,
`CacheAgreesHolds` and `Refinement` of `PolicyPointer`. None of these is
inductive alone. `IInv` adds:

* `Chain(rows)`: versions are unique, positive, and exactly the newest row is
  current;
* `LockOK`: a process between lock and unlock, or with uncommitted writes, is
  the lock's holder, so no two processes have uncommitted writes;
* `StageOK`: what is uncommitted is nothing or exactly the next row of the
  chain, and a pending kill comes with disabling an active binding;
* `CommandOK`, `KillOK`: a canary that has bound names a policy, a disable-all
  past its first step has written the KILL file.

`ChainExtends` shows that committing such a row keeps the chain and makes it the
pointer; `Frame` covers the processes that did not move.

`CacheAgrees` needs a second invariant on top (`CacheInv`). The file has two
writers, and one of them, disable-all, may write without the lock; but it writes
the KILL file first. So while there is no KILL file and no crash, only the
holder of the lock writes the cache, and the step the holder is at tells what is
in it: the committed rows before the refresh, nothing in the middle, what is
about to be committed afterwards.

**`PolicyPipeline_proofs`**, for any experiments, protocols, policy files and
operators: `TypeCorrect`, `EvidenceHolds`, `MarksAreGrants`, `ProductionClosed`,
`RowsStay` (an action property) and `Refinement` of `PolicyPointer`. `IInv`
types the rows and adds `Chained`: every bundle is of a promotable
recommendation whose experiment and protocol its hash covers and whose
treatment is the file's (as the experiment is, when the file names one),
approvals name bundles and hold only scopes a test key may sign, and a
recommendation is marked exactly when a grant exists for a bundle of its own;
and `DoingOK`: what a command has read and not yet written is a result with the
constants `load_experiment_result` puts in (so it is never a production
candidate, however stale), or a bundle that is still stored. The point is the
name: approval and canary look a bundle up again by name, and the newest one may
be another than the one requested.

**`ExposureLedger_proofs`** is about the two that keep the ledger.

`SlotReservation`, for any callers, units and exposure: the rows fill the first
slots, each unit holds at most one, a caller about to insert has counted no more
than there is and less than the maximum, a caller about to commit holds the
write lock and has the next free slot (`SlotInv`). `SlotTypeCorrect`,
`ExposureHolds`, `DenseHolds`, `RaceHasWinner` and `SlotLedgerRefinement` follow;
`RowExtends` is the cardinality argument.

`SpawnActuation`, for any gateways, policies, operators and both types of
`ReservePath`: an answer that actuates a policy has that policy's slot reserved
for the request's unit (`AnswerOK`). With it `TypeCorrect`, `SlotBeforeSpawn`
and `LedgerRefinement` (for `AnyPolicy`, which is arbitrary).

**`ProductionCommands_proofs`**, for any runners, operators, tasks, grants,
definition versions and bounds: `AuthorizationHolds`, `VerdictsHold`,
`LedgerRefinement`, `ExposureApprovedHolds` and `OnlyEarnedHolds`. The invariant
has two halves that do not meet. `RunsOK` says that a run carries the limits it has read in its own
record and is within them with the unit that is running counted, so an
authorization that is replaced, withdrawn or expires meanwhile is of no account.
`CommandsOK` says that a request still in the queue is of an earlier round of
its operator or asks for exactly the unit the operator's command is about
(`RequestsOf`), and that every answer CANDIDATE a command has is for a unit that
holds a slot (`TrueOf`): an answer that comes after the timeout belongs to a
request of an earlier position or round and is taken by nobody, but its slot
stays. Two answers CANDIDATE of one canary are for two units, a version's slots
hold one, so two versions are exposed.

The other two theorems join the halves (`EarnedInv`). `ExposureApprovedHolds`
says of every behaviour that no unit is exposed unless H1, H3 and a valid
approval were there. `OnlyEarnedHolds` is `Spec => [](Unedited => OnlyEarned)`:
`OnlyEarned` holds in every state before the first edit of the definition file,
whatever happens later. It cannot say more: after an edit the label is computed
from the results of the earlier definition, which is the counterexample of
`ProductionCommands_evidence.cfg`, and `production_safety` has one version for
the same reason.

The added invariant follows the evidence. `OwnResults`, up to the first edit: the
results of a run, in memory and in `sequence.json`, are those of the first
planned units in their order. A label QUALIFIED_CANDIDATE needs every pair
collected, hence every planned unit but possibly the last
(`AllPairsNearlyAllUnits`: the unit k is of pair ceil(k/2), `PairOfUnit`, and the
last pair has one), hence the run showed the evidence (`QualifiedIsEvidence`). `ChainOK`, always: each gate a
bind has read was open when it read it, whatever closes afterwards; a binding is
active only after all four; a slot is taken only while a binding is active. What
the fourth gate, the label, is worth is `Shown`: the versions whose run showed
evidence, and after an edit any version. `Shown` only grows, so one chain of
lemmas serves both theorems, and the gates that no edit touches stay proved
after it.

**`ExperimentLifecycle_proofs`**, for any pairs, plan and number of versions and
sessions: `TypeCorrect`, `RunsOnceHolds`, `StateTellsResultHolds`,
`OutcomesStandHolds`. `IInv` adds the lock's holder, that a run under way has
taken its protocol out of COMPLETED and PAUSED and works on a started, not yet
observed unit, that the snapshot of an analysis is what is observed, and that a
unit is started before it is executed. The point of the argument is `invalidate`,
which takes no lock: it only ever writes INVALIDATED, a state of which nothing is
claimed, and waits for a pending row.

**`AnalyticsMaterializer_proofs`**, for any tasks, sessions and worlds:
`ConsistentHolds`, `OutageKeepsEvidenceHolds`, `ImplementsTableHolds` (the
refinement of `OutcomeTable`, on which evaluation and performance rest) and
`FirstPassSettlesHolds`. `IInv` says that only the lock's holder is in a pass;
that what a pass has read is no newer than its task and no older than the row it
will replace (`ReadOK`), which is why a row never goes back; that each target of
a pass that a board has is still to do, in hand, failed or recorded (`CoverOK`),
which is why a pass that ends in success has recorded all of these; and that the rows of one
task agree with each other and with its history (`RowOK`, `HistoryOK`).

`FirstPassSettles` has a second layer (`SettledInv`). A verdict is that of a
qualifying run that has ended, and every run that starts before it is synthetic
(`SettledIn`); runs end after they start and new ones start now, so nothing that
happens later comes before it. A pass may have read the runs long ago: what it
read is settled as the task is (`SettledRead`). The theorem has the premise
`RunsFit`: no task ever has more runs than `list_runs` returns (100). With more,
Kanban answers with the newest ones and the first pass would be judged by
another run.

**`PerformanceSnapshot_proofs`**, for any tasks, cohorts, facts, sessions, trees,
fates, profile and worlds: `VerdictsHaveCausesHolds`, `IdentityKeepsCurrentHolds`,
`PublishedNeverGoesBackHolds`, `ConsistentHolds`. The verdicts are an argument
about functions, from one command (`CommandIsSound`: one that came to no end of
its own is an error, one that failed ended and did not pass) over a subject with
its profile to a case with its policies and its baseline (`SoundPayload`). The
state machine adds `OneCurrent` (no identity has two current rows, although
three of four writers take no lock: the partial unique index refuses the second)
and `PassOK` (a pass of performance has its lock, and what it read of the
outcomes lies between what is published and what the table holds), which gives
that what is published never goes back. What is published adds up because each
task has one row that counts.

**`SkillRegistry_proofs`**, for any skills, threads, commands and worlds:
`ConsistentHolds`, `StaleIsMarkedHolds`, `InstallsByTierHolds` and
`AnswersHaveReasonsHolds`. The six files are replaced one by one by writers of
which only one takes the lock, so the invariant is about `settled`, the history of what came across what. `Alone`: a regeneration nothing
came across is the only one. `Current`: while the files are settled, every
regeneration under way has seen the skills that are on the disk now, so whatever
order their renames take, they write the same; and what each has written so far
is what it has seen (`Written`). `AtRest`: with no regeneration under way, the
settled files agree, and are of the skills on the disk unless the flag is set or
a hook is about to set it. `SameSeen` is the step where two writers meet.

`InstallsByTierHolds` is a part of `AnswersHaveReasons`, for any catalogue and
any answer of the hub. It says what the code keeps of its trust model: T0 and T1
unless a scan blocks, T2 only if a scan allows it and it names no repository
outside the allowlist or its source is official, T3 and T4 never, and no better
tier passed over. Whatever a thread has read is an inventory that can be on
the disk (`Standing`, `Installable`); of any registry built from one, candidates
have tiers and numbered names (`CandidateIs`), so a first one by tier and name
exists (`PreferredIsFirst`), and it is one that may be installed.

`AnswersHaveReasonsHolds` adds what the router selects, for any skills, sources,
seeds and texts. It has two halves.

* The ranking. A registry is finite and no two of its entries share a name
  (`RegistryFinite`, `IdsDiffer`), and scores are numbers (`ScoreIsInt`), so the
  sort key is a strict order; in one of n elements each has another number of
  elements before it and every number below n occurs (`Positions`, by
  cardinality). So the ranking lists every skill with a positive score once, and
  the installed ones first (`RankedIs`).
* The loop. `Greedy` is its invariant: at most three are selected, none of them
  has a capability that remains, and each but the first covered what remained
  when its turn came, which is `SelectionIsNeeded`. A capability has a `Reason`
  once it is neither missing nor remains, or three are selected; no step takes a
  reason away (`CoverReasons`), and an installed skill leaves one for each
  capability it has, because installed skills come first and so nothing is
  missing yet when it is its turn (`InstalledGivesReason`). Hence
  `MissingHasAReason`.

That `Decided` is the function its equation says (`DecidedIs`), and that what
holds before the loop and is kept by each turn holds after it (`StepByStep`),
are proved by the least counterexample (`LeastExists`): the library's induction
theorem takes an operator that the provers cannot instantiate.

Assumptions used are those the modules name (`PolicyAssumption`,
`ProcessAssumption`, `BoundAssumption`, `PipelineAssumption`, `CallerAssumption`,
`ExposureAssumption`, `NamesAssumption`, `BoundsAssumption`, `PathAssumption`,
`SessionAssumption`, `PairAssumption`, `RunAssumption`, `CommandAssumption`,
`NoneAssumption`, `TimerIsSession`, `WorldAssumption`, `EvaluationAssumption`,
`TierAssumption`, `PerformanceAssumption`, `RoutingAssumption`,
`RegistryAssumption`); every one is evaluated by TLC in the runs. They say that
names are different from each other, that bounds and identifiers are numbers and
that files list finitely much. One theorem has a premise beyond them,
`FirstPassSettlesHolds` with `RunsFit`, as said above; `OnlyEarnedHolds` speaks
of the states before the first edit.

Every invariant and every action property a passing run lists is proved, and so
are the refinements. Model-checked only:

* all liveness properties (`OutcomesCatchUp`, `EvaluationCatchesUp`,
  `CacheHeals`, `HooksReturn` and the others in the table): fairness and ENABLED
  are out of the prover's reach;
* every violation, which TLC shows by a behaviour.

## 5. Not modelled

`PROJECT.json` lists every component with its status. Adaptation reports, the
experiment definitions and snapshots, analytics reports and migration, the
dashboard and the deployment scripts hold no state of their own that another
part relies on, or are input and output. Of modelled components these parts are
left out: metrics beyond one of each kind, comparisons with their Simpson guard
and confidence intervals (numeric aggregation of the same rows); capture of git
worktrees for evaluation, which the sweep never reaches without stored
artifacts; `reserve_memory`; `pag2-auto-disable`; dry runs. Hashing, statistics,
sandboxes and language-model calls enter as constants or as free choices.

## 6. Plan

The core was built in the order in which a mistake would reach a spawned task:
control plane, reservation, spawn path, experiments, then what feeds them
(pipeline, real runs and production commands, analytics, evaluation,
performance), then the Agent OS beside it. What is left:

1. What a label is worth once the definition was edited: `OnlyEarned` ends with
   the first edit, and no property says what is still true of the results then.
2. `ExperimentLifecycle` and `AdaptationControl` under the real keys of the
   lower layers, as `PerformanceSnapshot` has them, in place of `lowerBusy`.
3. Production recommendations, once code sets `real_hermes_inference`: today no
   result read from the database can become one (`ProductionClosed`).
