-------------------------- MODULE AdaptationControl --------------------------
(***************************************************************************)
(* The adaptation control plane (engineering_os/adaptation/persist.py):    *)
(* operator commands and the materialize timer, each a process with its    *)
(* own database session, working on the bindings table, the kill-switch    *)
(* row, the KILL file and the bindings cache file resolvers read.          *)
(*                                                                         *)
(* A command's database work is one transaction under the advisory lock    *)
(* 720260827; its file writes are outside any transaction.  A process can  *)
(* crash between any two steps: its session closes, so the transaction     *)
(* rolls back and the lock is released, and the files stay as they are.    *)
(***************************************************************************)
EXTENDS Naturals, FiniteSets

CONSTANTS
  Policies,        \* compiled policy bundles
  BadPolicies,     \* those whose candidate artifact fails a critical guardrail
  NoPolicy,        \* a reference that names no bundle; the policy of no row
  Operators,       \* processes that run operator commands, one at a time
  Timer,           \* the process of hermes-eos-adaptation.timer
  NoProcess,       \* holder of a free lock
  MaxUnits,        \* canary.max_units
  SampledUnits,    \* units whose HMAC bucket is below max_candidate_pct
  MaxCandidates,   \* canary.max_concurrent_candidate
  MaxCommands,     \* bound: operator commands started
  MaxCrashes,      \* bound: crashes
  MaxBusy,         \* bound: runs of the lower layers' materializers
  MaxFaults        \* bound: crashes and runs of lower layers together

Procs == Operators \union {Timer}

ASSUME PolicyAssumption == BadPolicies \subseteq Policies /\ NoPolicy \notin Policies
ASSUME ProcessAssumption == NoProcess \notin Procs /\ Timer \notin Operators
ASSUME BoundAssumption ==
  /\ {MaxUnits, MaxCandidates, MaxCommands, MaxCrashes, MaxBusy, MaxFaults} \subseteq Nat
  /\ SampledUnits \subseteq 1..MaxUnits

VARIABLES
  rows,      \* adaptation_bindings, the committed rows of key "default"
  dbKill,    \* adaptation_kill_switch.engaged, committed
  exposures, \* adaptation_exposures, committed
  killFile,  \* the KILL file exists
  cache,     \* contents of bindings.json
  lock,      \* holder of the adaptation advisory lock
  lowerBusy, \* an analytics..experiments materializer holds its lock
  pc,        \* pc[p]: the step process p takes next
  cmd,       \* cmd[p]: the command p runs, its policy and its phase
  stage,     \* stage[p]: p's uncommitted writes
  expected,  \* expected[p]: the binding version p read for its CAS
  draft,     \* draft[p]: what p is about to write to, or loaded from, the cache
  unit,      \* unit[p]: units its canary has finished
  ran,       \* candidate and baseline executions of fixture units, ever
  killAcked, \* history: some disable-all has returned success
  budget     \* commands, crashes and busy runs used, against the bounds

vars == <<rows, dbKill, exposures, killFile, cache, lock, lowerBusy, pc, cmd,
          stage, expected, draft, unit, ran, killAcked, budget>>

Refs == Policies \union {NoPolicy}
ActiveModes == {"SHADOW", "CANARY"}
Units == 1..MaxUnits

Rows == [version: Nat, policy: Refs, mode: ActiveModes \union {"DISABLED"},
         current: BOOLEAN]
Bindings == [policy: Refs, mode: ActiveModes \union {"DISABLED"}]
States == [kill: BOOLEAN, bindings: SUBSET Bindings]
Files == [form: {"absent", "empty", "corrupt", "whole"}, state: States]
Outcomes == [policy: Policies, unit: Units, selected: {"CANDIDATE", "BASELINE"}]
Commands == [op: {"none", "canary", "shadow", "disable", "disable-all", "materialize"},
             policy: Refs, phase: 1..2, mine: SUBSET Outcomes]
Stages == [old: SUBSET Rows, new: SUBSET Rows, kill: BOOLEAN, seen: SUBSET Outcomes]

Labels == {"idle", "engage", "lock", "check", "read", "cas", "query", "reload",
           "truncate", "write", "rekill", "commit", "unlock", "load", "run"}

NoState == [kill |-> FALSE, bindings |-> {}]
NoFile(form) == [form |-> form, state |-> NoState]
NoCommand == [op |-> "none", policy |-> NoPolicy, phase |-> 1, mine |-> {}]
NoStage == [old |-> {}, new |-> {}, kill |-> FALSE, seen |-> {}]

-----------------------------------------------------------------------------
(* The bindings table. *)

Demoted(r) == [r EXCEPT !.current = FALSE]
CurrentRows(R) == {r \in R : r.current}

\* The pointer of an empty table, which no row holds.
NoRow == [version |-> 0, policy |-> NoPolicy, mode |-> "BASELINE", current |-> TRUE]

\* current_binding: the newest current row, if there is one.
CurrentBinding(R) ==
  IF CurrentRows(R) = {} THEN NoRow
  ELSE CHOOSE r \in CurrentRows(R) : \A q \in CurrentRows(R) : q.version <= r.version

\* The rows a session sees: the committed ones and its own writes.
ViewRows(s) == (rows \ s.old) \union {Demoted(r) : r \in s.old} \union s.new

\* _cas_insert: nothing is written unless the version is the expected one.
CasInsert(s, version, policy, mode) ==
  LET now == CurrentBinding(ViewRows(s)) IN
  IF now.version # version THEN s
  ELSE [s EXCEPT !.old = {now} \ {NoRow},
                 !.new = {[version |-> version + 1, policy |-> policy,
                           mode |-> mode, current |-> TRUE]}]

-----------------------------------------------------------------------------
(* The cache file and the resolver. *)

\* load_cache: a missing file is no binding, an unreadable one a kill.
LoadCache ==
  CASE cache.form = "whole"  -> cache.state
    [] cache.form = "absent" -> [kill |-> killFile, bindings |-> {}]
    [] OTHER                 -> [kill |-> TRUE, bindings |-> {}]

\* Mutant of Rendered: the refresh misses the transaction's own writes.
RenderedCommitted(s) ==
  [kill |-> dbKill \/ s.kill,
   bindings |-> {[policy |-> r.policy, mode |-> r.mode] : r \in CurrentRows(rows)}]

\* The state _refresh_cache builds from what session s sees.
Rendered(s) ==
  [kill |-> dbKill \/ s.kill,
   bindings |-> {[policy |-> r.policy, mode |-> r.mode] : r \in CurrentRows(ViewRows(s))}]

\* Mutant of ResolvesCandidate: the KILL file is not looked at on resolving.
ResolvesWithoutKillFile(state) ==
  /\ ~state.kill
  /\ \E b \in state.bindings : b.mode = "CANARY"

\* resolve_policy for a context that every policy's selectors match:
\* the KILL file is read at resolve time, whatever state was loaded.
ResolvesCandidate(state) ==
  /\ ~killFile /\ ~state.kill
  /\ \E b \in state.bindings :
       /\ b.mode = "CANARY"
       /\ \A c \in state.bindings : c = b \/ c.mode = "SHADOW" \/ c.policy = NoPolicy

\* Guardrail evaluation of a finished canary: a failed candidate execution.
GuardrailFails(c) ==
  /\ c.policy \in BadPolicies
  /\ \E o \in c.mine : o.selected = "CANDIDATE"

-----------------------------------------------------------------------------
Init ==
  /\ rows = {} /\ dbKill = FALSE /\ exposures = {}
  /\ killFile = FALSE /\ cache = NoFile("absent")
  /\ lock = NoProcess /\ lowerBusy = FALSE
  /\ pc = [p \in Procs |-> "idle"]
  /\ cmd = [p \in Procs |-> NoCommand]
  /\ stage = [p \in Procs |-> NoStage]
  /\ expected = [p \in Procs |-> 0]
  /\ draft = [p \in Procs |-> NoState]
  /\ unit = [p \in Procs |-> 0]
  /\ ran = {} /\ killAcked = FALSE
  /\ budget = [commands |-> 0, crashes |-> 0, busy |-> 0]

dbVars == <<rows, dbKill, exposures>>
fileVars == <<killFile, cache>>
workVars == <<cmd, stage, expected, draft, unit, ran>>
envVars == <<lowerBusy, budget>>

Goto(p, step) == pc' = [pc EXCEPT ![p] = step]

\* p has returned: its session is closed and its scratch state is gone.
Finish(p) ==
  /\ Goto(p, "idle")
  /\ cmd' = [cmd EXCEPT ![p] = NoCommand]
  /\ stage' = [stage EXCEPT ![p] = NoStage]
  /\ expected' = [expected EXCEPT ![p] = 0]
  /\ draft' = [draft EXCEPT ![p] = NoState]
  /\ unit' = [unit EXCEPT ![p] = 0]

\* An operator starts a command; disable-all writes the KILL file before
\* anything else.
StartCommand(p) ==
  /\ pc[p] = "idle" /\ p \in Operators
  /\ budget.commands < MaxCommands
  /\ budget' = [budget EXCEPT !.commands = @ + 1]
  /\ \E op \in {"canary", "shadow", "disable", "disable-all"}, h \in Refs :
       /\ op = "disable-all" => h = NoPolicy
       /\ cmd' = [cmd EXCEPT ![p] = [NoCommand EXCEPT !.op = op, !.policy = h]]
       /\ Goto(p, IF op = "disable-all" THEN "engage" ELSE "lock")
  /\ UNCHANGED <<dbVars, fileVars, lock, lowerBusy, stage, expected, draft, unit,
                 ran, killAcked>>

StartTimer ==
  /\ pc[Timer] = "idle"
  /\ cmd' = [cmd EXCEPT ![Timer] = [NoCommand EXCEPT !.op = "materialize"]]
  /\ Goto(Timer, "lock")
  /\ UNCHANGED <<dbVars, fileVars, lock, envVars, stage, expected, draft, unit,
                 ran, killAcked>>

EngageKill(p) ==
  /\ pc[p] = "engage"
  /\ killFile' = TRUE
  /\ Goto(p, "lock")
  /\ UNCHANGED <<dbVars, cache, lock, envVars, workVars, killAcked>>

-----------------------------------------------------------------------------
(* _lock: try the own key, then look whether a lower layer holds its own.  *)

\* Mutant of Refused: waiting for the lock in a retry loop.
RefusedRetries(p) == Goto(p, "lock") /\ UNCHANGED <<cmd, stage, expected, draft, unit>>

\* What a command does when it is refused the lock.
Refused(p) ==
  IF cmd[p].op = "disable-all"
    THEN Goto(p, "reload") /\ UNCHANGED <<cmd, stage, expected, draft, unit>>
    ELSE Finish(p)

TryLock(p) ==
  /\ pc[p] = "lock"
  /\ IF lock = NoProcess
       THEN /\ lock' = p
            /\ Goto(p, "check")
            /\ UNCHANGED <<cmd, stage, expected, draft, unit>>
       ELSE Refused(p) /\ UNCHANGED lock
  /\ UNCHANGED <<dbVars, fileVars, envVars, ran, killAcked>>

\* Mutant of FirstStep: the timer writes its checkpoint and refreshes nothing.
FirstStepWithoutRefresh(c) ==
  IF c.op = "materialize" \/ (c.op = "shadow" /\ c.phase = 2) THEN "commit" ELSE "read"

\* What a command does first once it has the lock.
FirstStep(c) ==
  CASE c.op = "materialize"                -> "query"
    [] c.op = "shadow" /\ c.phase = 2       -> "commit"
    [] OTHER                               -> "read"

CheckLower(p) ==
  /\ pc[p] = "check"
  /\ IF lowerBusy
       THEN lock' = NoProcess /\ Refused(p)
       ELSE /\ Goto(p, FirstStep(cmd[p]))
            /\ UNCHANGED <<lock, cmd, stage, expected, draft, unit>>
  /\ UNCHANGED <<dbVars, fileVars, envVars, ran, killAcked>>

-----------------------------------------------------------------------------
(* The transaction, up to the cache refresh. *)

\* canary-start-fixture and shadow-start bind; disable rebinds whatever is
\* current: each reads the version its compare-and-set will expect.
ReadForBind(p) ==
  /\ pc[p] = "read" /\ cmd[p].phase = 1
  /\ cmd[p].op \in {"canary", "shadow", "disable"}
  /\ IF cmd[p].op # "disable" /\ cmd[p].policy = NoPolicy
       THEN Goto(p, "unlock") /\ UNCHANGED expected
       ELSE /\ expected' = [expected EXCEPT ![p] = CurrentBinding(rows).version]
            /\ Goto(p, "cas")
  /\ UNCHANGED <<dbVars, fileVars, lock, envVars, cmd, stage, draft, unit, ran, killAcked>>

\* The second transaction of a canary: exposures first (ON CONFLICT DO
\* NOTHING: a unit already recorded keeps its row), then the auto-disable.
ReadForVerdict(p) ==
  /\ pc[p] = "read" /\ cmd[p].phase = 2
  /\ stage' = [stage EXCEPT ![p].seen =
       {o \in cmd[p].mine :
          \A e \in exposures : ~(e.policy = o.policy /\ e.unit = o.unit)}]
  /\ IF GuardrailFails(cmd[p])
       THEN /\ expected' = [expected EXCEPT ![p] = CurrentBinding(rows).version]
            /\ Goto(p, "cas")
       ELSE Goto(p, "query") /\ UNCHANGED expected
  /\ UNCHANGED <<dbVars, fileVars, lock, envVars, cmd, draft, unit, ran, killAcked>>

\* Mutant of ReadForDisableAll: the kill row is set and the binding left active.
ReadForKillOnly(p) ==
  /\ pc[p] = "read" /\ cmd[p].op = "disable-all"
  /\ stage' = [stage EXCEPT ![p].kill = TRUE]
  /\ Goto(p, "query")
  /\ UNCHANGED <<dbVars, fileVars, lock, envVars, cmd, expected, draft, unit, ran, killAcked>>

ReadForDisableAll(p) ==
  /\ pc[p] = "read" /\ cmd[p].op = "disable-all"
  /\ stage' = [stage EXCEPT ![p].kill = TRUE]
  /\ IF CurrentBinding(rows).mode \in ActiveModes
       THEN /\ expected' = [expected EXCEPT ![p] = CurrentBinding(rows).version]
            /\ Goto(p, "cas")
       ELSE Goto(p, "query") /\ UNCHANGED expected
  /\ UNCHANGED <<dbVars, fileVars, lock, envVars, cmd, draft, unit, ran, killAcked>>

\* The row a command's compare-and-set inserts.
NewMode(c) ==
  CASE c.op = "canary" /\ c.phase = 1 -> "CANARY"
    [] c.op = "shadow"                -> "SHADOW"
    [] OTHER                          -> "DISABLED"
NewPolicy(c) ==
  IF c.policy # NoPolicy THEN c.policy ELSE CurrentBinding(rows).policy

\* A version mismatch rolls bind and disable back; the auto-disable and
\* disable-all go on without looking at the answer.
Cas(p) ==
  LET done == CasInsert(stage[p], expected[p], NewPolicy(cmd[p]), NewMode(cmd[p]))
      strict == cmd[p].phase = 1 /\ cmd[p].op # "disable-all"
  IN
  /\ pc[p] = "cas"
  /\ stage' = [stage EXCEPT ![p] = done]
  /\ Goto(p, IF done.new = {} /\ strict THEN "unlock" ELSE "query")
  /\ UNCHANGED <<dbVars, fileVars, lock, envVars, cmd, expected, draft, unit, ran, killAcked>>

-----------------------------------------------------------------------------
(* _refresh_cache, inside the transaction and before its commit: query,    *)
(* truncate, write, and the KILL file again when the row says so.          *)

QueryState(p) ==
  /\ pc[p] = "query"
  /\ draft' = [draft EXCEPT ![p] = Rendered(stage[p])]
  /\ Goto(p, "truncate")
  /\ UNCHANGED <<dbVars, fileVars, lock, envVars, cmd, stage, expected, unit, ran, killAcked>>

\* disable-all without the lock: the bindings as the cache has them.
ReloadState(p) ==
  /\ pc[p] = "reload"
  /\ draft' = [draft EXCEPT ![p] = [kill |-> TRUE, bindings |-> LoadCache.bindings]]
  /\ Goto(p, "truncate")
  /\ UNCHANGED <<dbVars, fileVars, lock, envVars, cmd, stage, expected, unit, ran, killAcked>>

TruncateFile(p) ==
  /\ pc[p] = "truncate"
  /\ cache' = NoFile("empty")
  /\ Goto(p, "write")
  /\ UNCHANGED <<dbVars, killFile, lock, envVars, workVars, killAcked>>

\* Writing over what another process wrote since the truncation leaves its
\* tail behind when the new text is shorter.
WriteFile(p) ==
  /\ pc[p] = "write"
  /\ \/ cache' = [form |-> "whole", state |-> draft[p]]
     \/ /\ cache.form # "empty" /\ cache # [form |-> "whole", state |-> draft[p]]
        /\ cache' = NoFile("corrupt")
  /\ IF lock = p
       THEN /\ Goto(p, "rekill")
            /\ UNCHANGED <<cmd, stage, expected, draft, unit, killAcked>>
       ELSE Finish(p) /\ killAcked' = TRUE
  /\ UNCHANGED <<dbVars, killFile, lock, envVars, ran>>

RewriteKill(p) ==
  /\ pc[p] = "rekill"
  /\ killFile' = (killFile \/ draft[p].kill)
  /\ Goto(p, "commit")
  /\ UNCHANGED <<dbVars, cache, lock, envVars, workVars, killAcked>>

Commit(p) ==
  /\ pc[p] = "commit"
  /\ rows' = ViewRows(stage[p])
  /\ dbKill' = (dbKill \/ stage[p].kill)
  /\ exposures' = exposures \union stage[p].seen
  /\ Goto(p, "unlock")
  /\ UNCHANGED <<fileVars, lock, envVars, workVars, killAcked>>

\* The finally clause.  A first phase that bound goes on to the second.
Unlock(p) ==
  LET bound == cmd[p].phase = 1 /\ stage[p].new # {} IN
  /\ pc[p] = "unlock"
  /\ lock' = NoProcess
  /\ IF bound /\ cmd[p].op \in {"canary", "shadow"}
       THEN /\ Goto(p, IF cmd[p].op = "canary" THEN "load" ELSE "lock")
            /\ cmd' = [cmd EXCEPT ![p].phase = 2]
            /\ stage' = [stage EXCEPT ![p] = NoStage]
            /\ UNCHANGED <<expected, draft, unit>>
       ELSE Finish(p)
  /\ killAcked' = (killAcked \/ cmd[p].op = "disable-all")
  /\ UNCHANGED <<dbVars, fileVars, envVars, ran>>

-----------------------------------------------------------------------------
(* Between its two transactions a canary holds no lock: it loads the cache *)
(* once and runs its units against that state.                             *)

LoadForCanary(p) ==
  /\ pc[p] = "load"
  /\ draft' = [draft EXCEPT ![p] = LoadCache]
  /\ Goto(p, "run")
  /\ UNCHANGED <<dbVars, fileVars, lock, envVars, cmd, stage, expected, unit, ran, killAcked>>

CandidatesSoFar(c) == {o \in c.mine : o.selected = "CANDIDATE"}

RunUnit(p) ==
  LET next == unit[p] + 1
      candidate == /\ ResolvesCandidate(draft[p]) /\ next \in SampledUnits
                   /\ Cardinality(CandidatesSoFar(cmd[p])) < MaxCandidates
      outcome == [policy |-> cmd[p].policy, unit |-> next,
                  selected |-> IF candidate THEN "CANDIDATE" ELSE "BASELINE"]
  IN
  /\ pc[p] = "run" /\ unit[p] < MaxUnits
  /\ ran' = ran \union {outcome}
  /\ cmd' = [cmd EXCEPT ![p].mine = @ \union {outcome}]
  /\ unit' = [unit EXCEPT ![p] = next]
  /\ UNCHANGED <<dbVars, fileVars, lock, envVars, pc, stage, expected, draft, killAcked>>

FinishUnits(p) ==
  /\ pc[p] = "run" /\ unit[p] = MaxUnits
  /\ Goto(p, "lock")
  /\ UNCHANGED <<dbVars, fileVars, lock, envVars, workVars, killAcked>>

-----------------------------------------------------------------------------
FaultsLeft == budget.crashes + budget.busy < MaxFaults

Crash(p) ==
  /\ pc[p] # "idle"
  /\ budget.crashes < MaxCrashes /\ FaultsLeft
  /\ budget' = [budget EXCEPT !.crashes = @ + 1]
  /\ lock' = IF lock = p THEN NoProcess ELSE lock
  /\ Finish(p)
  /\ UNCHANGED <<dbVars, fileVars, lowerBusy, ran, killAcked>>

LowerStarts ==
  /\ ~lowerBusy /\ budget.busy < MaxBusy /\ FaultsLeft
  /\ lowerBusy' = TRUE
  /\ budget' = [budget EXCEPT !.busy = @ + 1]
  /\ UNCHANGED <<dbVars, fileVars, lock, pc, workVars, killAcked>>

LowerEnds ==
  /\ lowerBusy
  /\ lowerBusy' = FALSE
  /\ UNCHANGED <<dbVars, fileVars, lock, pc, workVars, killAcked, budget>>

\* What process p does on its own once a command is started.
Step(p) ==
  \/ EngageKill(p) \/ TryLock(p) \/ CheckLower(p)
  \/ ReadForBind(p) \/ ReadForVerdict(p) \/ ReadForDisableAll(p) \/ Cas(p)
  \/ QueryState(p) \/ ReloadState(p) \/ TruncateFile(p) \/ WriteFile(p)
  \/ RewriteKill(p) \/ Commit(p) \/ Unlock(p)
  \/ LoadForCanary(p) \/ RunUnit(p) \/ FinishUnits(p)

Next ==
  \/ StartTimer \/ LowerStarts \/ LowerEnds
  \/ \E p \in Procs : StartCommand(p) \/ Step(p) \/ Crash(p)

Spec == Init /\ [][Next]_vars

\* The operating system runs started processes, systemd starts the timer
\* again and again, and a lower layer's run ends.  Operators are not fair.
FairSpec ==
  /\ Spec
  /\ \A p \in Procs : WF_vars(Step(p))
  /\ WF_vars(StartTimer) /\ WF_vars(LowerEnds)

-----------------------------------------------------------------------------
(* Properties. *)

Pointer == CurrentBinding(rows)

\* Every variable has its type (one invariant for the whole module).
TypeOK ==
  /\ rows \subseteq Rows /\ dbKill \in BOOLEAN /\ exposures \subseteq Outcomes
  /\ killFile \in BOOLEAN /\ cache \in Files
  /\ lock \in Procs \union {NoProcess} /\ lowerBusy \in BOOLEAN
  /\ pc \in [Procs -> Labels]
  /\ cmd \in [Procs -> Commands] /\ stage \in [Procs -> Stages]
  /\ expected \in [Procs -> Nat] /\ draft \in [Procs -> States]
  /\ unit \in [Procs -> 0..MaxUnits]
  /\ ran \subseteq Outcomes /\ killAcked \in BOOLEAN
  /\ budget \in [commands: 0..MaxCommands, crashes: 0..MaxCrashes, busy: 0..MaxBusy]

\* The compare-and-set chain of adaptation_bindings: versions are unique, and
\* the one current row is the newest, whatever the commands and the crashes.
OneCurrent ==
  \A r, q \in rows :
    /\ r.version = q.version => r = q
    /\ r.current <=> \A t \in rows : t.version <= r.version

\* What a refresh of the committed state would leave in the cache file.
InAgreement ==
  \/ cache = [form |-> "whole", state |-> Rendered(NoStage)]
  \/ cache.form = "absent" /\ rows = {}

\* While no command holds the lock and none has crashed, resolvers read the
\* committed binding, or they read the KILL file: the cache is written before
\* the commit and, by disable-all, without the lock, and still never lags.
CacheAgrees ==
  lock = NoProcess /\ budget.crashes = 0 => killFile \/ InAgreement

\* Once a disable-all has returned success, with or without the lock, no task
\* and no canary already under way resolves to its candidate.
KillHolds ==
  killAcked =>
    /\ ~ResolvesCandidate(LoadCache)
    /\ \A p \in Procs : pc[p] = "run" => ~ResolvesCandidate(draft[p])

\* The control plane implements the versioned pointer with a kill switch.
PointerOf(r) == [version |-> r.version, policy |-> r.policy, mode |-> r.mode]
Ptr == INSTANCE PolicyPointer WITH pointer <- PointerOf(Pointer), killed <- dbKill
ImplementsPointer == Ptr!PtrSpec

\* A cache that a crash left ahead of the database, or that disable-all wrote
\* without the lock, is repaired by the timer once the operators are quiet.
CacheHeals == <>[](lock = NoProcess => InAgreement)

\* No command waits for ever: a refused lock is an answer, not a wait.
CommandsReturn == \A p \in Operators : pc[p] # "idle" ~> pc[p] = "idle"

-----------------------------------------------------------------------------
(* What the documentation says and the code does not do. *)

\* docs/adaptation/ADAPTATION_SEMANTICS.md:62 "Critical FAIL -> auto-disable":
\* a canary that saw its candidate fail has not returned while that
\* candidate's canary binding is still the current one.
AutoDisableTakesEffect ==
  [][\A p \in Procs :
       /\ cmd[p].phase = 2 /\ GuardrailFails(cmd[p])
       /\ pc'[p] = "idle" /\ budget'.crashes = budget.crashes
       => ~(Pointer'.mode = "CANARY" /\ Pointer'.policy = cmd[p].policy)]_vars

\* docs/adaptation/ADAPTATION_OPERATIONS.md:14: disable-all "engages the kill
\* switch file and row".
DisableAllSetsRow == killAcked => dbKill

\* docs/adaptation/ADAPTATION_ROLLBACK.md:7 and :17: after a disable no new
\* candidate unit is assigned, "zero new candidate exposures".
NoExposureAfterDisable ==
  [][(\E o \in ran' \ ran : o.selected = "CANDIDATE")
       => ~(lock = NoProcess /\ Pointer.mode = "DISABLED")]_vars
=============================================================================
