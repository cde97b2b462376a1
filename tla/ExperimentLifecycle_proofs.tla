--------------------- MODULE ExperimentLifecycle_proofs ---------------------
(***************************************************************************)
(* Proofs about ExperimentLifecycle: its type, RunsOnce,                   *)
(* StateTellsResult and OutcomesStand, for every set of operators, every   *)
(* set of pairs and every bound.                                           *)
(***************************************************************************)
EXTENDS ExperimentLifecycle, TLAPS

\* Sessions that have passed the lock, and what they hold it for.
Holding(s) ==
  \/ pc[s] \in {"check", "next", "execute", "record", "analyze", "each"}
  \/ pc[s] = "load" /\ job[s].op # "invalidate"

LockOK(s) == Holding(s) => lock = s

\* A session works on a protocol; a run that goes on has left COMPLETED.
RunOK(s) ==
  LET k == job[s].protocol
      u == job[s].unit IN
  /\ pc[s] \in {"next", "execute", "record", "analyze", "invalidate"} => k \in Protocols
  /\ pc[s] = "next" => job[s].marked \/ state[k] \notin Settled
  /\ pc[s] \in {"execute", "record"} =>
       u \in Units /\ u \in started[k] /\ seen[k][u] = "none" /\ state[k] \notin Settled
  /\ pc[s] = "execute" => executions[k][u] = 0
  /\ pc[s] = "record" => executions[k][u] = 1
  /\ pc[s] \in {"each", "analyze"} => registered # 0

\* What an analysis has read is what is observed.
ReadOK(s) == pc[s] = "analyze" => job[s].read = seen[job[s].protocol]

SessionOK(s) == LockOK(s) /\ RunOK(s) /\ ReadOK(s)

\* A unit that has not been started has not been executed.
StartedFirst ==
  \A k \in Protocols, u \in Units : u \notin started[k] => executions[k][u] = 0

\* The inductive invariant.
IInv ==
  /\ TypeOK /\ RunsOnce /\ StateTellsResult /\ StartedFirst
  /\ \A s \in Sessions : SessionOK(s)

-----------------------------------------------------------------------------
(* The analysis keeps to its types. *)

\* Conclude returns a conclusion, StateAfter a state of the lifecycle.
LEMMA AnalysisType ==
  ASSUME NEW r, NEW current \in LifecycleStates
  PROVE  Conclude(r) \in Conclusions /\ StateAfter(current, r) \in LifecycleStates
BY DEF Conclude, Conclusions, StateAfter, LifecycleStates

\* An analysis that leaves a protocol settled has said so in its result.
LEMMA SettledByAnalysis ==
  ASSUME NEW r, NEW current, StateAfter(current, r) \in Settled,
         current = "COMPLETED" => Horizon(r),
         current = "PAUSED" => Breached(r)
  PROVE  /\ StateAfter(current, r) = "COMPLETED" =>
              /\ Horizon(r) /\ ~Breached(r)
              /\ Conclude(r) \in {"INSUFFICIENT_DATA", "CONFIRMATORY"}
         /\ StateAfter(current, r) = "PAUSED" =>
              Breached(r) /\ Conclude(r) = "GUARDRAIL_FAILURE"
BY DEF StateAfter, Conclude, Settled

\* The initial states satisfy the invariant.
LEMMA InitInvariant == Init => IInv
<1> SUFFICES ASSUME Init PROVE IInv
  OBVIOUS
<1> USE BoundAssumption
<1>1. TypeOK
  <2>1. NothingSeen \in Seen
    BY DEF NothingSeen, Seen
  <2>2. 0 \in 0..MaxProtocols /\ 0 \in 0..MaxCommands /\ 0 \in 0..MaxCrashes /\ 0 \in 0..MaxBusy
    OBVIOUS
  <2>3. NoJob \in Jobs
    BY <2>1, <2>2 DEF NoJob, Jobs, Ops
  <2>4. result \in [Protocols -> Results]
    BY <2>1 DEF Init, Results, Conclusions
  <2>5. executions \in [Protocols -> [Units -> Nat]]
    BY DEF Init
  <2> QED
    BY <2>1, <2>2, <2>3, <2>4, <2>5 DEF Init, TypeOK, LifecycleStates, Steps
<1>2. RunsOnce /\ StateTellsResult /\ StartedFirst
  BY DEF Init, RunsOnce, StateTellsResult, Settled, StartedFirst, NothingSeen
<1>3. \A s \in Sessions : SessionOK(s)
  BY DEF Init, SessionOK, LockOK, Holding, RunOK, ReadOK
<1> QED
  BY <1>1, <1>2, <1>3 DEF IInv

-----------------------------------------------------------------------------
(* Steps that change no table. *)

\* What a session's own part of the invariant reads of the others' state.
tablesRead == <<state, started, seen, executions>>

\* A session that does not move, while the tables and its lock stay, is fine.
LEMMA Frame ==
  ASSUME NEW q, SessionOK(q), pc'[q] = pc[q], job'[q] = job[q],
         UNCHANGED tablesRead, registered # 0 => registered' # 0, lock = q => lock' = q
  PROVE  SessionOK(q)'
BY DEF SessionOK, LockOK, Holding, RunOK, ReadOK, tablesRead

\* Closing a session leaves the others as they are.
LEMMA CloseType ==
  ASSUME TypeOK, NEW s \in Sessions, Close(s)
  PROVE  /\ pc' \in [Sessions -> Steps] /\ job' \in [Sessions -> Jobs]
         /\ lock' \in Sessions \union {NoSession}
         /\ SessionOK(s)'
         /\ \A q \in Sessions \ {s} :
              pc'[q] = pc[q] /\ job'[q] = job[q] /\ (lock = q => lock' = q)
<1>1. NoJob \in Jobs
  <2>1. NothingSeen \in Seen
    BY DEF NothingSeen, Seen
  <2>2. 0 \in 0..MaxProtocols
    BY BoundAssumption
  <2> QED
    BY <2>1, <2>2 DEF NoJob, Jobs, Ops
<1>2. pc'[s] = "idle"
  BY DEF Close, Goto, TypeOK
<1> QED
  BY <1>1, <1>2 DEF Close, Goto, TypeOK, Steps, SessionOK, LockOK, Holding, RunOK, ReadOK

\* Ending a command that has written nothing.
LEMMA CloseKeeps ==
  ASSUME IInv, NEW s \in Sessions, Close(s), UNCHANGED <<tables, executions>>,
         lowerBusy' \in BOOLEAN,
         budget' \in [commands: 0..MaxCommands, crashes: 0..MaxCrashes, busy: 0..MaxBusy]
  PROVE  IInv'
<1>1. \A q \in Sessions : SessionOK(q)'
  BY CloseType, Frame DEF IInv, tables, tablesRead
<1>2. TypeOK'
  BY CloseType DEF IInv, TypeOK, tables
<1>3. RunsOnce' /\ StateTellsResult' /\ StartedFirst'
  BY DEF IInv, RunsOnce, StateTellsResult, StartedFirst, tables
<1> QED
  BY <1>1, <1>2, <1>3 DEF IInv

\* A session moves, and writes no table.
LEMMA MoveKeeps ==
  ASSUME IInv, NEW s \in Sessions, UNCHANGED <<tables, executions>>,
         pc' \in [Sessions -> Steps], job' \in [Sessions -> Jobs],
         \A q \in Sessions \ {s} : pc'[q] = pc[q] /\ job'[q] = job[q],
         lock' \in Sessions \union {NoSession}, \A q \in Sessions \ {s} : lock = q => lock' = q,
         lowerBusy' \in BOOLEAN,
         budget' \in [commands: 0..MaxCommands, crashes: 0..MaxCrashes, busy: 0..MaxBusy],
         SessionOK(s)'
  PROVE  IInv'
<1>1. \A q \in Sessions : SessionOK(q)'
  BY Frame DEF IInv, tables, tablesRead
<1>2. TypeOK'
  BY DEF IInv, TypeOK, tables
<1>3. RunsOnce' /\ StateTellsResult' /\ StartedFirst'
  BY DEF IInv, RunsOnce, StateTellsResult, StartedFirst, tables
<1> QED
  BY <1>1, <1>2, <1>3 DEF IInv

\* Starting a command, on its own or by the timer.
LEMMA StartKeeps ==
  ASSUME IInv, NEW s \in Sessions, Start(s) \/ (s = Timer /\ Wake)
  PROVE  IInv'
<1> USE DEF IInv, TypeOK
<1>1. PICK op \in Ops : /\ job' = [job EXCEPT ![s].op = op]
                        /\ pc' = [pc EXCEPT ![s] = IF op = "invalidate" THEN "load" ELSE "lock"]
  BY DEF Start, Wake, Goto, Ops
<1>2. job' \in [Sessions -> Jobs]
  <2>1. \A j \in Jobs : [j EXCEPT !.op = op] \in Jobs
    BY DEF Jobs
  <2> QED
    BY <1>1, <2>1
<1>3. budget' \in [commands: 0..MaxCommands, crashes: 0..MaxCrashes, busy: 0..MaxBusy]
  <2>1. CASE Start(s)
    BY <2>1, BoundAssumption DEF Start
  <2>2. CASE Wake
    BY <2>2 DEF Wake
  <2> QED
    BY <2>1, <2>2
<1>4. SessionOK(s)'
  BY <1>1 DEF SessionOK, LockOK, Holding, RunOK, ReadOK
<1>5. UNCHANGED <<tables, executions, lock, lowerBusy>>
  BY DEF Start, Wake
<1>6. pc' \in [Sessions -> Steps]
  BY <1>1 DEF Steps
<1> QED
  BY <1>1, <1>2, <1>3, <1>4, <1>5, <1>6, MoveKeeps

\* Trying the lock: only one session comes out of it as the holder.
LEMMA LockingKeeps ==
  ASSUME IInv, NEW s \in Sessions, Locking(s)
  PROVE  IInv'
<1> USE DEF IInv, TypeOK
<1>1. CASE TryLock(s)
  <2>1. CASE lock # NoSession
    BY <1>1, <2>1, CloseKeeps DEF TryLock
  <2>2. CASE lock = NoSession
    <3>1. /\ lock' = s /\ pc' = [pc EXCEPT ![s] = "check"] /\ UNCHANGED job
          /\ UNCHANGED <<tables, executions, lowerBusy, budget>>
      BY <1>1, <2>2 DEF TryLock, Goto
    <3>2. SessionOK(s)'
      BY <3>1 DEF SessionOK, LockOK, Holding, RunOK, ReadOK
    <3>3. \A q \in Sessions \ {s} : lock = q => lock' = q
      BY <2>2, SessionAssumption
    <3> QED
      BY <3>1, <3>2, <3>3, MoveKeeps DEF Steps
  <2> QED
    BY <2>1, <2>2
<1>2. CASE CheckLower(s)
  <2>1. CASE lowerBusy
    BY <1>2, <2>1, CloseKeeps DEF CheckLower
  <2>2. CASE ~lowerBusy
    <3>1. /\ pc[s] = "check" /\ pc' = [pc EXCEPT ![s] = "load"]
          /\ UNCHANGED <<job, lock, tables, executions, lowerBusy, budget>>
      BY <1>2, <2>2 DEF CheckLower, Goto
    <3>2. SessionOK(s)'
      BY <3>1 DEF SessionOK, LockOK, Holding, RunOK, ReadOK
    <3> QED
      BY <3>1, <3>2, MoveKeeps DEF Steps
  <2> QED
    BY <2>1, <2>2
<1>3. CASE NotFound(s)
  BY <1>3, CloseKeeps DEF NotFound
<1> QED
  BY <1>1, <1>2, <1>3 DEF Locking

\* Reading the latest protocol, or the list of protocols, writes nothing.
LEMMA LoadKeeps ==
  ASSUME IInv, NEW s \in Sessions,
         \/ MarkRunning(s) \/ LoadForAnalysis(s) \/ ListProtocols(s)
         \/ NextProtocol(s) \/ LoadForInvalidate(s)
  PROVE  IInv'
<1> USE DEF IInv, TypeOK
<1>0. /\ UNCHANGED <<tables, executions, lock, lowerBusy, budget>>
      /\ \A q \in Sessions \ {s} : pc'[q] = pc[q] /\ job'[q] = job[q]
  BY DEF MarkRunning, LoadForAnalysis, ListProtocols, NextProtocol, LoadForInvalidate, Goto
<1>1. registered > 0 => registered \in Protocols
  BY BoundAssumption DEF Protocols
<1>2. CASE MarkRunning(s)
  <2>1. /\ pc[s] = "load" /\ job[s].op = "run-fixture" /\ registered > 0
        /\ pc' = [pc EXCEPT ![s] = "next"]
        /\ job' = [job EXCEPT ![s].protocol = registered, ![s].marked = TRUE]
    BY <1>2 DEF MarkRunning, At, Goto
  <2>2. \A j \in Jobs : [j EXCEPT !.protocol = registered, !.marked = TRUE] \in Jobs
    BY DEF Jobs
  <2>3. job' \in [Sessions -> Jobs] /\ job'[s].protocol = registered /\ job'[s].marked = TRUE
    BY <2>1, <2>2 DEF Jobs
  <2>4. SessionOK(s)'
    BY <1>0, <1>1, <2>1, <2>3 DEF SessionOK, LockOK, Holding, RunOK, ReadOK
  <2> QED
    BY <1>0, <2>1, <2>3, <2>4, MoveKeeps DEF Steps
<1>3. CASE LoadForAnalysis(s) \/ NextProtocol(s)
  <2>1. /\ (pc[s] = "load" /\ job[s].op # "invalidate") \/ pc[s] = "each"
        /\ pc' = [pc EXCEPT ![s] = "analyze"]
    BY <1>3 DEF LoadForAnalysis, NextProtocol, Goto
  <2>2. PICK todo \in SUBSET Protocols :
          job' = [job EXCEPT ![s].todo = todo, ![s].protocol = registered,
                             ![s].read = seen[registered]]
    <3>1. CASE LoadForAnalysis(s)
      <4>1. job' = [job EXCEPT ![s].todo = job[s].todo, ![s].protocol = registered,
                               ![s].read = seen[registered]]
        BY <3>1 DEF LoadForAnalysis, Jobs
      <4> QED
        BY <4>1 DEF Jobs
    <3>2. CASE NextProtocol(s)
      <4>1. PICK k \in job[s].todo :
              job' = [job EXCEPT ![s].todo = @ \ {k}, ![s].protocol = registered,
                                 ![s].read = seen[registered]]
        BY <3>2 DEF NextProtocol
      <4>2. job[s].todo \ {k} \in SUBSET Protocols
        BY DEF Jobs
      <4> QED
        BY <4>1, <4>2 DEF Jobs
    <3> QED
      BY <1>3, <3>1, <3>2
  <2>3. registered > 0
    <3>1. CASE LoadForAnalysis(s)
      BY <3>1 DEF LoadForAnalysis
    <3>2. CASE NextProtocol(s)
      <4>1. pc[s] = "each" /\ SessionOK(s)
        BY <3>2 DEF NextProtocol
      <4> QED
        BY <4>1, BoundAssumption DEF SessionOK, RunOK
    <3> QED
      BY <1>3, <3>1, <3>2
  <2>4. \A j \in Jobs : [j EXCEPT !.todo = todo, !.protocol = registered,
                                  !.read = seen[registered]] \in Jobs
    BY <1>1, <2>3 DEF Jobs
  <2>5. /\ job' \in [Sessions -> Jobs] /\ job'[s].protocol = registered
        /\ job'[s].read = seen[registered]
    BY <2>2, <2>4 DEF Jobs
  <2>6. SessionOK(s)'
    BY <1>0, <1>1, <2>1, <2>3, <2>5 DEF SessionOK, LockOK, Holding, RunOK, ReadOK, tables
  <2> QED
    BY <1>0, <2>1, <2>5, <2>6, MoveKeeps DEF Steps
<1>4. CASE ListProtocols(s)
  <2>1. PICK todo \in SUBSET Protocols : job' = [job EXCEPT ![s].todo = todo]
    BY <1>4 DEF ListProtocols
  <2>2. /\ pc[s] = "load" /\ job[s].op # "invalidate" /\ registered > 0
        /\ pc' = [pc EXCEPT ![s] = "each"]
    BY <1>4 DEF ListProtocols, Materializing, Goto
  <2>3. \A j \in Jobs : [j EXCEPT !.todo = todo] \in Jobs
    BY DEF Jobs
  <2>4. job' \in [Sessions -> Jobs]
    BY <2>1, <2>3
  <2>5. SessionOK(s)'
    BY <1>0, <2>2 DEF SessionOK, LockOK, Holding, RunOK, ReadOK, tables
  <2> QED
    BY <1>0, <2>2, <2>4, <2>5, MoveKeeps DEF Steps
<1>5. CASE LoadForInvalidate(s)
  <2>1. /\ registered > 0 /\ pc' = [pc EXCEPT ![s] = "invalidate"]
        /\ job' = [job EXCEPT ![s].protocol = registered]
    BY <1>5 DEF LoadForInvalidate, Goto
  <2>2. \A j \in Jobs : [j EXCEPT !.protocol = registered] \in Jobs
    BY DEF Jobs
  <2>3. job' \in [Sessions -> Jobs] /\ job'[s].protocol = registered
    BY <2>1, <2>2 DEF Jobs
  <2>4. SessionOK(s)'
    BY <1>1, <2>1, <2>3 DEF SessionOK, LockOK, Holding, RunOK, ReadOK
  <2> QED
    BY <1>0, <2>1, <2>3, <2>4, MoveKeeps DEF Steps
<1> QED
  BY <1>2, <1>3, <1>4, <1>5

-----------------------------------------------------------------------------
(* Steps that write. *)

\* The locked session is alone: nobody else executes or analyses anything.
LEMMA Alone ==
  ASSUME IInv, NEW s \in Sessions, Holding(s), NEW q \in Sessions, q # s
  PROVE  ~Holding(q)
BY SessionAssumption DEF IInv, SessionOK, LockOK

\* A session that does not hold the lock looks at no table.
LEMMA Idle ==
  ASSUME NEW q, SessionOK(q), ~Holding(q), pc'[q] = pc[q], job'[q] = job[q]
  PROVE  SessionOK(q)'
BY DEF SessionOK, LockOK, Holding, RunOK, ReadOK

\* Freezing a version and assigning its units.
LEMMA PlanningKeeps ==
  ASSUME IInv, NEW s \in Sessions, Planning(s)
  PROVE  IInv'
<1> USE DEF IInv, TypeOK
<1>0. /\ Holding(s) /\ Close(s)
      /\ UNCHANGED <<started, seen, result, amended, executions, lowerBusy, budget>>
  BY DEF Planning, Preregister, Assign, At, Holding
<1>1. \A q \in Sessions : SessionOK(q)'
  BY <1>0, CloseType, Alone, Idle
<1>2. /\ registered' \in 0..MaxProtocols /\ assigned' \subseteq Protocols
      /\ state' \in [Protocols -> LifecycleStates]
      /\ \A k \in Protocols : state'[k] \in Settled => state'[k] = state[k]
  <2>1. CASE Preregister(s)
    <3>1. assigned' = assigned
      BY <2>1 DEF Preregister
    <3>2. CASE UNCHANGED <<registered, state>>
      BY <3>1, <3>2
    <3>3. CASE /\ registered < MaxProtocols /\ registered' = registered + 1
               /\ state' = [state EXCEPT ![registered + 1] = "PRE_REGISTERED"]
      BY <3>1, <3>3, BoundAssumption DEF LifecycleStates, Protocols, Settled
    <3> QED
      BY <2>1, <3>2, <3>3 DEF Preregister
  <2>2. CASE Assign(s)
    <3>1. registered \in Protocols /\ registered' = registered
      BY <2>2, BoundAssumption DEF Assign, Protocols
    <3>2. CASE registered \in assigned
      BY <2>2, <3>1, <3>2 DEF Assign
    <3>3. CASE registered \notin assigned
      <4>1. /\ assigned' = assigned \union {registered}
            /\ state' = [state EXCEPT ![registered] =
                           IF state[registered] = "PRE_REGISTERED" THEN "READY"
                           ELSE state[registered]]
        BY <2>2, <3>3 DEF Assign
      <4> QED
        BY <3>1, <4>1 DEF LifecycleStates, Settled
    <3> QED
      BY <3>2, <3>3
  <2> QED
    BY <2>1, <2>2 DEF Planning
<1>3. TypeOK'
  BY <1>0, <1>2, CloseType
<1>4. RunsOnce' /\ StateTellsResult' /\ StartedFirst'
  BY <1>0, <1>2 DEF RunsOnce, StateTellsResult, StartedFirst
<1> QED
  BY <1>1, <1>3, <1>4

\* Committing the start of a unit.
LEMMA BeginKeeps ==
  ASSUME IInv, NEW s \in Sessions, BeginUnit(s)
  PROVE  IInv'
<1> USE DEF IInv, TypeOK
<1> DEFINE k == job[s].protocol
<1>1. PICK u \in Unstarted(k) :
        /\ started' = [started EXCEPT ![k] = @ \union {u}]
        /\ state' = IF job[s].marked THEN [state EXCEPT ![k] = "RUNNING"] ELSE state
        /\ job' = [job EXCEPT ![s].unit = u, ![s].marked = FALSE]
  BY DEF BeginUnit
<1>2. /\ pc[s] = "next" /\ pc' = [pc EXCEPT ![s] = "execute"]
      /\ UNCHANGED <<registered, assigned, seen, result, amended, executions,
                     lock, lowerBusy, budget>>
  BY DEF BeginUnit, Goto
<1>3. k \in Protocols /\ u \in Units /\ u \notin started[k]
  BY <1>1, <1>2 DEF SessionOK, RunOK, Unstarted
<1>4. job' \in [Sessions -> Jobs] /\ job'[s].protocol = k /\ job'[s].unit = u
  <2>1. \A j \in Jobs : [j EXCEPT !.unit = u, !.marked = FALSE] \in Jobs
    BY <1>3 DEF Jobs
  <2> QED
    BY <1>1, <2>1 DEF Jobs
<1>5. /\ state' \in [Protocols -> LifecycleStates] /\ state'[k] \notin Settled
      /\ \A i \in Protocols : state'[i] \in Settled => state'[i] = state[i]
  BY <1>1, <1>2, <1>3 DEF LifecycleStates, Settled, SessionOK, RunOK
<1>6. /\ started' \in [Protocols -> SUBSET Units] /\ u \in started'[k]
      /\ \A i \in Protocols : started[i] \subseteq started'[i]
  BY <1>1, <1>3
<1>7. executions[k][u] = 0 /\ seen[k][u] = "none"
  BY <1>3 DEF StartedFirst, RunsOnce
<1>8. SessionOK(s)'
  BY <1>2, <1>3, <1>4, <1>5, <1>6, <1>7 DEF SessionOK, LockOK, Holding, RunOK, ReadOK
<1>9. \A q \in Sessions : SessionOK(q)'
  <2>1. \A q \in Sessions \ {s} : ~Holding(q) /\ pc'[q] = pc[q] /\ job'[q] = job[q]
    BY <1>1, <1>2, Alone DEF Holding
  <2> QED
    BY <1>8, <2>1, Idle
<1>10. TypeOK'
  BY <1>2, <1>4, <1>5, <1>6 DEF Steps
<1>11. RunsOnce' /\ StateTellsResult' /\ StartedFirst'
  BY <1>2, <1>5, <1>6 DEF RunsOnce, StateTellsResult, StartedFirst
<1> QED
  BY <1>9, <1>10, <1>11

\* Executing a unit, which its start has made the only time.
LEMMA ExecuteKeeps ==
  ASSUME IInv, NEW s \in Sessions, ExecuteUnit(s)
  PROVE  IInv'
<1> USE DEF IInv, TypeOK
<1> DEFINE k == job[s].protocol
           u == job[s].unit
<1>1. /\ pc[s] = "execute" /\ pc' = [pc EXCEPT ![s] = "record"]
      /\ executions' = [executions EXCEPT ![k][u] = executions[k][u] + 1]
      /\ UNCHANGED <<tables, lock, lowerBusy, job, budget>>
  BY DEF ExecuteUnit, Goto
<1>2. /\ k \in Protocols /\ u \in Units /\ u \in started[k]
      /\ seen[k][u] = "none" /\ executions[k][u] = 0
  BY <1>1 DEF SessionOK, RunOK
<1>3. /\ executions' \in [Protocols -> [Units -> Nat]] /\ executions'[k][u] = 1
      /\ \A i \in Protocols, w \in Units :
           i # k \/ w # u => executions'[i][w] = executions[i][w]
  <2>1. /\ \A i \in Protocols : i # k => executions'[i] = executions[i]
        /\ executions'[k] = [executions[k] EXCEPT ![u] = 1]
    BY <1>1, <1>2
  <2>2. executions[k] \in [Units -> Nat]
    BY <1>2
  <2>3. executions'[k] \in [Units -> Nat] /\ executions'[k][u] = 1
    BY <1>2, <2>1, <2>2
  <2> QED
    BY <1>1, <1>2, <2>1, <2>2, <2>3
<1>4. SessionOK(s)'
  BY <1>1, <1>2, <1>3 DEF SessionOK, LockOK, Holding, RunOK, ReadOK, tables
<1>5. \A q \in Sessions : SessionOK(q)'
  <2>1. \A q \in Sessions \ {s} : ~Holding(q) /\ pc'[q] = pc[q] /\ job'[q] = job[q]
    BY <1>1, Alone DEF Holding
  <2> QED
    BY <1>4, <2>1, Idle
<1>6. TypeOK'
  BY <1>1, <1>3 DEF Steps, tables
<1>7. RunsOnce' /\ StateTellsResult' /\ StartedFirst'
  BY <1>1, <1>2, <1>3 DEF RunsOnce, StateTellsResult, StartedFirst, tables
<1> QED
  BY <1>5, <1>6, <1>7

\* Recording an outcome where there was none, on a protocol that is running.
LEMMA RecordKeeps ==
  ASSUME IInv, NEW s \in Sessions, RecordUnit(s)
  PROVE  /\ IInv'
         /\ \A i \in Protocols, w \in Units :
              seen[i][w] # "none" => seen'[i][w] = seen[i][w]
<1> USE DEF IInv, TypeOK
<1> DEFINE k == job[s].protocol
           u == job[s].unit
<1>1. PICK outcome \in Outcomes :
        seen' = [seen EXCEPT ![k] = [@ EXCEPT ![u] = outcome]]
  BY DEF RecordUnit
<1>2. /\ pc[s] = "record" /\ pc' = [pc EXCEPT ![s] = "next"]
      /\ job' = [job EXCEPT ![s].unit = 0]
      /\ UNCHANGED <<registered, state, assigned, started, result, amended,
                     executions, lock, lowerBusy, budget>>
  BY DEF RecordUnit, Goto
<1>3. /\ k \in Protocols /\ u \in Units /\ seen[k][u] = "none"
      /\ executions[k][u] = 1 /\ state[k] \notin Settled
  BY <1>2 DEF SessionOK, RunOK
<1>4. /\ seen' \in [Protocols -> Seen]
      /\ \A i \in Protocols : i # k => seen'[i] = seen[i]
      /\ \A w \in Units : w # u => seen'[k][w] = seen[k][w]
  BY <1>1, <1>3 DEF Seen
<1>5. job' \in [Sessions -> Jobs] /\ job'[s].protocol = k
  <2>1. \A j \in Jobs : [j EXCEPT !.unit = 0] \in Jobs
    BY DEF Jobs
  <2> QED
    BY <1>2, <2>1 DEF Jobs
<1>6. SessionOK(s)'
  BY <1>2, <1>3, <1>5 DEF SessionOK, LockOK, Holding, RunOK, ReadOK
<1>7. \A q \in Sessions : SessionOK(q)'
  <2>1. \A q \in Sessions \ {s} : ~Holding(q) /\ pc'[q] = pc[q] /\ job'[q] = job[q]
    BY <1>2, Alone DEF Holding
  <2> QED
    BY <1>6, <2>1, Idle
<1>8. TypeOK'
  BY <1>2, <1>4, <1>5 DEF Steps
<1>9. RunsOnce'
  <2>1. \A i \in Protocols, w \in Units :
          (i = k /\ w = u) \/ seen'[i][w] = seen[i][w]
    BY <1>4
  <2> QED
    BY <1>2, <1>3, <2>1 DEF RunsOnce
<1>10. StartedFirst'
  BY <1>2 DEF StartedFirst
<1>11. StateTellsResult'
  BY <1>2, <1>3, <1>4 DEF StateTellsResult
<1> QED
  BY <1>3, <1>4, <1>7, <1>8, <1>9, <1>10, <1>11

\* An analysis draws its result from all that is observed now.
LEMMA AnalyzeKeeps ==
  ASSUME IInv, NEW s \in Sessions, Analyze(s)
  PROVE  IInv'
<1> USE DEF IInv, TypeOK
<1> DEFINE k == job[s].protocol
           r == job[s].read
<1>1. /\ pc[s] = "analyze" /\ Holding(s)
      /\ UNCHANGED <<registered, assigned, started, seen, amended, executions,
                     lowerBusy, budget>>
      /\ \/ UNCHANGED <<result, state>>
         \/ /\ result' = [result EXCEPT ![k] = [conclusion |-> Conclude(r), seen |-> r]]
            /\ state' = [state EXCEPT ![k] = StateAfter(state[k], r)]
      /\ \/ pc' = [pc EXCEPT ![s] = "each"] /\ UNCHANGED <<job, lock>>
         \/ Close(s)
  BY DEF Analyze, Goto, Holding
<1>2. k \in Protocols /\ r = seen[k] /\ r \in Seen /\ registered # 0
  BY <1>1 DEF SessionOK, RunOK, ReadOK
<1>3. result' \in [Protocols -> Results] /\ state' \in [Protocols -> LifecycleStates]
  <2>1. Conclude(r) \in Conclusions /\ StateAfter(state[k], r) \in LifecycleStates
    BY <1>2, AnalysisType
  <2>2. [conclusion |-> Conclude(r), seen |-> r] \in Results
    BY <1>2, <2>1 DEF Results
  <2>3. \/ UNCHANGED <<result, state>>
        \/ /\ result' = [result EXCEPT ![k] = [conclusion |-> Conclude(r), seen |-> r]]
           /\ state' = [state EXCEPT ![k] = StateAfter(state[k], r)]
    BY <1>1
  <2> HIDE DEF k, r
  <2> QED
    BY <1>2, <2>1, <2>2, <2>3
<1>4. /\ pc' \in [Sessions -> Steps] /\ job' \in [Sessions -> Jobs]
      /\ lock' \in Sessions \union {NoSession} /\ SessionOK(s)'
      /\ \A q \in Sessions \ {s} : pc'[q] = pc[q] /\ job'[q] = job[q]
  <2>1. CASE pc' = [pc EXCEPT ![s] = "each"] /\ UNCHANGED <<job, lock>>
    BY <1>1, <1>2, <2>1 DEF Steps, SessionOK, LockOK, Holding, RunOK, ReadOK
  <2>2. CASE Close(s)
    BY <2>2, CloseType
  <2> QED
    BY <1>1, <2>1, <2>2
<1>5. \A q \in Sessions : SessionOK(q)'
  BY <1>1, <1>4, Alone, Idle
<1>6. TypeOK'
  BY <1>1, <1>3, <1>4
<1>7. RunsOnce' /\ StartedFirst'
  BY <1>1 DEF RunsOnce, StartedFirst
<1>8. StateTellsResult'
  <2>1. CASE UNCHANGED <<result, state>>
    BY <1>1, <2>1 DEF StateTellsResult
  <2>2. CASE /\ result' = [result EXCEPT ![k] = [conclusion |-> Conclude(r), seen |-> r]]
             /\ state' = [state EXCEPT ![k] = StateAfter(state[k], r)]
    <3> SUFFICES ASSUME NEW i \in Protocols, state'[i] \in Settled
                 PROVE  /\ result'[i].seen = seen[i]
                        /\ state'[i] = "COMPLETED" =>
                             /\ Horizon(seen[i]) /\ ~Breached(seen[i])
                             /\ result'[i].conclusion \in {"INSUFFICIENT_DATA", "CONFIRMATORY"}
                        /\ state'[i] = "PAUSED" =>
                             /\ Breached(seen[i])
                             /\ result'[i].conclusion = "GUARDRAIL_FAILURE"
      BY <1>1 DEF StateTellsResult
    <3>1. CASE i # k
      BY <2>2, <3>1 DEF StateTellsResult
    <3>2. CASE i = k
      <4>1. /\ state'[k] = StateAfter(state[k], r) /\ result'[k].seen = r
            /\ result'[k].conclusion = Conclude(r)
        BY <1>2, <2>2
      <4>2. /\ state[k] = "COMPLETED" => Horizon(r)
            /\ state[k] = "PAUSED" => Breached(r)
        BY <1>2 DEF StateTellsResult, Settled
      <4> QED
        BY <1>2, <3>2, <4>1, <4>2, SettledByAnalysis
    <3> QED
      BY <3>1, <3>2
  <2> QED
    BY <1>1, <2>1, <2>2
<1> QED
  BY <1>5, <1>6, <1>7, <1>8

\* Invalidation needs no lock, and yet disturbs nobody's part of the
\* invariant: it takes a protocol out of COMPLETED, never into it.
LEMMA InvalidateKeeps ==
  ASSUME IInv, NEW s \in Sessions, InvalidateRow(s)
  PROVE  IInv'
<1> USE DEF IInv, TypeOK
<1> DEFINE k == job[s].protocol
<1>1. /\ pc[s] = "invalidate" /\ Close(s)
      /\ state' = [state EXCEPT ![k] = "INVALIDATED"]
      /\ amended' \in {amended, amended \union {k}}
      /\ UNCHANGED <<registered, assigned, started, seen, result, executions,
                     lowerBusy, budget>>
  BY DEF InvalidateRow
<1>2. k \in Protocols
  BY <1>1 DEF SessionOK, RunOK
<1>3. /\ state' \in [Protocols -> LifecycleStates] /\ amended' \subseteq Protocols
      /\ \A i \in Protocols : state'[i] \in Settled => state'[i] = state[i]
  BY <1>1, <1>2 DEF LifecycleStates, Settled
<1>4. \A q \in Sessions : SessionOK(q)'
  <2>1. SessionOK(s)' /\ \A q \in Sessions \ {s} :
          pc'[q] = pc[q] /\ job'[q] = job[q] /\ (lock = q => lock' = q)
    BY <1>1, CloseType
  <2>2. ASSUME NEW q \in Sessions \ {s}
        PROVE  SessionOK(q)'
    <3>1. SessionOK(q) /\ (LockOK(q))' /\ (ReadOK(q))'
      BY <1>1, <2>1 DEF SessionOK, LockOK, Holding, ReadOK
    <3>2. RunOK(q)'
      BY <1>1, <1>3, <2>1, <3>1 DEF SessionOK, RunOK
    <3> QED
      BY <3>1, <3>2 DEF SessionOK
  <2> QED
    BY <2>1, <2>2
<1>5. TypeOK'
  BY <1>1, <1>3, CloseType
<1>6. RunsOnce' /\ StateTellsResult' /\ StartedFirst'
  BY <1>1, <1>3 DEF RunsOnce, StateTellsResult, StartedFirst
<1> QED
  BY <1>4, <1>5, <1>6

\* A crash closes a session, a lower layer comes and goes.
LEMMA EnvironmentKeeps ==
  ASSUME IInv, (\E s \in Sessions : Crash(s)) \/ LowerStarts \/ LowerEnds
  PROVE  IInv'
<1>1. CASE \E s \in Sessions : Crash(s)
  <2>1. PICK s \in Sessions : Crash(s)
    BY <1>1
  <2>2. budget' \in [commands: 0..MaxCommands, crashes: 0..MaxCrashes, busy: 0..MaxBusy]
    BY <2>1, BoundAssumption DEF Crash, IInv, TypeOK
  <2>3. Close(s) /\ UNCHANGED <<tables, executions>> /\ lowerBusy' \in BOOLEAN
    BY <2>1 DEF Crash, IInv, TypeOK
  <2> QED
    BY <2>2, <2>3, CloseKeeps
<1>2. CASE LowerStarts \/ LowerEnds
  <2>1. budget' \in [commands: 0..MaxCommands, crashes: 0..MaxCrashes, busy: 0..MaxBusy]
    BY <1>2, BoundAssumption DEF LowerStarts, LowerEnds, IInv, TypeOK
  <2>2. lowerBusy' \in BOOLEAN /\ UNCHANGED <<tables, executions, lock, pc, job>>
    BY <1>2 DEF LowerStarts, LowerEnds
  <2>3. \A q \in Sessions : SessionOK(q)'
    BY <2>2, Frame DEF IInv, tables, tablesRead
  <2>4. TypeOK'
    BY <2>1, <2>2 DEF IInv, TypeOK, tables
  <2>5. RunsOnce' /\ StateTellsResult' /\ StartedFirst'
    BY <2>2 DEF IInv, RunsOnce, StateTellsResult, StartedFirst, tables
  <2> QED
    BY <2>3, <2>4, <2>5 DEF IInv
<1> QED
  BY <1>1, <1>2

\* Ending a run or a materialization writes nothing.
LEMMA FinishKeeps ==
  ASSUME IInv, NEW s \in Sessions, FinishRun(s) \/ FinishMaterialize(s)
  PROVE  IInv'
BY CloseKeeps DEF FinishRun, FinishMaterialize, IInv, TypeOK

-----------------------------------------------------------------------------
(* Every step keeps the invariant, and every outcome. *)

\* The property of one step that OutcomesStand is about.
Stands == \A k \in Protocols, u \in Units :
            seen[k][u] # "none" => seen'[k][u] = seen[k][u]

LEMMA StepKeeps == IInv /\ [Next]_vars => IInv' /\ Stands
<1> SUFFICES ASSUME IInv, [Next]_vars PROVE IInv' /\ Stands
  OBVIOUS
<1>1. CASE UNCHANGED vars
  <2>1. \A s \in Sessions : SessionOK(s)'
    BY <1>1, Frame DEF IInv, vars, tables, tablesRead
  <2>2. TypeOK' /\ RunsOnce' /\ StateTellsResult' /\ StartedFirst' /\ Stands
    BY <1>1 DEF IInv, vars, tables, TypeOK, RunsOnce, StateTellsResult, StartedFirst, Stands
  <2> QED
    BY <2>1, <2>2 DEF IInv
<1>2. CASE Wake
  <2>1. Timer \in Sessions
    BY DEF Sessions
  <2> QED
    BY <1>2, <2>1, StartKeeps DEF Wake, tables, Stands
<1>3. CASE LowerStarts \/ LowerEnds
  BY <1>3, EnvironmentKeeps DEF LowerStarts, LowerEnds, tables, Stands
<1>4. ASSUME NEW s \in Sessions, Start(s) \/ Step(s) \/ Crash(s)
      PROVE  IInv' /\ Stands
  <2>1. CASE Start(s)
    BY <2>1, StartKeeps DEF Start, tables, Stands
  <2>2. CASE Locking(s)
    BY <2>2, LockingKeeps DEF Locking, TryLock, CheckLower, NotFound, tables, Stands
  <2>3. CASE Planning(s)
    BY <2>3, PlanningKeeps DEF Planning, Preregister, Assign, Stands
  <2>4. CASE Running(s)
    <3>1. CASE MarkRunning(s)
      BY <3>1, LoadKeeps DEF MarkRunning, tables, Stands
    <3>2. CASE BeginUnit(s)
      BY <3>2, BeginKeeps DEF BeginUnit, Stands
    <3>3. CASE FinishRun(s)
      BY <3>3, FinishKeeps DEF FinishRun, tables, Stands
    <3>4. CASE ExecuteUnit(s)
      BY <3>4, ExecuteKeeps DEF ExecuteUnit, tables, Stands
    <3>5. CASE RecordUnit(s)
      BY <3>5, RecordKeeps DEF Stands
    <3> QED
      BY <2>4, <3>1, <3>2, <3>3, <3>4, <3>5 DEF Running
  <2>5. CASE Analysing(s)
    <3>1. CASE LoadForAnalysis(s) \/ ListProtocols(s) \/ NextProtocol(s)
      BY <3>1, LoadKeeps DEF LoadForAnalysis, ListProtocols, NextProtocol, tables, Stands
    <3>2. CASE FinishMaterialize(s)
      BY <3>2, FinishKeeps DEF FinishMaterialize, tables, Stands
    <3>3. CASE Analyze(s)
      BY <3>3, AnalyzeKeeps DEF Analyze, Stands
    <3> QED
      BY <2>5, <3>1, <3>2, <3>3 DEF Analysing
  <2>6. CASE Invalidating(s)
    <3>1. CASE LoadForInvalidate(s)
      BY <3>1, LoadKeeps DEF LoadForInvalidate, tables, Stands
    <3>2. CASE InvalidateRow(s)
      BY <3>2, InvalidateKeeps DEF InvalidateRow, Stands
    <3> QED
      BY <2>6, <3>1, <3>2 DEF Invalidating
  <2>7. CASE Crash(s)
    BY <2>7, EnvironmentKeeps DEF Crash, tables, Stands
  <2> QED
    BY <1>4, <2>1, <2>2, <2>3, <2>4, <2>5, <2>6, <2>7 DEF Step
<1> QED
  BY <1>1, <1>2, <1>3, <1>4 DEF Next

\* persist.py: for any operators, pairs and bounds the invariant holds always.
THEOREM Invariance == Spec => []IInv
<1>1. Init => IInv
  BY InitInvariant
<1>2. IInv /\ [Next]_vars => IInv'
  BY StepKeeps
<1> QED
  BY <1>1, <1>2, PTL DEF Spec

\* Every variable keeps its type.
THEOREM TypeCorrect == Spec => []TypeOK
<1>1. IInv => TypeOK
  BY DEF IInv
<1> QED
  BY <1>1, Invariance, PTL

\* run_fixture: no unit is executed twice, whatever crashes and repetitions.
THEOREM RunsOnceHolds == Spec => []RunsOnce
<1>1. IInv => RunsOnce
  BY DEF IInv
<1> QED
  BY <1>1, Invariance, PTL

\* analyze_experiment: the current result of a COMPLETED or PAUSED protocol is
\* drawn from everything observed and says why it is in that state.
THEOREM StateTellsResultHolds == Spec => []StateTellsResult
<1>1. IInv => StateTellsResult
  BY DEF IInv
<1> QED
  BY <1>1, Invariance, PTL

\* ON CONFLICT DO UPDATE never has a conflict: outcomes are append-only.
THEOREM OutcomesStandHolds == Spec => OutcomesStand
<1>1. IInv /\ [Next]_vars
        => [\A k \in Protocols, u \in Units :
              seen[k][u] # "none" => seen'[k][u] = seen[k][u]]_vars
  BY StepKeeps DEF Stands
<1> QED
  BY <1>1, Invariance, PTL DEF Spec, OutcomesStand
=============================================================================
