---------------------- MODULE AdaptationControl_proofs ----------------------
(***************************************************************************)
(* Proofs about AdaptationControl for every set of policies and operators  *)
(* and every bound.  The argument:                                         *)
(*                                                                         *)
(*   - the committed rows form a chain: versions are unique and exactly    *)
(*     the newest row is current (Chain);                                  *)
(*   - a process that has uncommitted writes, or is between the lock and   *)
(*     its release, holds the advisory lock (ProcOK), so nobody else       *)
(*     commits and the row it is about to insert still extends the chain   *)
(*     (Pending);                                                          *)
(*   - a disable-all that is past its first step has written the KILL      *)
(*     file, which nothing removes (KillOK).                               *)
(*                                                                         *)
(* On that invariant rests a second one, about the cache file (CacheInv):  *)
(* what the file says at each step of the process that holds the lock.     *)
(***************************************************************************)
EXTENDS AdaptationControl, TLAPS

\* The rows are a chain of versions whose newest member is the current row.
Chain(R) ==
  /\ R \subseteq Rows
  /\ \A r \in R : r.version > 0
  /\ \A r, q \in R : r.version = q.version => r = q
  /\ \A r \in R : r.current <=> \A t \in R : t.version <= r.version
  /\ R = {} \/ \E r \in R : r.current

\* The row that extends the chain R.
NewRow(R, h, m) ==
  [version |-> CurrentBinding(R).version + 1, policy |-> h, mode |-> m, current |-> TRUE]

\* What p has not committed: nothing, or the next row of the chain; a pending
\* kill comes with the disabling of an active binding, and only with that.
PendingNothing(p) ==
  /\ stage[p].old = {} /\ stage[p].new = {}
  /\ stage[p].kill => Pointer.mode \notin ActiveModes
PendingRow(p) ==
  \E h \in Refs, m \in ActiveModes \union {"DISABLED"} :
    /\ stage[p].old = CurrentRows(rows)
    /\ stage[p].new = {NewRow(rows, h, m)}
    /\ m \in ActiveModes => h \in Policies /\ ~stage[p].kill
    /\ stage[p].kill => h = Pointer.policy /\ Pointer.mode \in ActiveModes

Locked == {"check", "read", "cas", "query", "rekill", "commit", "unlock"}
Fresh == {"idle", "engage", "lock", "check", "read", "reload", "load", "run"}
Activating(c) == c.op \in {"canary", "shadow"} /\ c.phase = 1

\* What holds of one process.
LockOK(p) == (pc[p] \in Locked \/ stage[p] # NoStage) => lock = p
StageOK(p) ==
  /\ pc[p] \in {"query", "truncate", "write", "rekill", "commit"}
       => PendingNothing(p) \/ PendingRow(p)
  /\ pc[p] \in Fresh => stage[p] = NoStage
  /\ pc[p] = "cas" =>
       /\ stage[p].old = {} /\ stage[p].new = {}
       /\ expected[p] = Pointer.version
       /\ stage[p].kill => Pointer.mode \in ActiveModes
       /\ stage[p].kill <=> cmd[p].op = "disable-all"
CommandOK(p) ==
  /\ cmd[p].op = "disable-all" => cmd[p].policy = NoPolicy /\ cmd[p].phase = 1
  /\ pc[p] = "cas" /\ Activating(cmd[p]) => cmd[p].policy \in Policies
  /\ stage[p].new # {} /\ cmd[p].op = "canary" => cmd[p].policy \in Policies
  /\ cmd[p].phase = 2 => cmd[p].op \in {"canary", "shadow"}
  /\ cmd[p].phase = 2 /\ cmd[p].op = "canary" => cmd[p].policy \in Policies
  /\ pc[p] \in {"load", "run"} => cmd[p].op = "canary" /\ cmd[p].phase = 2
  /\ pc[p] \in {"read", "cas"} /\ cmd[p].phase = 2 => cmd[p].op = "canary"
KillOK(p) ==
  /\ cmd[p].op = "disable-all" /\ pc[p] \notin {"idle", "engage"} => killFile
  /\ pc[p] = "reload" => cmd[p].op = "disable-all"
  /\ pc[p] \in {"truncate", "write"} /\ lock # p => cmd[p].op = "disable-all"

ProcOK(p) == LockOK(p) /\ StageOK(p) /\ CommandOK(p) /\ KillOK(p)

IInv ==
  /\ TypeOK
  /\ Chain(rows)
  /\ killAcked => killFile
  /\ \A p \in Procs : ProcOK(p)

-----------------------------------------------------------------------------
(* The chain. *)

\* What current_binding returns of a chain: its newest row, the only current
\* one, or the pointer of an empty table.
LEMMA BindingOfChain ==
  ASSUME NEW R, Chain(R)
  PROVE  /\ R = {} => CurrentBinding(R) = NoRow
         /\ R # {} => CurrentBinding(R) \in R /\ CurrentRows(R) = {CurrentBinding(R)}
         /\ CurrentRows(R) = {CurrentBinding(R)} \ {NoRow}
         /\ \A q \in R : q.version <= CurrentBinding(R).version
         /\ CurrentBinding(R).version \in Nat /\ CurrentBinding(R).policy \in Refs
         /\ CurrentBinding(R).mode \in ActiveModes \union {"DISABLED", "BASELINE"}
<1>1. CASE R = {}
  <2>1. CurrentRows(R) = {} BY <1>1 DEF CurrentRows
  <2>2. CurrentBinding(R) = NoRow BY <2>1 DEF CurrentBinding
  <2> QED BY <1>1, <2>1, <2>2 DEF NoRow, Refs
<1>2. CASE R # {}
  <2>1. PICK r \in R : r.current BY <1>2 DEF Chain
  <2>2. \A q \in R : q.version \in Nat BY DEF Chain, Rows
  <2>3. \A q \in R : q.current => q = r
    BY <2>1, <2>2 DEF Chain
  <2>4. CurrentRows(R) = {r} BY <2>1, <2>3 DEF CurrentRows
  <2>5. CurrentBinding(R) = r
    BY <2>2, <2>4, <2>1 DEF CurrentBinding, Chain
  <2>6. r # NoRow BY <2>1 DEF Chain, NoRow
  <2>7. r \in Rows BY <2>1 DEF Chain
  <2> QED BY <1>2, <2>1, <2>4, <2>5, <2>6, <2>7 DEF Chain, Rows
<1> QED BY <1>1, <1>2

\* A committed compare-and-set extends the chain by its row.
Extended(R, n) ==
  (R \ CurrentRows(R)) \union {Demoted(r) : r \in CurrentRows(R)} \union {n}

LEMMA ChainExtends ==
  ASSUME NEW R, Chain(R), NEW h \in Refs, NEW m \in ActiveModes \union {"DISABLED"}
  PROVE  /\ Chain(Extended(R, NewRow(R, h, m)))
         /\ CurrentBinding(Extended(R, NewRow(R, h, m))) = NewRow(R, h, m)
<1> DEFINE v == CurrentBinding(R).version
           n == NewRow(R, h, m)
           X == Extended(R, n)
<1>1. v \in Nat /\ \A q \in R : q.version <= v /\ q.version \in Nat
  BY BindingOfChain DEF Chain, Rows
<1>2. n \in Rows /\ n.version = v + 1 /\ n.current = TRUE
  BY <1>1 DEF NewRow, Rows
<1>3. \A x \in X : x = n \/ (\E r \in R : x = Demoted(r) /\ r.current)
                         \/ (x \in R /\ ~x.current)
  BY DEF Extended, CurrentRows
<1>4. \A r \in R : /\ Demoted(r) \in Rows /\ Demoted(r).version = r.version
                   /\ Demoted(r).current = FALSE
  BY DEF Chain, Rows, Demoted
<1>5. \A x \in X : x = n \/ (x \in Rows /\ x.version <= v /\ x.version > 0 /\ x.current = FALSE)
  BY <1>1, <1>3, <1>4 DEF Chain, Rows
<1>6. n \in X BY DEF Extended
<1>7. X \subseteq Rows /\ \A x \in X : x.version > 0
  BY <1>1, <1>2, <1>5
<1>8. \A x \in X : x.current <=> \A t \in X : t.version <= x.version
  <2>1. \A x \in X : x.version \in Nat BY <1>7 DEF Rows
  <2> QED BY <1>1, <1>2, <1>5, <1>6, <2>1
<1>9. ASSUME NEW x \in X, NEW y \in X, x.version = y.version PROVE x = y
  <2>1. CASE x = n \/ y = n
    BY <1>1, <1>2, <1>5, <1>9, <2>1
  <2>2. CASE x # n /\ y # n
    <3>1. ~x.current /\ ~y.current BY <1>5, <2>2
    <3>2. PICK r \in R : r.version = x.version /\ (x = r \/ (x = Demoted(r) /\ r.current))
      BY <1>3, <1>4, <2>2
    <3>3. PICK q \in R : q.version = y.version /\ (y = q \/ (y = Demoted(q) /\ q.current))
      BY <1>3, <1>4, <2>2
    <3>4. r = q BY <1>9, <3>2, <3>3 DEF Chain
    <3> QED BY <3>1, <3>2, <3>3, <3>4
  <2> QED BY <2>1, <2>2
<1>10. Chain(X) BY <1>2, <1>6, <1>7, <1>8, <1>9 DEF Chain
<1>11. CurrentBinding(X) = n
  <2>1. X # {} BY <1>6
  <2>2. n \in CurrentRows(X) BY <1>2, <1>6 DEF CurrentRows
  <2> QED BY <1>10, <2>1, <2>2, BindingOfChain
<1> QED BY <1>10, <1>11

\* The rows a session commits: the same chain, or the chain extended.
LEMMA ViewOfNothing ==
  ASSUME NEW s, s.old = {}, s.new = {}
  PROVE  ViewRows(s) = rows
BY DEF ViewRows

LEMMA ViewOfRow ==
  ASSUME NEW s, NEW n, s.old = CurrentRows(rows), s.new = {n}
  PROVE  ViewRows(s) = Extended(rows, n)
BY DEF ViewRows, Extended

-----------------------------------------------------------------------------
(* The inductive invariant. *)

LEMMA ConstantsTyped ==
  /\ NoState \in States /\ NoCommand \in Commands /\ NoStage \in Stages
  /\ \A form \in {"absent", "empty", "corrupt"} : NoFile(form) \in Files
<1>1. NoState \in States BY DEF NoState, States
<1>2. NoCommand \in Commands BY DEF NoCommand, Commands, Refs
<1>3. NoStage \in Stages BY DEF NoStage, Stages
<1> QED BY <1>1, <1>2, <1>3 DEF NoFile, Files

LEMMA Initially == Init => IInv
<1> SUFFICES ASSUME Init PROVE IInv OBVIOUS
<1>1. TypeOK
  <2>1. NoFile("absent") \in Files BY ConstantsTyped
  <2>2. budget \in [commands: 0..MaxCommands, crashes: 0..MaxCrashes, busy: 0..MaxBusy]
    BY BoundAssumption DEF Init
  <2>3. unit \in [Procs -> 0..MaxUnits] BY BoundAssumption DEF Init
  <2> QED BY <2>1, <2>2, <2>3, ConstantsTyped DEF Init, TypeOK, Labels
<1>2. Chain(rows) BY DEF Init, Chain
<1>3. \A p \in Procs : ProcOK(p)
  BY DEF Init, ProcOK, LockOK, StageOK, CommandOK, KillOK, Locked, Fresh,
     NoCommand, NoStage
<1> QED BY <1>1, <1>2, <1>3 DEF IInv, Init

\* A step that leaves a process's own state alone, does not take its lock away,
\* and commits only while the process holds no lock, keeps what holds of it.
LEMMA Frame ==
  ASSUME NEW q \in Procs, ProcOK(q),
         pc'[q] = pc[q], cmd'[q] = cmd[q], stage'[q] = stage[q],
         expected'[q] = expected[q],
         killFile => killFile', lock = q <=> lock' = q,
         rows' = rows \/ lock # q
  PROVE  ProcOK(q)'
<1>1. LockOK(q)' BY DEF ProcOK, LockOK
<1>2. StageOK(q)'
  <2>1. CASE rows' = rows
    BY <2>1 DEF ProcOK, StageOK, PendingNothing, PendingRow, NewRow, Pointer
  <2>2. CASE lock # q
    <3>1. pc[q] \notin Locked /\ stage[q] = NoStage BY <2>2 DEF ProcOK, LockOK
    <3> QED BY <3>1 DEF StageOK, PendingNothing, Locked, NoStage
  <2> QED BY <2>1, <2>2
<1>3. CommandOK(q)' BY DEF ProcOK, CommandOK, Activating
<1>4. KillOK(q)' BY DEF ProcOK, KillOK
<1> QED BY <1>1, <1>2, <1>3, <1>4 DEF ProcOK

\* Committed rows and own writes as they were: what was pending still is.
LEMMA PendingStays ==
  ASSUME NEW p, rows' = rows, stage'[p] = stage[p],
         PendingNothing(p) \/ PendingRow(p)
  PROVE  PendingNothing(p)' \/ PendingRow(p)'
BY DEF PendingNothing, PendingRow, NewRow, Pointer

\* A process that returns forgets everything it was doing.
LEMMA FinishKeeps ==
  ASSUME TypeOK, NEW p \in Procs, Finish(p)
  PROVE  /\ pc' \in [Procs -> Labels] /\ cmd' \in [Procs -> Commands]
         /\ stage' \in [Procs -> Stages] /\ expected' \in [Procs -> Nat]
         /\ draft' \in [Procs -> States] /\ unit' \in [Procs -> 0..MaxUnits]
         /\ ProcOK(p)'
         /\ \A q \in Procs \ {p} :
              /\ pc'[q] = pc[q] /\ cmd'[q] = cmd[q] /\ stage'[q] = stage[q]
              /\ expected'[q] = expected[q]
<1>1. pc'[p] = "idle" /\ cmd'[p] = NoCommand /\ stage'[p] = NoStage
  BY DEF Finish, Goto, TypeOK
<1>2. ProcOK(p)'
  BY <1>1 DEF ProcOK, LockOK, StageOK, CommandOK, KillOK, Locked, Fresh,
     NoCommand, NoStage
<1>3. /\ pc' \in [Procs -> Labels] /\ cmd' \in [Procs -> Commands]
      /\ stage' \in [Procs -> Stages] /\ expected' \in [Procs -> Nat]
      /\ draft' \in [Procs -> States] /\ unit' \in [Procs -> 0..MaxUnits]
  BY ConstantsTyped, BoundAssumption DEF Finish, Goto, TypeOK, Labels
<1> QED BY <1>2, <1>3 DEF Finish, Goto, TypeOK

-----------------------------------------------------------------------------
(* Every step keeps the invariant: first the commands and their lock.      *)

LEMMA StartCommandKeeps ==
  ASSUME IInv, NEW p \in Procs, StartCommand(p)
  PROVE  IInv'
<1> USE DEF StartCommand, dbVars, fileVars, Goto
<1>1. TypeOK'
  <2>1. cmd' \in [Procs -> Commands]
    <3>1. PICK op \in {"canary", "shadow", "disable", "disable-all"}, h \in Refs :
            cmd' = [cmd EXCEPT ![p] = [NoCommand EXCEPT !.op = op, !.policy = h]]
      OBVIOUS
    <3>2. [NoCommand EXCEPT !.op = op, !.policy = h] \in Commands
      BY ConstantsTyped DEF Commands
    <3> QED BY <3>1, <3>2 DEF IInv, TypeOK
  <2>2. budget' \in [commands: 0..MaxCommands, crashes: 0..MaxCrashes, busy: 0..MaxBusy]
    BY BoundAssumption DEF IInv, TypeOK
  <2> QED BY <2>1, <2>2 DEF IInv, TypeOK, Labels
<1>2. ProcOK(p)'
  <2>1. pc[p] = "idle" /\ pc'[p] \in {"engage", "lock"} /\ stage'[p] = stage[p]
    BY DEF IInv, TypeOK
  <2>2. /\ cmd'[p].phase = 1
        /\ cmd'[p].op = "disable-all" => cmd'[p].policy = NoPolicy /\ pc'[p] = "engage"
    BY DEF IInv, TypeOK, NoCommand
  <2>3. stage[p] = NoStage BY <2>1 DEF IInv, ProcOK, StageOK, Fresh
  <2> QED
    BY <2>1, <2>2, <2>3 DEF ProcOK, LockOK, StageOK, CommandOK, KillOK, Locked, NoStage
<1>3. ASSUME NEW q \in Procs \ {p} PROVE ProcOK(q)'
  BY Frame DEF IInv, TypeOK
<1> QED BY <1>1, <1>2, <1>3 DEF IInv

LEMMA StartTimerKeeps ==
  ASSUME IInv, StartTimer
  PROVE  IInv'
<1> USE DEF StartTimer, dbVars, fileVars, envVars, Goto
<1>1. TypeOK'
  <2>1. cmd' \in [Procs -> Commands]
    <3>1. [NoCommand EXCEPT !.op = "materialize"] \in Commands
      BY ConstantsTyped DEF Commands
    <3> QED BY <3>1 DEF IInv, TypeOK
  <2> QED BY <2>1 DEF IInv, TypeOK, Labels
<1>2. Timer \in Procs BY DEF Procs
<1>3. ProcOK(Timer)'
  <2>1. pc[Timer] = "idle" /\ pc'[Timer] = "lock" /\ stage'[Timer] = stage[Timer]
    BY <1>2 DEF IInv, TypeOK
  <2>2. cmd'[Timer].phase = 1 /\ cmd'[Timer].op = "materialize"
    BY <1>2 DEF IInv, TypeOK, NoCommand
  <2>3. stage[Timer] = NoStage BY <1>2, <2>1 DEF IInv, ProcOK, StageOK, Fresh
  <2> QED
    BY <2>1, <2>2, <2>3 DEF ProcOK, LockOK, StageOK, CommandOK, KillOK, Locked, NoStage
<1>4. ASSUME NEW q \in Procs \ {Timer} PROVE ProcOK(q)'
  BY Frame, <1>2 DEF IInv, TypeOK
<1> QED BY <1>1, <1>3, <1>4 DEF IInv

LEMMA EngageKillKeeps ==
  ASSUME IInv, NEW p \in Procs, EngageKill(p)
  PROVE  IInv'
<1> USE DEF EngageKill, dbVars, workVars, envVars, Goto
<1>1. TypeOK' BY DEF IInv, TypeOK, Labels
<1>2. ProcOK(p)'
  <2>1. pc[p] = "engage" /\ pc'[p] = "lock" BY DEF IInv, TypeOK
  <2> QED BY <2>1 DEF IInv, ProcOK, LockOK, StageOK, CommandOK, KillOK, Locked, Fresh
<1>3. ASSUME NEW q \in Procs \ {p} PROVE ProcOK(q)'
  BY Frame DEF IInv, TypeOK
<1> QED BY <1>1, <1>2, <1>3 DEF IInv

\* A refused process has returned, or is a disable-all about to write the cache.
LEMMA RefusedKeeps ==
  ASSUME TypeOK, NEW p \in Procs, ProcOK(p), pc[p] \in {"lock", "check"},
         Refused(p), UNCHANGED <<rows, killFile>>
  PROVE  /\ pc' \in [Procs -> Labels] /\ cmd' \in [Procs -> Commands]
         /\ stage' \in [Procs -> Stages] /\ expected' \in [Procs -> Nat]
         /\ draft' \in [Procs -> States] /\ unit' \in [Procs -> 0..MaxUnits]
         /\ ProcOK(p)'
         /\ \A q \in Procs \ {p} :
              /\ pc'[q] = pc[q] /\ cmd'[q] = cmd[q] /\ stage'[q] = stage[q]
              /\ expected'[q] = expected[q]
<1>1. CASE cmd[p].op = "disable-all"
  <2>1. pc'[p] = "reload" /\ UNCHANGED <<cmd, stage, expected, draft, unit>>
    BY <1>1 DEF Refused, Goto, TypeOK
  <2>2. stage[p] = NoStage /\ killFile BY <1>1 DEF ProcOK, StageOK, KillOK, Fresh
  <2>3. ProcOK(p)'
    BY <1>1, <2>1, <2>2
    DEF ProcOK, LockOK, StageOK, CommandOK, KillOK, Locked, NoStage
  <2>4. pc' \in [Procs -> Labels] /\ \A q \in Procs \ {p} : pc'[q] = pc[q]
    BY <1>1 DEF Refused, Goto, TypeOK, Labels
  <2> QED BY <2>1, <2>3, <2>4 DEF TypeOK
<1>2. CASE cmd[p].op # "disable-all"
  BY <1>2, FinishKeeps DEF Refused
<1> QED BY <1>1, <1>2

LEMMA TryLockKeeps ==
  ASSUME IInv, NEW p \in Procs, TryLock(p)
  PROVE  IInv'
<1> USE DEF TryLock, dbVars, fileVars, envVars
<1>1. CASE lock = NoProcess
  <2>1. /\ pc'[p] = "check" /\ lock' = p /\ UNCHANGED <<cmd, stage, expected, draft, unit>>
        /\ pc' \in [Procs -> Labels] /\ \A q \in Procs \ {p} : pc'[q] = pc[q]
    BY <1>1 DEF Goto, IInv, TypeOK, Labels
  <2>2. TypeOK' BY <2>1 DEF IInv, TypeOK
  <2>3. ProcOK(p)'
    <3>1. stage[p] = NoStage BY DEF IInv, ProcOK, StageOK, Fresh
    <3> QED BY <2>1, <3>1
         DEF IInv, ProcOK, LockOK, StageOK, CommandOK, KillOK, Locked, NoStage
  <2>4. ASSUME NEW q \in Procs \ {p} PROVE ProcOK(q)'
    BY <1>1, <2>1, Frame, ProcessAssumption DEF IInv, TypeOK
  <2> QED BY <2>2, <2>3, <2>4 DEF IInv
<1>2. CASE lock # NoProcess
  <2>1. Refused(p) /\ lock' = lock BY <1>2
  <2>2. TypeOK' BY <2>1, RefusedKeeps DEF IInv, TypeOK
  <2>3. ProcOK(p)' BY <2>1, RefusedKeeps DEF IInv
  <2>4. ASSUME NEW q \in Procs \ {p} PROVE ProcOK(q)'
    BY <2>1, Frame, RefusedKeeps DEF IInv
  <2> QED BY <2>2, <2>3, <2>4 DEF IInv
<1> QED BY <1>1, <1>2

LEMMA CheckLowerKeeps ==
  ASSUME IInv, NEW p \in Procs, CheckLower(p)
  PROVE  IInv'
<1> USE DEF CheckLower, dbVars, fileVars, envVars
<1>1. lock = p /\ stage[p] = NoStage
  BY DEF IInv, ProcOK, LockOK, StageOK, Locked, Fresh
<1>2. CASE lowerBusy
  <2>1. Refused(p) /\ lock' = NoProcess BY <1>2
  <2>2. TypeOK' BY <2>1, RefusedKeeps DEF IInv, TypeOK
  <2>3. ProcOK(p)' BY <2>1, RefusedKeeps DEF IInv
  <2>4. ASSUME NEW q \in Procs \ {p} PROVE ProcOK(q)'
    BY <1>1, <2>1, Frame, RefusedKeeps, ProcessAssumption DEF IInv
  <2> QED BY <2>2, <2>3, <2>4 DEF IInv
<1>3. CASE ~lowerBusy
  <2>1. /\ pc'[p] = FirstStep(cmd[p]) /\ UNCHANGED <<lock, cmd, stage, expected, draft, unit>>
        /\ \A q \in Procs \ {p} : pc'[q] = pc[q]
    BY <1>3 DEF Goto, IInv, TypeOK
  <2>2. FirstStep(cmd[p]) \in {"query", "commit", "read"} BY DEF FirstStep
  <2>3. TypeOK'
    <3>1. pc' \in [Procs -> Labels] BY <1>3, <2>2 DEF Goto, IInv, TypeOK, Labels
    <3> QED BY <2>1, <3>1 DEF IInv, TypeOK
  <2>4. ProcOK(p)'
    <3>1. FirstStep(cmd[p]) = "read" /\ cmd[p].phase = 2 => cmd[p].op = "canary"
      BY DEF FirstStep, IInv, ProcOK, CommandOK
    <3> QED BY <1>1, <2>1, <2>2, <3>1
         DEF IInv, ProcOK, LockOK, StageOK, CommandOK, KillOK, Locked, PendingNothing, NoStage
  <2>5. ASSUME NEW q \in Procs \ {p} PROVE ProcOK(q)'
    BY <2>1, Frame DEF IInv
  <2> QED BY <2>1, <2>3, <2>4, <2>5 DEF IInv
<1> QED BY <1>2, <1>3

-----------------------------------------------------------------------------
(* The transaction. *)

LEMMA ReadForBindKeeps ==
  ASSUME IInv, NEW p \in Procs, ReadForBind(p)
  PROVE  IInv'
<1> USE DEF ReadForBind, dbVars, fileVars, envVars, Goto
<1>1. Pointer.version \in Nat BY BindingOfChain DEF IInv, Pointer
<1>2. TypeOK' BY <1>1 DEF IInv, TypeOK, Labels, Pointer
<1>3. ProcOK(p)'
  <2>1. stage[p] = NoStage /\ lock = p BY DEF IInv, ProcOK, LockOK, StageOK, Fresh, Locked
  <2>2. CASE pc'[p] = "unlock"
    BY <2>1, <2>2 DEF IInv, ProcOK, LockOK, StageOK, CommandOK, KillOK, NoStage, Fresh
  <2>3. CASE pc'[p] = "cas"
    <3>1. expected'[p] = Pointer.version /\ (Activating(cmd[p]) => cmd[p].policy \in Policies)
      BY <2>3 DEF IInv, TypeOK, Commands, Refs, Pointer, Activating
    <3> QED BY <2>1, <2>3, <3>1
         DEF IInv, ProcOK, LockOK, StageOK, CommandOK, KillOK, NoStage, Fresh, Pointer,
             Activating
  <2> QED BY <2>2, <2>3 DEF IInv, TypeOK
<1>4. ASSUME NEW q \in Procs \ {p} PROVE ProcOK(q)'
  BY Frame DEF IInv, TypeOK
<1> QED BY <1>2, <1>3, <1>4 DEF IInv

LEMMA ReadForVerdictKeeps ==
  ASSUME IInv, NEW p \in Procs, ReadForVerdict(p)
  PROVE  IInv'
<1> USE DEF ReadForVerdict, dbVars, fileVars, envVars, Goto
<1>1. Pointer.version \in Nat BY BindingOfChain DEF IInv, Pointer
<1>2. TypeOK'
  <2>1. stage' \in [Procs -> Stages]
    <3>1. stage[p] \in Stages /\ cmd[p].mine \subseteq Outcomes
      BY DEF IInv, TypeOK, Commands
    <3>2. \A X \in SUBSET Outcomes : [stage[p] EXCEPT !.seen = X] \in Stages
      BY <3>1 DEF Stages
    <3> QED BY <3>1, <3>2 DEF IInv, TypeOK
  <2> QED BY <1>1, <2>1 DEF IInv, TypeOK, Labels, Pointer
<1>3. ProcOK(p)'
  <2>1. stage[p] = NoStage /\ lock = p BY DEF IInv, ProcOK, LockOK, StageOK, Fresh, Locked
  <2>2. stage'[p].old = {} /\ stage'[p].new = {} /\ stage'[p].kill = FALSE
    BY <2>1 DEF IInv, TypeOK, NoStage
  <2>3. CASE pc'[p] = "query"
    BY <2>1, <2>2, <2>3 DEF IInv, ProcOK, LockOK, StageOK, CommandOK, KillOK, Fresh,
       PendingNothing
  <2>4. CASE pc'[p] = "cas"
    <3>1. expected'[p] = Pointer.version
      BY <2>4 DEF IInv, TypeOK, Pointer
    <3> QED BY <2>1, <2>2, <2>4, <3>1
         DEF IInv, ProcOK, LockOK, StageOK, CommandOK, KillOK, Fresh, Pointer, Activating
  <2> QED BY <2>3, <2>4 DEF IInv, TypeOK
<1>4. ASSUME NEW q \in Procs \ {p} PROVE ProcOK(q)'
  BY Frame DEF IInv, TypeOK
<1> QED BY <1>2, <1>3, <1>4 DEF IInv

LEMMA ReadForDisableAllKeeps ==
  ASSUME IInv, NEW p \in Procs, ReadForDisableAll(p)
  PROVE  IInv'
<1> USE DEF ReadForDisableAll, dbVars, fileVars, envVars, Goto
<1>1. Pointer.version \in Nat BY BindingOfChain DEF IInv, Pointer
<1>2. TypeOK'
  <2>1. stage' \in [Procs -> Stages]
    <3>1. \A s \in Stages : [s EXCEPT !.kill = TRUE] \in Stages BY DEF Stages
    <3> QED BY <3>1 DEF IInv, TypeOK
  <2> QED BY <1>1, <2>1 DEF IInv, TypeOK, Labels, Pointer
<1>3. ProcOK(p)'
  <2>1. stage[p] = NoStage /\ lock = p BY DEF IInv, ProcOK, LockOK, StageOK, Fresh, Locked
  <2>2. stage'[p].old = {} /\ stage'[p].new = {} /\ stage'[p].kill = TRUE
    BY <2>1 DEF IInv, TypeOK, NoStage
  <2>3. CASE Pointer.mode \notin ActiveModes
    <3>1. pc'[p] = "query" BY <2>3 DEF IInv, TypeOK, Pointer
    <3> QED BY <2>1, <2>2, <2>3, <3>1
         DEF IInv, ProcOK, LockOK, StageOK, CommandOK, KillOK, Fresh, PendingNothing, Pointer
  <2>4. CASE Pointer.mode \in ActiveModes
    <3>1. pc'[p] = "cas" /\ expected'[p] = Pointer.version
      BY <2>4 DEF IInv, TypeOK, Pointer
    <3> QED BY <2>1, <2>2, <2>4, <3>1
         DEF IInv, ProcOK, LockOK, StageOK, CommandOK, KillOK, Fresh, Pointer, Activating
  <2> QED BY <2>3, <2>4
<1>4. ASSUME NEW q \in Procs \ {p} PROVE ProcOK(q)'
  BY Frame DEF IInv, TypeOK
<1> QED BY <1>2, <1>3, <1>4 DEF IInv

\* Under the lock the compare-and-set finds the version it expects.
LEMMA CasStages ==
  ASSUME IInv, NEW p \in Procs, pc[p] = "cas"
  PROVE  LET h == NewPolicy(cmd[p])  m == NewMode(cmd[p]) IN
         /\ h \in Refs /\ m \in ActiveModes \union {"DISABLED"}
         /\ m \in ActiveModes => h \in Policies /\ cmd[p].op # "disable-all"
         /\ CasInsert(stage[p], expected[p], h, m) =
              [stage[p] EXCEPT !.old = CurrentRows(rows), !.new = {NewRow(rows, h, m)}]
<1> DEFINE h == NewPolicy(cmd[p])
           m == NewMode(cmd[p])
<1>1. h \in Refs
  BY BindingOfChain DEF IInv, TypeOK, Commands, NewPolicy
<1>2. m \in ActiveModes \union {"DISABLED"} BY DEF NewMode, ActiveModes
<1>3. ASSUME m \in ActiveModes PROVE h \in Policies /\ cmd[p].op # "disable-all"
  <2>1. cmd[p].op = "shadow" \/ (cmd[p].op = "canary" /\ cmd[p].phase = 1)
    BY <1>3 DEF NewMode, ActiveModes
  <2>2. cmd[p] \in Commands BY DEF IInv, TypeOK
  <2>3. Activating(cmd[p])
    BY <2>1, <2>2 DEF IInv, ProcOK, CommandOK, Activating, Commands
  <2> QED BY <2>1, <2>3, PolicyAssumption DEF IInv, ProcOK, CommandOK, NewPolicy
<1>4. CasInsert(stage[p], expected[p], h, m) =
        [stage[p] EXCEPT !.old = CurrentRows(rows), !.new = {NewRow(rows, h, m)}]
  <2>1. ViewRows(stage[p]) = rows
    BY ViewOfNothing DEF IInv, ProcOK, StageOK
  <2>2. expected[p] = CurrentBinding(rows).version
    BY DEF IInv, ProcOK, StageOK, Pointer
  <2>3. CurrentRows(rows) = {CurrentBinding(rows)} \ {NoRow} BY BindingOfChain DEF IInv
  <2> QED BY <2>1, <2>2, <2>3 DEF CasInsert, NewRow
<1> QED BY <1>1, <1>2, <1>3, <1>4

LEMMA CasKeeps ==
  ASSUME IInv, NEW p \in Procs, Cas(p)
  PROVE  IInv'
<1> DEFINE h == NewPolicy(cmd[p])
           m == NewMode(cmd[p])
           done == CasInsert(stage[p], expected[p], h, m)
<1>1. /\ pc[p] = "cas" /\ stage' = [stage EXCEPT ![p] = done]
      /\ \/ pc' = [pc EXCEPT ![p] = "query"]
         \/ done.new = {} /\ pc' = [pc EXCEPT ![p] = "unlock"]
      /\ UNCHANGED <<dbVars, fileVars, lock, envVars, cmd, expected, draft, unit, ran,
                     killAcked>>
  BY DEF Cas, Goto
<1>2. /\ h \in Refs /\ m \in ActiveModes \union {"DISABLED"}
      /\ m \in ActiveModes => h \in Policies /\ cmd[p].op # "disable-all"
      /\ done = [stage[p] EXCEPT !.old = CurrentRows(rows), !.new = {NewRow(rows, h, m)}]
  BY <1>1, CasStages
<1>3. stage[p] \in Stages /\ stage'[p] = done BY <1>1 DEF IInv, TypeOK
<1>4. done.old = CurrentRows(rows) /\ done.new = {NewRow(rows, h, m)}
      /\ done.kill = stage[p].kill
  BY <1>2, <1>3 DEF Stages
<1>5. pc' = [pc EXCEPT ![p] = "query"] BY <1>1, <1>4
<1>6. TypeOK'
  <2>1. NewRow(rows, h, m) \in Rows
    BY <1>2, BindingOfChain DEF IInv, NewRow, Rows
  <2>2. done \in Stages
    BY <1>2, <1>3, <2>1 DEF Stages, CurrentRows, IInv, TypeOK
  <2> QED BY <1>1, <1>5, <2>2 DEF IInv, TypeOK, Labels, dbVars, fileVars, envVars
<1>7. ProcOK(p)'
  <2>1. lock = p /\ lock' = p /\ cmd' = cmd /\ pc'[p] = "query"
    BY <1>1, <1>5 DEF IInv, TypeOK, ProcOK, LockOK, Locked
  <2>3. stage[p].kill => h = Pointer.policy /\ Pointer.mode \in ActiveModes
    BY <1>1 DEF IInv, ProcOK, StageOK, CommandOK, NewPolicy, Pointer
  <2>4. stage[p].kill => cmd[p].op = "disable-all" BY <1>1 DEF IInv, ProcOK, StageOK
  <2>5. PendingRow(p)'
    BY <1>1, <1>2, <1>3, <1>4, <2>3, <2>4 DEF PendingRow, NewRow, Pointer, dbVars
  <2>6. cmd[p].op = "canary" => cmd[p].policy \in Policies
    BY <1>1 DEF IInv, ProcOK, CommandOK, Activating, TypeOK, Commands
  <2> QED BY <1>1, <2>1, <2>5, <2>6
       DEF IInv, ProcOK, LockOK, StageOK, CommandOK, KillOK, Fresh, fileVars
<1>8. ASSUME NEW q \in Procs \ {p} PROVE ProcOK(q)'
  BY <1>1, <1>5, Frame DEF IInv, TypeOK, dbVars, fileVars
<1> QED BY <1>1, <1>6, <1>7, <1>8 DEF IInv, dbVars, fileVars

-----------------------------------------------------------------------------
(* The cache refresh. *)

\* What a refresh renders is a state of the cache.
LEMMA RenderedTyped ==
  ASSUME IInv, NEW s \in Stages
  PROVE  Rendered(s) \in States
<1>1. ViewRows(s) \subseteq Rows
  <2>1. \A r \in Rows : Demoted(r) \in Rows BY DEF Demoted, Rows
  <2>2. rows \subseteq Rows /\ s.old \subseteq Rows /\ s.new \subseteq Rows
    BY DEF IInv, TypeOK, Stages
  <2> QED BY <2>1, <2>2 DEF ViewRows
<1>2. \A r \in CurrentRows(ViewRows(s)) : [policy |-> r.policy, mode |-> r.mode] \in Bindings
  BY <1>1 DEF CurrentRows, Rows, Bindings
<1>3. dbKill \/ s.kill \in BOOLEAN BY DEF Stages
<1> QED BY <1>2, <1>3 DEF Rendered, States

LEMMA LoadCacheTyped ==
  ASSUME TypeOK
  PROVE  LoadCache \in States
BY DEF TypeOK, LoadCache, Files, States

LEMMA QueryStateKeeps ==
  ASSUME IInv, NEW p \in Procs, QueryState(p)
  PROVE  IInv'
<1> USE DEF QueryState, dbVars, fileVars, envVars, Goto
<1>1. TypeOK'
  <2>1. Rendered(stage[p]) \in States BY RenderedTyped DEF IInv, TypeOK
  <2> QED BY <2>1 DEF IInv, TypeOK, Labels
<1>2. ProcOK(p)'
  <2>1. pc[p] = "query" /\ pc'[p] = "truncate" BY DEF IInv, TypeOK
  <2>2. lock = p BY <2>1 DEF IInv, ProcOK, LockOK, Locked
  <2>3. PendingNothing(p)' \/ PendingRow(p)'
    BY <2>1, PendingStays DEF IInv, ProcOK, StageOK
  <2> QED BY <2>1, <2>2, <2>3
       DEF IInv, ProcOK, LockOK, StageOK, CommandOK, KillOK, Fresh
<1>3. ASSUME NEW q \in Procs \ {p} PROVE ProcOK(q)'
  BY Frame DEF IInv, TypeOK
<1> QED BY <1>1, <1>2, <1>3 DEF IInv

LEMMA ReloadStateKeeps ==
  ASSUME IInv, NEW p \in Procs, ReloadState(p)
  PROVE  IInv'
<1> USE DEF ReloadState, dbVars, fileVars, envVars, Goto
<1>1. TypeOK'
  <2>1. [kill |-> TRUE, bindings |-> LoadCache.bindings] \in States
    BY LoadCacheTyped DEF States, IInv
  <2> QED BY <2>1 DEF IInv, TypeOK, Labels
<1>2. ProcOK(p)'
  <2>1. pc[p] = "reload" /\ pc'[p] = "truncate" BY DEF IInv, TypeOK
  <2>2. stage[p] = NoStage /\ stage'[p] = NoStage
    BY <2>1 DEF IInv, ProcOK, StageOK, Fresh
  <2>3. PendingNothing(p)' BY <2>2 DEF PendingNothing, NoStage
  <2> QED BY <2>1, <2>2, <2>3
       DEF IInv, ProcOK, LockOK, StageOK, CommandOK, KillOK, Fresh, Locked
<1>3. ASSUME NEW q \in Procs \ {p} PROVE ProcOK(q)'
  BY Frame DEF IInv, TypeOK
<1> QED BY <1>1, <1>2, <1>3 DEF IInv

LEMMA TruncateFileKeeps ==
  ASSUME IInv, NEW p \in Procs, TruncateFile(p)
  PROVE  IInv'
<1> USE DEF TruncateFile, dbVars, workVars, envVars, Goto
<1>1. TypeOK'
  BY ConstantsTyped DEF IInv, TypeOK, Labels
<1>2. ProcOK(p)'
  <2>1. pc[p] = "truncate" /\ pc'[p] = "write" BY DEF IInv, TypeOK
  <2>2. PendingNothing(p)' \/ PendingRow(p)'
    BY <2>1, PendingStays DEF IInv, ProcOK, StageOK
  <2> QED BY <2>1, <2>2
       DEF IInv, ProcOK, LockOK, StageOK, CommandOK, KillOK, Fresh, Locked
<1>3. ASSUME NEW q \in Procs \ {p} PROVE ProcOK(q)'
  BY Frame DEF IInv, TypeOK
<1> QED BY <1>1, <1>2, <1>3 DEF IInv

LEMMA WriteFileKeeps ==
  ASSUME IInv, NEW p \in Procs, WriteFile(p)
  PROVE  IInv'
<1> USE DEF WriteFile, dbVars, envVars
<1>1. cache' \in Files
  BY ConstantsTyped DEF IInv, TypeOK, Files
<1>2. CASE lock = p
  <2>1. /\ pc[p] = "write" /\ pc'[p] = "rekill" /\ pc' \in [Procs -> Labels]
        /\ \A q \in Procs \ {p} : pc'[q] = pc[q]
        /\ UNCHANGED <<cmd, stage, expected, draft, unit, killAcked>>
    BY <1>2 DEF Goto, IInv, TypeOK, Labels
  <2>2. TypeOK' BY <1>1, <2>1 DEF IInv, TypeOK
  <2>3. PendingNothing(p)' \/ PendingRow(p)'
    BY <2>1, PendingStays DEF IInv, ProcOK, StageOK
  <2>4. ProcOK(p)'
    BY <1>2, <2>1, <2>3 DEF IInv, ProcOK, LockOK, StageOK, CommandOK, KillOK, Fresh
  <2>5. ASSUME NEW q \in Procs \ {p} PROVE ProcOK(q)'
    BY <2>1, Frame DEF IInv
  <2> QED BY <2>1, <2>2, <2>4, <2>5 DEF IInv
<1>3. CASE lock # p
  <2>1. Finish(p) /\ killAcked' = TRUE BY <1>3
  <2>2. killFile BY <1>3 DEF IInv, ProcOK, KillOK
  <2>3. TypeOK' BY <1>1, <2>1, FinishKeeps DEF IInv, TypeOK
  <2>4. ProcOK(p)' BY <2>1, FinishKeeps DEF IInv
  <2>5. ASSUME NEW q \in Procs \ {p} PROVE ProcOK(q)'
    BY <2>1, FinishKeeps, Frame DEF IInv
  <2> QED BY <2>2, <2>3, <2>4, <2>5 DEF IInv
<1> QED BY <1>2, <1>3

LEMMA RewriteKillKeeps ==
  ASSUME IInv, NEW p \in Procs, RewriteKill(p)
  PROVE  IInv'
<1> USE DEF RewriteKill, dbVars, workVars, envVars, Goto
<1>1. TypeOK' BY DEF IInv, TypeOK, Labels, States
<1>2. ProcOK(p)'
  <2>1. pc[p] = "rekill" /\ pc'[p] = "commit" BY DEF IInv, TypeOK
  <2>2. PendingNothing(p)' \/ PendingRow(p)'
    BY <2>1, PendingStays DEF IInv, ProcOK, StageOK
  <2> QED BY <2>1, <2>2
       DEF IInv, ProcOK, LockOK, StageOK, CommandOK, KillOK, Fresh, Locked
<1>3. ASSUME NEW q \in Procs \ {p} PROVE ProcOK(q)'
  BY Frame DEF IInv, TypeOK
<1> QED BY <1>1, <1>2, <1>3 DEF IInv

\* What a commit makes of the rows: nothing new, or the next row of the chain.
LEMMA CommitOutcome ==
  ASSUME IInv, NEW p \in Procs, Commit(p)
  PROVE  \/ PendingNothing(p) /\ rows' = rows
         \/ /\ PendingRow(p)
            /\ \E h \in Refs, m \in ActiveModes \union {"DISABLED"} :
                 /\ stage[p].new = {NewRow(rows, h, m)}
                 /\ m \in ActiveModes => h \in Policies /\ ~stage[p].kill
                 /\ stage[p].kill => h = Pointer.policy /\ Pointer.mode \in ActiveModes
                 /\ rows' = Extended(rows, NewRow(rows, h, m))
<1>1. pc[p] = "commit" /\ rows' = ViewRows(stage[p]) BY DEF Commit
<1>2. PendingNothing(p) \/ PendingRow(p) BY <1>1 DEF IInv, ProcOK, StageOK
<1>3. CASE PendingNothing(p)
  BY <1>1, <1>3, ViewOfNothing DEF PendingNothing
<1>4. CASE PendingRow(p)
  BY <1>1, <1>4, ViewOfRow DEF PendingRow
<1> QED BY <1>2, <1>3, <1>4

LEMMA CommitKeeps ==
  ASSUME IInv, NEW p \in Procs, Commit(p)
  PROVE  IInv'
<1>1. /\ pc[p] = "commit" /\ pc' = [pc EXCEPT ![p] = "unlock"]
      /\ dbKill' = (dbKill \/ stage[p].kill) /\ exposures' = exposures \union stage[p].seen
      /\ UNCHANGED <<fileVars, lock, envVars, workVars, killAcked>>
  BY DEF Commit, Goto
<1>2. Chain(rows)' BY CommitOutcome, ChainExtends DEF IInv
<1>3. TypeOK'
  <2>1. stage[p] \in Stages BY DEF IInv, TypeOK
  <2>2. dbKill' \in BOOLEAN /\ exposures' \subseteq Outcomes
    BY <1>1, <2>1 DEF IInv, TypeOK, Stages
  <2>3. rows' \subseteq Rows BY <1>2 DEF Chain
  <2> QED BY <1>1, <2>2, <2>3 DEF IInv, TypeOK, Labels, fileVars, envVars, workVars
<1>4. lock = p BY <1>1 DEF IInv, ProcOK, LockOK, Locked
<1>5. ProcOK(p)'
  <2>1. pc'[p] = "unlock" BY <1>1 DEF IInv, TypeOK
  <2> QED BY <1>1, <1>4, <2>1
       DEF IInv, ProcOK, LockOK, StageOK, CommandOK, KillOK, Fresh, fileVars, workVars
<1>6. ASSUME NEW q \in Procs \ {p} PROVE ProcOK(q)'
  BY <1>1, <1>4, Frame DEF IInv, TypeOK, fileVars, workVars
<1> QED BY <1>1, <1>2, <1>3, <1>5, <1>6 DEF IInv, fileVars

LEMMA UnlockKeeps ==
  ASSUME IInv, NEW p \in Procs, Unlock(p)
  PROVE  IInv'
<1> DEFINE bound == cmd[p].phase = 1 /\ stage[p].new # {}
<1>1. /\ pc[p] = "unlock" /\ lock' = NoProcess
      /\ killAcked' = (killAcked \/ cmd[p].op = "disable-all")
      /\ UNCHANGED <<dbVars, fileVars, envVars, ran>>
  BY DEF Unlock
<1>2. lock = p /\ (cmd[p].op = "disable-all" => killFile)
  BY <1>1 DEF IInv, ProcOK, LockOK, KillOK, Locked
<1>3. killAcked' \in BOOLEAN /\ (killAcked => killFile)'
  BY <1>1, <1>2 DEF IInv, TypeOK, fileVars
<1>4. CASE bound /\ cmd[p].op \in {"canary", "shadow"}
  <2>1. /\ pc' = [pc EXCEPT ![p] = IF cmd[p].op = "canary" THEN "load" ELSE "lock"]
        /\ cmd' = [cmd EXCEPT ![p].phase = 2]
        /\ stage' = [stage EXCEPT ![p] = NoStage]
        /\ UNCHANGED <<expected, draft, unit>>
    BY <1>4 DEF Unlock, Goto
  <2>2. TypeOK'
    <3>1. cmd' \in [Procs -> Commands] BY <2>1 DEF IInv, TypeOK, Commands
    <3>2. pc' \in [Procs -> Labels] BY <2>1 DEF IInv, TypeOK, Labels
    <3> QED BY <1>1, <1>3, <2>1, <3>1, <3>2, ConstantsTyped
         DEF IInv, TypeOK, dbVars, fileVars, envVars
  <2>3. ProcOK(p)'
    <3>1. /\ stage'[p] = NoStage
          /\ cmd'[p].phase = 2 /\ cmd'[p].op = cmd[p].op /\ cmd'[p].policy = cmd[p].policy
          /\ pc'[p] = IF cmd[p].op = "canary" THEN "load" ELSE "lock"
      BY <2>1 DEF IInv, TypeOK, Commands
    <3>2. cmd[p].op = "canary" => cmd[p].policy \in Policies
      BY <1>4 DEF IInv, ProcOK, CommandOK
    <3> QED BY <1>4, <3>1, <3>2
         DEF ProcOK, LockOK, StageOK, CommandOK, KillOK, Fresh, Locked, NoStage
  <2>4. ASSUME NEW q \in Procs \ {p} PROVE ProcOK(q)'
    BY <1>1, <1>2, <2>1, Frame, ProcessAssumption DEF IInv, TypeOK, dbVars, fileVars
  <2> QED BY <1>1, <1>3, <2>2, <2>3, <2>4 DEF IInv, dbVars
<1>5. CASE ~(bound /\ cmd[p].op \in {"canary", "shadow"})
  <2>1. Finish(p) BY <1>5 DEF Unlock
  <2>2. TypeOK'
    BY <1>1, <1>3, <2>1, FinishKeeps DEF IInv, TypeOK, dbVars, fileVars, envVars
  <2>3. ProcOK(p)' BY <2>1, FinishKeeps DEF IInv
  <2>4. ASSUME NEW q \in Procs \ {p} PROVE ProcOK(q)'
    BY <1>1, <1>2, <2>1, FinishKeeps, Frame, ProcessAssumption DEF IInv, dbVars, fileVars
  <2> QED BY <1>1, <1>3, <2>2, <2>3, <2>4 DEF IInv, dbVars
<1> QED BY <1>4, <1>5

-----------------------------------------------------------------------------
(* The canary's units, crashes and the lower layers. *)

LEMMA LoadForCanaryKeeps ==
  ASSUME IInv, NEW p \in Procs, LoadForCanary(p)
  PROVE  IInv'
<1> USE DEF LoadForCanary, dbVars, fileVars, envVars, Goto
<1>1. TypeOK'
  <2>1. LoadCache \in States BY LoadCacheTyped DEF IInv
  <2> QED BY <2>1 DEF IInv, TypeOK, Labels
<1>2. ProcOK(p)'
  <2>1. pc[p] = "load" /\ pc'[p] = "run" BY DEF IInv, TypeOK
  <2> QED BY <2>1 DEF IInv, ProcOK, LockOK, StageOK, CommandOK, KillOK, Fresh, Locked
<1>3. ASSUME NEW q \in Procs \ {p} PROVE ProcOK(q)'
  BY Frame DEF IInv, TypeOK
<1> QED BY <1>1, <1>2, <1>3 DEF IInv

LEMMA RunUnitKeeps ==
  ASSUME IInv, NEW p \in Procs, RunUnit(p)
  PROVE  IInv'
<1>1. PICK selected \in {"CANDIDATE", "BASELINE"} :
        LET outcome == [policy |-> cmd[p].policy, unit |-> unit[p] + 1,
                        selected |-> selected] IN
        /\ ran' = ran \union {outcome}
        /\ cmd' = [cmd EXCEPT ![p].mine = @ \union {outcome}]
  BY DEF RunUnit
<1>2. /\ pc[p] = "run" /\ unit[p] < MaxUnits
      /\ unit' = [unit EXCEPT ![p] = unit[p] + 1]
      /\ UNCHANGED <<dbVars, fileVars, lock, envVars, pc, stage, expected, draft, killAcked>>
  BY DEF RunUnit
<1> DEFINE outcome == [policy |-> cmd[p].policy, unit |-> unit[p] + 1, selected |-> selected]
<1>3. unit[p] \in Nat /\ unit[p] + 1 \in Units /\ unit[p] + 1 \in 0..MaxUnits
  BY <1>2, BoundAssumption DEF IInv, TypeOK, Units
<1>4. outcome \in Outcomes
  BY <1>2, <1>3 DEF IInv, ProcOK, CommandOK, Outcomes
<1>5. TypeOK'
  <2>1. cmd' \in [Procs -> Commands]
    <3>1. cmd[p] \in Commands BY DEF IInv, TypeOK
    <3>2. [cmd[p] EXCEPT !.mine = @ \union {outcome}] \in Commands
      BY <1>4, <3>1 DEF Commands
    <3> QED BY <1>1, <3>2 DEF IInv, TypeOK
  <2>2. unit' \in [Procs -> 0..MaxUnits] BY <1>2, <1>3 DEF IInv, TypeOK
  <2>3. ran' \subseteq Outcomes BY <1>1, <1>4 DEF IInv, TypeOK
  <2> QED BY <1>2, <2>1, <2>2, <2>3 DEF IInv, TypeOK, dbVars, fileVars, envVars
<1>6. ProcOK(p)'
  <2>1. /\ cmd'[p].op = cmd[p].op /\ cmd'[p].policy = cmd[p].policy
        /\ cmd'[p].phase = cmd[p].phase
    BY <1>1 DEF IInv, TypeOK, Commands
  <2> QED BY <1>2, <2>1
       DEF IInv, ProcOK, LockOK, StageOK, CommandOK, KillOK, Fresh, Locked, fileVars
<1>7. ASSUME NEW q \in Procs \ {p} PROVE ProcOK(q)'
  BY <1>1, <1>2, Frame DEF IInv, TypeOK, dbVars, fileVars
<1> QED BY <1>2, <1>5, <1>6, <1>7 DEF IInv, dbVars, fileVars

LEMMA FinishUnitsKeeps ==
  ASSUME IInv, NEW p \in Procs, FinishUnits(p)
  PROVE  IInv'
<1> USE DEF FinishUnits, dbVars, fileVars, workVars, envVars, Goto
<1>1. TypeOK' BY DEF IInv, TypeOK, Labels
<1>2. ProcOK(p)'
  <2>1. pc[p] = "run" /\ pc'[p] = "lock" BY DEF IInv, TypeOK
  <2> QED BY <2>1 DEF IInv, ProcOK, LockOK, StageOK, CommandOK, KillOK, Fresh, Locked
<1>3. ASSUME NEW q \in Procs \ {p} PROVE ProcOK(q)'
  BY Frame DEF IInv, TypeOK
<1> QED BY <1>1, <1>2, <1>3 DEF IInv

LEMMA CrashKeeps ==
  ASSUME IInv, NEW p \in Procs, Crash(p)
  PROVE  IInv'
<1>1. Finish(p) /\ lock' \in {lock, NoProcess} /\ (lock # p => lock' = lock)
      /\ UNCHANGED <<dbVars, fileVars, lowerBusy, ran, killAcked>>
  BY DEF Crash
<1>2. budget' \in [commands: 0..MaxCommands, crashes: 0..MaxCrashes, busy: 0..MaxBusy]
  BY BoundAssumption DEF Crash, IInv, TypeOK
<1>3. TypeOK' BY <1>1, <1>2, FinishKeeps DEF IInv, TypeOK, dbVars, fileVars
<1>4. ProcOK(p)' BY <1>1, FinishKeeps DEF IInv
<1>5. ASSUME NEW q \in Procs \ {p} PROVE ProcOK(q)'
  BY <1>1, FinishKeeps, Frame, ProcessAssumption DEF IInv, dbVars, fileVars
<1> QED BY <1>1, <1>3, <1>4, <1>5 DEF IInv, dbVars, fileVars

LEMMA LowerKeeps ==
  ASSUME IInv, LowerStarts \/ LowerEnds
  PROVE  IInv'
<1> USE DEF LowerStarts, LowerEnds, dbVars, fileVars, workVars
<1>1. budget' \in [commands: 0..MaxCommands, crashes: 0..MaxCrashes, busy: 0..MaxBusy]
  BY BoundAssumption DEF IInv, TypeOK
<1>2. TypeOK' BY <1>1 DEF IInv, TypeOK
<1>3. ASSUME NEW q \in Procs PROVE ProcOK(q)'
  BY Frame DEF IInv
<1> QED BY <1>2, <1>3 DEF IInv

LEMMA NextKeeps == IInv /\ [Next]_vars => IInv'
<1> SUFFICES ASSUME IInv, [Next]_vars PROVE IInv' OBVIOUS
<1>1. CASE StartTimer BY <1>1, StartTimerKeeps
<1>2. CASE LowerStarts \/ LowerEnds BY <1>2, LowerKeeps
<1>3. ASSUME NEW p \in Procs, StartCommand(p) \/ Crash(p) PROVE IInv'
  BY <1>3, StartCommandKeeps, CrashKeeps
<1>4. ASSUME NEW p \in Procs, Step(p) PROVE IInv'
  <2>1. CASE EngageKill(p) \/ TryLock(p) \/ CheckLower(p)
    BY <2>1, EngageKillKeeps, TryLockKeeps, CheckLowerKeeps
  <2>2. CASE ReadForBind(p) \/ ReadForVerdict(p) \/ ReadForDisableAll(p) \/ Cas(p)
    BY <2>2, ReadForBindKeeps, ReadForVerdictKeeps, ReadForDisableAllKeeps, CasKeeps
  <2>3. CASE QueryState(p) \/ ReloadState(p) \/ TruncateFile(p) \/ WriteFile(p)
    BY <2>3, QueryStateKeeps, ReloadStateKeeps, TruncateFileKeeps, WriteFileKeeps
  <2>4. CASE RewriteKill(p) \/ Commit(p) \/ Unlock(p)
    BY <2>4, RewriteKillKeeps, CommitKeeps, UnlockKeeps
  <2>5. CASE LoadForCanary(p) \/ RunUnit(p) \/ FinishUnits(p)
    BY <2>5, LoadForCanaryKeeps, RunUnitKeeps, FinishUnitsKeeps
  <2> QED BY <1>4, <2>1, <2>2, <2>3, <2>4, <2>5 DEF Step
<1>5. CASE UNCHANGED vars
  <2> USE <1>5 DEF vars
  <2>1. TypeOK' BY DEF IInv, TypeOK
  <2>2. ASSUME NEW q \in Procs PROVE ProcOK(q)'
    BY Frame DEF IInv
  <2> QED BY <2>1, <2>2 DEF IInv
<1> QED BY <1>1, <1>2, <1>3, <1>4, <1>5 DEF Next

-----------------------------------------------------------------------------
(* The cache file.  While nothing has crashed and no disable-all has begun, *)
(* only the holder of the lock writes the file, so what it says can be told *)
(* from the step the holder is at: what is committed before the refresh,    *)
(* nothing in the middle of it, and what is about to be committed after it. *)

CacheOf(p) ==
  /\ pc[p] \in Locked \union {"truncate", "write"}
  /\ pc[p] \in {"check", "read", "cas", "query", "unlock"} => InAgreement
  /\ pc[p] \in {"truncate", "write"} => draft[p] = Rendered(stage[p])
  /\ pc[p] = "write" => cache = NoFile("empty")
  /\ pc[p] \in {"rekill", "commit"} =>
       \/ cache = [form |-> "whole", state |-> Rendered(stage[p])]
       \/ stage[p] = NoStage /\ InAgreement

CacheInv ==
  budget.crashes = 0 /\ ~killFile =>
    /\ lock = NoProcess => InAgreement
    /\ \A p \in Procs : lock = p => CacheOf(p)

\* The state before a step of which the invariant says something afterwards.
Undisturbed == CacheInv /\ budget.crashes = 0 /\ ~killFile

LEMMA CacheFrame ==
  ASSUME NEW q, CacheOf(q), UNCHANGED <<rows, dbKill, cache>>,
         pc'[q] = pc[q], stage'[q] = stage[q], draft'[q] = draft[q]
  PROVE  CacheOf(q)'
BY DEF CacheOf, InAgreement, Rendered, ViewRows, CurrentRows

LEMMA AgreementFrame ==
  ASSUME InAgreement, UNCHANGED <<rows, dbKill, cache>>
  PROVE  InAgreement'
BY DEF InAgreement, Rendered, ViewRows, CurrentRows

\* A step of p keeps the invariant when it does so for p and for a free lock.
LEMMA HoldersKeep ==
  ASSUME Undisturbed, NEW p \in Procs, lock' \in {lock, p, NoProcess},
         UNCHANGED <<rows, dbKill, cache>> \/ lock = p,
         \A q \in Procs \ {p} :
           pc'[q] = pc[q] /\ stage'[q] = stage[q] /\ draft'[q] = draft[q],
         lock' = NoProcess => lock = NoProcess \/ InAgreement',
         lock' = p => CacheOf(p)'
  PROVE  CacheInv'
<1>1. p # NoProcess BY ProcessAssumption
<1>2. ASSUME lock' = NoProcess PROVE InAgreement'
  BY <1>1, <1>2, AgreementFrame DEF Undisturbed, CacheInv
<1>3. ASSUME NEW q \in Procs, lock' = q PROVE CacheOf(q)'
  <2>1. CASE q # p
    <3>1. lock = q /\ lock # p BY <1>3, <2>1, ProcessAssumption
    <3>2. CacheOf(q) BY <3>1 DEF Undisturbed, CacheInv
    <3> QED BY <2>1, <3>1, <3>2, CacheFrame
  <2> QED BY <1>3, <2>1
<1> QED BY <1>2, <1>3 DEF CacheInv

\* Who holds the lock is between the lock and its release.
LEMMA HolderIsWithin ==
  ASSUME Undisturbed, NEW p \in Procs, pc[p] \notin Locked \union {"truncate", "write"}
  PROVE  lock # p
BY DEF Undisturbed, CacheInv, CacheOf

\* Steps outside the lock leave the tables and the file alone.
LEMMA OutsideCache ==
  ASSUME IInv, Undisturbed, NEW p \in Procs,
         StartCommand(p) \/ LoadForCanary(p) \/ RunUnit(p) \/ FinishUnits(p)
  PROVE  CacheInv'
<1>1. /\ pc[p] \in {"idle", "load", "run"} /\ lock' = lock
      /\ UNCHANGED <<rows, dbKill, cache>>
      /\ \A q \in Procs \ {p} :
           pc'[q] = pc[q] /\ stage'[q] = stage[q] /\ draft'[q] = draft[q]
  BY DEF StartCommand, LoadForCanary, RunUnit, FinishUnits, Goto, dbVars, fileVars, workVars,
     IInv, TypeOK
<1>2. lock # p BY <1>1, HolderIsWithin DEF Locked
<1> QED BY <1>1, <1>2, HoldersKeep

LEMMA StartTimerCache ==
  ASSUME IInv, Undisturbed, StartTimer
  PROVE  CacheInv'
<1>1. Timer \in Procs BY DEF Procs
<1>2. /\ pc[Timer] = "idle" /\ lock' = lock /\ UNCHANGED <<rows, dbKill, cache>>
      /\ \A q \in Procs \ {Timer} :
           pc'[q] = pc[q] /\ stage'[q] = stage[q] /\ draft'[q] = draft[q]
  BY DEF StartTimer, Goto, dbVars, fileVars, IInv, TypeOK
<1>3. lock # Timer BY <1>1, <1>2, HolderIsWithin DEF Locked
<1> QED BY <1>1, <1>2, <1>3, HoldersKeep

\* What a refused process leaves alone.
LEMMA RefusedCache ==
  ASSUME TypeOK, NEW p \in Procs, Refused(p)
  PROVE  \A q \in Procs \ {p} :
           pc'[q] = pc[q] /\ stage'[q] = stage[q] /\ draft'[q] = draft[q]
BY DEF Refused, Finish, Goto, TypeOK

LEMMA LockCache ==
  ASSUME IInv, Undisturbed, NEW p \in Procs, TryLock(p) \/ CheckLower(p)
  PROVE  CacheInv'
<1>1. UNCHANGED <<rows, dbKill, cache>> BY DEF TryLock, CheckLower, dbVars, fileVars
<1>2. CASE TryLock(p)
  <2>1. CASE lock = NoProcess
    <3>1. /\ lock' = p /\ pc'[p] = "check"
          /\ \A q \in Procs \ {p} :
               pc'[q] = pc[q] /\ stage'[q] = stage[q] /\ draft'[q] = draft[q]
      BY <1>2, <2>1 DEF TryLock, Goto, IInv, TypeOK
    <3>2. InAgreement' BY <1>1, <2>1, AgreementFrame DEF Undisturbed, CacheInv
    <3>3. CacheOf(p)' BY <3>1, <3>2 DEF CacheOf, Locked
    <3> QED BY <1>1, <3>1, <3>2, <3>3, HoldersKeep
  <2>2. CASE lock # NoProcess
    <3>1. Refused(p) /\ lock' = lock /\ pc[p] = "lock" BY <1>2, <2>2 DEF TryLock
    <3>2. lock # p BY <3>1, HolderIsWithin DEF Locked
    <3> QED BY <1>1, <2>2, <3>1, <3>2, RefusedCache, HoldersKeep DEF IInv
  <2> QED BY <2>1, <2>2
<1>3. CASE CheckLower(p)
  <2>1. pc[p] = "check" /\ lock = p /\ stage[p] = NoStage
    BY <1>3 DEF CheckLower, IInv, ProcOK, LockOK, StageOK, Locked, Fresh
  <2>2. InAgreement' BY <1>1, <2>1, AgreementFrame DEF Undisturbed, CacheInv, CacheOf
  <2>3. CASE lowerBusy
    <3>1. Refused(p) /\ lock' = NoProcess BY <1>3, <2>3 DEF CheckLower
    <3> QED BY <1>1, <2>2, <3>1, RefusedCache, HoldersKeep, ProcessAssumption DEF IInv
  <2>4. CASE ~lowerBusy
    <3>1. /\ pc'[p] = FirstStep(cmd[p]) /\ lock' = lock /\ stage'[p] = stage[p]
          /\ \A q \in Procs \ {p} :
               pc'[q] = pc[q] /\ stage'[q] = stage[q] /\ draft'[q] = draft[q]
      BY <1>3, <2>4 DEF CheckLower, Goto, IInv, TypeOK
    <3>2. FirstStep(cmd[p]) \in {"query", "commit", "read"} BY DEF FirstStep
    <3>3. CacheOf(p)' BY <2>1, <2>2, <3>1, <3>2 DEF CacheOf, Locked
    <3> QED BY <1>1, <2>1, <2>2, <3>1, <3>3, HoldersKeep
  <2> QED BY <2>3, <2>4
<1> QED BY <1>2, <1>3

\* Before the refresh the file is as the committed rows want it.
LEMMA TransactionCache ==
  ASSUME IInv, Undisturbed, NEW p \in Procs,
         ReadForBind(p) \/ ReadForVerdict(p) \/ ReadForDisableAll(p) \/ Cas(p)
  PROVE  CacheInv'
<1>1. /\ pc[p] \in {"read", "cas"} /\ pc'[p] \in {"cas", "query", "unlock"} /\ lock' = lock
      /\ UNCHANGED <<rows, dbKill, cache>>
      /\ \A q \in Procs \ {p} :
           pc'[q] = pc[q] /\ stage'[q] = stage[q] /\ draft'[q] = draft[q]
  BY DEF ReadForBind, ReadForVerdict, ReadForDisableAll, Cas, Goto, dbVars, fileVars, IInv,
     TypeOK
<1>2. lock = p BY <1>1 DEF IInv, ProcOK, LockOK, Locked
<1>3. InAgreement' BY <1>1, <1>2, AgreementFrame DEF Undisturbed, CacheInv, CacheOf
<1>4. CacheOf(p)' BY <1>1, <1>3 DEF CacheOf, Locked
<1> QED BY <1>1, <1>2, <1>3, <1>4, HoldersKeep

\* Without a disable-all nobody but the holder reaches the file.
LEMMA WriterHolds ==
  ASSUME IInv, Undisturbed, NEW p \in Procs
  PROVE  /\ pc[p] # "reload"
         /\ pc[p] \in {"query", "truncate", "write", "rekill", "commit", "unlock"} => lock = p
BY DEF IInv, ProcOK, KillOK, LockOK, Locked, Undisturbed

LEMMA RefreshCache ==
  ASSUME IInv, Undisturbed, NEW p \in Procs,
         QueryState(p) \/ ReloadState(p) \/ TruncateFile(p) \/ WriteFile(p)
  PROVE  CacheInv'
<1>1. lock = p /\ CacheOf(p) /\ ~ReloadState(p)
  BY WriterHolds DEF QueryState, ReloadState, TruncateFile, WriteFile, Undisturbed, CacheInv
<1>2. CASE QueryState(p)
  <2>1. /\ pc'[p] = "truncate" /\ lock' = lock /\ draft'[p] = Rendered(stage[p])
        /\ stage'[p] = stage[p] /\ UNCHANGED <<rows, dbKill, cache>>
        /\ \A q \in Procs \ {p} :
             pc'[q] = pc[q] /\ stage'[q] = stage[q] /\ draft'[q] = draft[q]
    BY <1>2 DEF QueryState, Goto, dbVars, fileVars, IInv, TypeOK
  <2>2. Rendered(stage[p])' = Rendered(stage[p])
    BY <2>1 DEF Rendered, ViewRows, CurrentRows
  <2>3. CacheOf(p)' BY <2>1, <2>2 DEF CacheOf, Locked
  <2> QED BY <1>1, <2>1, <2>3, HoldersKeep, ProcessAssumption
<1>3. CASE TruncateFile(p)
  <2>1. /\ pc[p] = "truncate" /\ pc'[p] = "write" /\ lock' = lock
        /\ cache' = NoFile("empty") /\ UNCHANGED <<rows, dbKill, stage, draft>>
        /\ \A q \in Procs \ {p} : pc'[q] = pc[q]
    BY <1>3 DEF TruncateFile, Goto, dbVars, workVars, IInv, TypeOK
  <2>2. Rendered(stage[p])' = Rendered(stage[p])
    BY <2>1 DEF Rendered, ViewRows, CurrentRows
  <2>3. CacheOf(p)' BY <1>1, <2>1, <2>2 DEF CacheOf, Locked, NoFile
  <2> QED BY <1>1, <2>1, <2>3, HoldersKeep, ProcessAssumption
<1>4. CASE WriteFile(p)
  <2>1. /\ pc[p] = "write" /\ pc'[p] = "rekill" /\ lock' = lock
        /\ UNCHANGED <<rows, dbKill, stage, draft>>
        /\ \A q \in Procs \ {p} : pc'[q] = pc[q]
    BY <1>1, <1>4 DEF WriteFile, Goto, dbVars, IInv, TypeOK
  <2>2. cache.form = "empty" /\ draft[p] = Rendered(stage[p])
    BY <1>1, <2>1 DEF CacheOf, NoFile
  <2>3. cache' = [form |-> "whole", state |-> Rendered(stage[p])]
    BY <1>4, <2>2 DEF WriteFile
  <2>4. Rendered(stage[p])' = Rendered(stage[p])
    BY <2>1 DEF Rendered, ViewRows, CurrentRows
  <2>5. CacheOf(p)' BY <2>1, <2>3, <2>4 DEF CacheOf, Locked
  <2> QED BY <1>1, <2>1, <2>5, HoldersKeep, ProcessAssumption
<1> QED BY <1>1, <1>2, <1>3, <1>4

\* The commit makes true what the file says; the release finds it so.
LEMMA CommitCache ==
  ASSUME IInv, Undisturbed, NEW p \in Procs, RewriteKill(p) \/ Commit(p) \/ Unlock(p)
  PROVE  CacheInv'
<1>1. lock = p /\ CacheOf(p)
  BY WriterHolds DEF RewriteKill, Commit, Unlock, Undisturbed, CacheInv
<1>2. CASE RewriteKill(p)
  <2>1. /\ pc[p] = "rekill" /\ pc'[p] = "commit" /\ lock' = lock
        /\ UNCHANGED <<rows, dbKill, cache, stage, draft>>
        /\ \A q \in Procs \ {p} : pc'[q] = pc[q]
    BY <1>2 DEF RewriteKill, Goto, dbVars, workVars, IInv, TypeOK
  <2>2. Rendered(stage[p])' = Rendered(stage[p]) /\ (InAgreement => InAgreement')
    BY <2>1, AgreementFrame DEF Rendered, ViewRows, CurrentRows
  <2>3. CacheOf(p)' BY <1>1, <2>1, <2>2 DEF CacheOf, Locked
  <2> QED BY <1>1, <2>1, <2>3, HoldersKeep, ProcessAssumption
<1>3. CASE Commit(p)
  <2>1. /\ pc[p] = "commit" /\ pc'[p] = "unlock" /\ lock' = lock
        /\ rows' = ViewRows(stage[p]) /\ dbKill' = (dbKill \/ stage[p].kill)
        /\ UNCHANGED <<cache, stage, draft>>
        /\ \A q \in Procs \ {p} : pc'[q] = pc[q]
    BY <1>3 DEF Commit, Goto, fileVars, workVars, IInv, TypeOK
  <2>2. ViewRows(NoStage) = rows /\ ViewRows(NoStage)' = rows'
    BY DEF ViewRows, NoStage
  <2>3. dbKill \in BOOLEAN /\ stage[p].kill \in BOOLEAN BY DEF IInv, TypeOK, Stages
  <2>4. Rendered(NoStage)' = Rendered(stage[p])
    BY <2>1, <2>2, <2>3 DEF Rendered, CurrentRows, NoStage
  <2>5. InAgreement'
    <3>1. CASE cache = [form |-> "whole", state |-> Rendered(stage[p])]
      BY <2>1, <2>4, <3>1 DEF InAgreement
    <3>2. CASE stage[p] = NoStage /\ InAgreement
      BY <2>1, <2>2, <2>4, <3>2 DEF InAgreement
    <3> QED BY <1>1, <2>1, <3>1, <3>2 DEF CacheOf
  <2>6. CacheOf(p)' BY <2>1, <2>5 DEF CacheOf, Locked
  <2> QED BY <1>1, <2>1, <2>5, <2>6, HoldersKeep
<1>4. CASE Unlock(p)
  <2>1. /\ pc[p] = "unlock" /\ lock' = NoProcess /\ UNCHANGED <<rows, dbKill, cache>>
        /\ \A q \in Procs \ {p} :
             pc'[q] = pc[q] /\ stage'[q] = stage[q] /\ draft'[q] = draft[q]
    BY <1>4 DEF Unlock, Finish, Goto, dbVars, fileVars, IInv, TypeOK
  <2>2. InAgreement' BY <1>1, <2>1, AgreementFrame DEF CacheOf
  <2> QED BY <2>1, <2>2, HoldersKeep, ProcessAssumption
<1> QED BY <1>2, <1>3, <1>4

LEMMA NextKeepsCache == IInv /\ CacheInv /\ [Next]_vars => CacheInv'
<1> SUFFICES ASSUME IInv, CacheInv, [Next]_vars, budget'.crashes = 0, ~killFile'
             PROVE  CacheInv'
  BY DEF CacheInv
<1>1. ASSUME NEW p \in Procs, Crash(p) PROVE FALSE
  <2>1. budget.crashes \in Nat /\ budget'.crashes = budget.crashes + 1
    BY <1>1, BoundAssumption DEF Crash, IInv, TypeOK
  <2> QED BY <2>1
<1>2. ASSUME NEW p \in Procs, EngageKill(p) PROVE FALSE
  BY <1>2 DEF EngageKill
<1>3. ASSUME NEW p \in Procs, Step(p) PROVE UNCHANGED budget /\ (killFile => killFile')
  <2>1. UNCHANGED budget
    BY <1>3 DEF Step, EngageKill, TryLock, CheckLower, ReadForBind, ReadForVerdict,
       ReadForDisableAll, Cas, QueryState, ReloadState, TruncateFile, WriteFile, RewriteKill,
       Commit, Unlock, LoadForCanary, RunUnit, FinishUnits, envVars
  <2>2. CASE EngageKill(p) BY <2>1, <2>2 DEF EngageKill
  <2>3. CASE RewriteKill(p) BY <2>1, <2>3 DEF RewriteKill
  <2>4. CASE ~EngageKill(p) /\ ~RewriteKill(p)
    <3>1. killFile' = killFile
      BY <1>3, <2>4 DEF Step, TryLock, CheckLower, ReadForBind, ReadForVerdict,
         ReadForDisableAll, Cas, QueryState, ReloadState, TruncateFile, WriteFile,
         Commit, Unlock, LoadForCanary, RunUnit, FinishUnits, fileVars
    <3> QED BY <2>1, <3>1
  <2> QED BY <2>2, <2>3, <2>4
<1>4. ASSUME (\E p \in Procs : StartCommand(p)) \/ StartTimer \/ LowerStarts \/ LowerEnds
      PROVE  budget'.crashes = budget.crashes /\ killFile' = killFile
  BY <1>4 DEF StartCommand, StartTimer, LowerStarts, LowerEnds, fileVars, envVars, IInv, TypeOK
<1>5. Undisturbed
  BY <1>1, <1>3, <1>4 DEF Next, vars, Undisturbed
<1>6. CASE StartTimer BY <1>5, <1>6, StartTimerCache
<1>7. CASE LowerStarts \/ LowerEnds \/ UNCHANGED vars
  <2>1. UNCHANGED <<rows, dbKill, cache, lock, pc, stage, draft>>
    BY <1>7 DEF LowerStarts, LowerEnds, vars, dbVars, fileVars, workVars
  <2> QED BY <1>5, <2>1, AgreementFrame, CacheFrame DEF Undisturbed, CacheInv
<1>8. ASSUME NEW p \in Procs, StartCommand(p) PROVE CacheInv'
  BY <1>5, <1>8, OutsideCache
<1>9. ASSUME NEW p \in Procs, Step(p) PROVE CacheInv'
  BY <1>2, <1>5, <1>9, OutsideCache, LockCache, TransactionCache, RefreshCache, CommitCache
  DEF Step
<1> QED BY <1>1, <1>6, <1>7, <1>8, <1>9 DEF Next

-----------------------------------------------------------------------------
(* The theorems. *)

\* The invariant holds in every state the control plane reaches: in
\* particular a process with uncommitted writes holds the advisory lock.
THEOREM Invariance == Spec => []IInv
BY Initially, NextKeeps, PTL DEF Spec

\* Every variable keeps its type, for any policies, operators and bounds.
THEOREM TypeCorrect == Spec => []TypeOK
<1>1. IInv => TypeOK BY DEF IInv
<1> QED BY <1>1, Invariance, PTL

\* The bindings table never holds two rows of one version, and its newest row
\* alone is current, with any number of operators and crashes.
THEOREM OneCurrentHolds == Spec => []OneCurrent
<1>1. IInv => OneCurrent BY DEF IInv, Chain, OneCurrent
<1> QED BY <1>1, Invariance, PTL

\* After a disable-all that answered success nothing resolves to a candidate,
\* whether or not the command had the lock.
THEOREM KillSwitchHolds == Spec => []KillHolds
<1>1. IInv => KillHolds BY DEF IInv, KillHolds, ResolvesCandidate
<1> QED BY <1>1, Invariance, PTL

\* While no process has crashed, the file resolvers read says what the database
\* says whenever the lock is free, or the KILL file overrides it: two writers of
\* the file, one of them without the lock, never leave it behind the rows.
THEOREM CacheAgreesHolds == Spec => []CacheAgrees
<1>1. Init => CacheInv
  BY ProcessAssumption DEF Init, CacheInv, InAgreement, NoFile
<1>2. IInv /\ CacheInv /\ [Next]_vars => CacheInv' BY NextKeepsCache
<1>3. CacheInv => CacheAgrees BY DEF CacheInv, CacheAgrees
<1> QED BY <1>1, <1>2, <1>3, Invariance, PTL DEF Spec

\* The mode of the binding the rows point at, as the abstract pointer has it.
LEMMA StepImplements ==
  ASSUME IInv, [Next]_vars
  PROVE  [Ptr!PtrNext]_(Ptr!ptrVars)
<1> USE DEF Pointer
<1>1. ASSUME NEW p \in Procs, Commit(p) PROVE [Ptr!PtrNext]_(Ptr!ptrVars)
  <2>1. dbKill' = (dbKill \/ stage[p].kill) BY <1>1 DEF Commit
  <2>2. stage[p].kill \in BOOLEAN /\ dbKill \in BOOLEAN
    BY DEF IInv, TypeOK, Stages
  <2>3. CASE PendingNothing(p) /\ rows' = rows
    <3>1. CASE stage[p].kill
      BY <2>1, <2>3, <3>1 DEF PendingNothing, Ptr!PtrNext, Ptr!Engage, Ptr!ActiveModes,
         PointerOf, ActiveModes
    <3>2. CASE ~stage[p].kill
      BY <2>1, <2>2, <2>3, <3>2 DEF Ptr!ptrVars
    <3> QED BY <3>1, <3>2
  <2>4. CASE \E h \in Refs, m \in ActiveModes \union {"DISABLED"} :
               /\ m \in ActiveModes => h \in Policies /\ ~stage[p].kill
               /\ stage[p].kill => h = Pointer.policy /\ Pointer.mode \in ActiveModes
               /\ rows' = Extended(rows, NewRow(rows, h, m))
    <3>1. PICK h \in Refs, m \in ActiveModes \union {"DISABLED"} :
               /\ m \in ActiveModes => h \in Policies /\ ~stage[p].kill
               /\ stage[p].kill => h = Pointer.policy /\ Pointer.mode \in ActiveModes
               /\ rows' = Extended(rows, NewRow(rows, h, m))
      BY <2>4
    <3>2. CurrentBinding(rows)' = NewRow(rows, h, m)
      <4>1. CurrentBinding(Extended(rows, NewRow(rows, h, m))) = NewRow(rows, h, m)
        BY ChainExtends DEF IInv
      <4> QED BY <3>1, <4>1 DEF CurrentBinding, CurrentRows, NoRow
    <3>3. PointerOf(Pointer)' =
            [version |-> Pointer.version + 1, policy |-> h, mode |-> m]
      BY <3>2 DEF PointerOf, NewRow
    <3>4. CASE stage[p].kill
      <4>1. m = "DISABLED" /\ h = Pointer.policy /\ Pointer.mode \in ActiveModes
        BY <3>1, <3>4 DEF ActiveModes
      <4>2. Ptr!Engage
        BY <2>1, <3>3, <3>4, <4>1 DEF Ptr!Engage, Ptr!Moved, Ptr!ActiveModes, PointerOf,
           ActiveModes
      <4> QED BY <4>2 DEF Ptr!PtrNext
    <3>5. CASE ~stage[p].kill
      <4>1. dbKill' = dbKill BY <2>1, <2>2, <3>5
      <4>2. CASE m \in ActiveModes
        BY <3>1, <3>3, <4>1, <4>2
        DEF Ptr!PtrNext, Ptr!Activate, Ptr!Moved, Ptr!ActiveModes, PointerOf, ActiveModes
      <4>3. CASE m = "DISABLED"
        BY <3>1, <3>3, <4>1, <4>3
        DEF Ptr!PtrNext, Ptr!Disable, Ptr!Moved, PointerOf, Refs
      <4> QED BY <4>2, <4>3
    <3> QED BY <3>4, <3>5
  <2> QED BY <1>1, <2>3, <2>4, CommitOutcome
<1>2. CASE rows' = rows /\ dbKill' = dbKill
  BY <1>2 DEF Ptr!ptrVars, PointerOf, CurrentBinding, CurrentRows, NoRow
<1>3. CASE Next
  <2>1. ASSUME NEW p \in Procs, Step(p) \/ StartCommand(p) \/ Crash(p)
        PROVE  Commit(p) \/ (rows' = rows /\ dbKill' = dbKill)
    BY <2>1 DEF Step, StartCommand, Crash, EngageKill, TryLock, CheckLower, ReadForBind,
       ReadForVerdict, ReadForDisableAll, Cas, QueryState, ReloadState, TruncateFile,
       WriteFile, RewriteKill, Unlock, LoadForCanary, RunUnit, FinishUnits, dbVars
  <2>2. CASE StartTimer \/ LowerStarts \/ LowerEnds
    BY <1>2, <2>2 DEF StartTimer, LowerStarts, LowerEnds, dbVars
  <2> QED BY <1>1, <1>2, <1>3, <2>1, <2>2 DEF Next
<1> QED BY <1>2, <1>3 DEF vars

\* The control plane implements the versioned pointer with a kill switch:
\* locks, transactions, crashes and cache writes are all invisible in it.
THEOREM Refinement == Spec => ImplementsPointer
<1>1. Init => Ptr!PtrInit
  <2> SUFFICES ASSUME Init PROVE Ptr!PtrInit OBVIOUS
  <2>1. Chain(rows) /\ rows = {} BY DEF Init, Chain
  <2>2. Pointer = NoRow BY <2>1, BindingOfChain DEF Pointer
  <2> QED BY <2>2 DEF Init, Ptr!PtrInit, PointerOf, NoRow
<1>2. IInv /\ [Next]_vars => [Ptr!PtrNext]_(Ptr!ptrVars) BY StepImplements
<1> QED BY <1>1, <1>2, Invariance, PTL DEF Spec, ImplementsPointer, Ptr!PtrSpec
=============================================================================
