---------------------- MODULE ProductionCommands_proofs ----------------------
(***************************************************************************)
(* Proofs about ProductionCommands, and RealAgentRun under it, for any     *)
(* runners, operators, tasks, grants, worlds and bounds.  Two arguments    *)
(* that do not meet: a run of agents carries its limits in its own record  *)
(* (GoodRuns), so what happens to the authorization file meanwhile is of   *)
(* no account; and a request that is still in the queue belongs to a       *)
(* command of its round (RequestsOf), so an answer that says CANDIDATE is  *)
(* for a unit that holds a slot however late it is.  The third joins them, *)
(* for a definition that is not edited: from the first unit of a run over  *)
(* the label and the gates of bind to the slot (EarnedInv).                *)
(***************************************************************************)
EXTENDS ProductionCommands, FiniteSetTheorems, SequenceTheorems, TLAPS

-----------------------------------------------------------------------------
(* The invariant of the runs.                                              *)

Results == [unit : [pair : Int, role : {"CONTROL", "CANDIDATE"}], outcome : Outcomes]

RunRecords ==
  [pc : {"idle", "write_budget", "loop", "unit", "analyze"},
   version : Versions \union {None}, units : Nat, calls : Nat, made : Nat,
   results : Seq(Results)]

\* A run stays within the limits it has read, the running unit included.
WithinLimits(rec) ==
  LET running == IF rec.pc = "unit" THEN 1 ELSE 0
  IN /\ rec.made + running <= rec.calls
     /\ Len(rec.results) + running <= rec.units
     /\ Len(rec.results) + running <= PlannedUnits(rec.version)

GoodRuns ==
  {rec \in RunRecords :
     /\ rec.pc # "idle" => rec.version \in Versions
     /\ rec.pc \in {"loop", "unit"} => WithinLimits(rec)}

SequenceFiles ==
  [version : Versions, results : Seq(Results)]

GoodSequences == {s \in SequenceFiles : Len(s.results) <= PlannedUnits(s.version)}

Authorizations == [version : Versions, units : Nat, calls : Nat, valid : BOOLEAN]

RunsOK ==
  /\ h1 \in BOOLEAN
  /\ version \in Versions
  /\ auth \in Authorizations \union {None}
  /\ sequence \in GoodSequences \union {None, Torn}
  /\ analysis \in {None, Torn} \/ analysis.version \in Versions \union {None}
  /\ run \in [Runners -> GoodRuns]
  /\ starts \in 0..MaxStarts
  /\ earned \subseteq Versions

-----------------------------------------------------------------------------
(* The invariant of the commands.                                          *)

CanaryUnits == Tasks \X {"task", "late"}
CommandKinds == {"bind", "canary", "shadow", "probe", "rollback"}
Askers == {"canary", "shadow", "probe"}
AnswerWords == {"PEER_REJECTED", "SHADOW_NO_ACTUATE", "BASELINE", "CANDIDATE",
                "EXPOSURE_EXHAUSTED", "IPC timeout"}
Refusals == {"error", "BLOCKED_SECURITY_BOUNDARY", "BLOCKED_EVIDENCE", "BLOCKED_H3",
             "BLOCKED_APPROVAL", "SKIPPED_NO_CANDIDATE", "BLOCKED_WRITE"}
StatusWords == Refusals \union {None, "BOUND", "PASS", "FAIL", "BLOCKED_PEER", "FAIL_EXPOSURE"}

States == {s \in [version : Versions \union {None}, active : BOOLEAN] :
             s.active => s.version \in Versions}

Replies == [answer : AnswerWords, version : Versions \union {None}, unit : CanaryUnits]

CmdRecords ==
  [pc : {"idle", "gates", "write", "wait"}, kind : CommandKinds \union {None},
   task : Tasks \union {None}, read : Nat, version : Versions \union {None},
   file : States \union {None}, reply : Replies \union {None}, answers : Seq(AnswerWords),
   status : StatusWords, round : Nat]

GoodCmds ==
  {c \in CmdRecords :
     /\ c.pc # "idle" => c.kind \in CommandKinds /\ c.task \in Tasks
     /\ c.pc \in {"gates", "wait"} => c.read <= Len(GatesOf(c.kind))
     /\ c.pc = "write" => \/ c.kind = "bind" /\ c.version \in Versions
                          \/ c.kind = "rollback" /\ c.file \in States
     /\ c.pc = "wait" => c.kind \in Askers /\ Len(c.answers) < Asks(c.kind)
     /\ c.pc # "wait" => c.reply = None
     /\ Len(c.answers) <= 2}

\* What a command has been answered and what it says are true of the slots.
TrueOf(S, c) ==
  /\ \A i \in DOMAIN c.answers : c.answers[i] = "CANDIDATE" =>
       c.kind = "canary" /\ \E v \in Versions : Unit(c.task, i) \in S[v]
  /\ c.reply # None /\ c.reply.answer = "CANDIDATE" =>
       /\ c.kind = "canary" /\ c.reply.unit = Unit(c.task, Len(c.answers) + 1)
       /\ c.reply.version \in Versions /\ c.reply.unit \in S[c.reply.version]
  /\ c.kind = "canary" /\ c.status = "PASS" => \E v \in Versions : Unit(c.task, 1) \in S[v]
  /\ c.status = "FAIL_EXPOSURE" =>
       \E v, w \in Versions : v # w /\ S[v] # {} /\ S[w] # {}

AnyRequests == [op : Operators, round : Nat, n : {1, 2}, shadow : BOOLEAN, unit : CanaryUnits]

\* A request is of an earlier round of its operator, or of the command it runs.
RequestsOf(C) ==
  {q \in AnyRequests :
     /\ q.round <= C[q.op].round
     /\ q.round = C[q.op].round =>
          q.unit = Unit(C[q.op].task, q.n) /\ (q.shadow <=> C[q.op].kind # "canary")}

SlotsOK ==
  /\ slots \in [Versions -> SUBSET CanaryUnits]
  /\ \A v \in Versions : \A x, y \in slots[v] : x = y

CommandsOK ==
  /\ grant \in Grants \union {None} /\ live \in Identities \union {Unbound}
  /\ state \in States
  /\ SlotsOK
  /\ cmd \in [Operators -> GoodCmds]
  /\ \A o \in Operators : cmd[o].round <= MaxCommands[o] /\ TrueOf(slots, cmd[o])
  /\ queue \in Seq(RequestsOf(cmd))

IInv == RunsOK /\ CommandsOK

-----------------------------------------------------------------------------
(* The runs.                                                               *)

LEMMA Planning ==
  /\ 1 \in Versions
  /\ \A v \in Versions : PlannedUnits(v) \in Nat /\ PlannedUnits(v) >= 2
BY RunAssumption DEF Versions, PlannedUnits

LEMMA IdleIsGood == Idle \in GoodRuns
<1>1. <<>> \in Seq(Results) BY EmptySeq
<1>2. Idle \in RunRecords BY <1>1 DEF Idle, RunRecords
<1> QED BY <1>2 DEF Idle, GoodRuns

\* The next unit of a sequence of planned units.
LEMMA NextUnit ==
  ASSUME NEW v \in Versions, NEW i \in 1..PlannedUnits(v)
  PROVE  AssignPaired(v)[i] \in [pair : Int, role : {"CONTROL", "CANDIDATE"}]
<1>1. (i + 1) \div 2 \in Int BY Planning
<1> QED BY <1>1 DEF AssignPaired

LEMMA OneMore ==
  ASSUME NEW rec \in GoodRuns, rec.pc \in {"loop", "unit"},
         Len(rec.results) < PlannedUnits(rec.version), NEW outcome \in Outcomes
  PROVE  LET more == Append(rec.results,
                       [unit |-> AssignPaired(rec.version)[Len(rec.results) + 1],
                        outcome |-> outcome])
         IN more \in Seq(Results) /\ Len(more) = Len(rec.results) + 1
<1> DEFINE new == [unit |-> AssignPaired(rec.version)[Len(rec.results) + 1], outcome |-> outcome]
<1>1. rec.version \in Versions /\ rec.results \in Seq(Results) BY DEF GoodRuns, RunRecords
<1>2. Len(rec.results) \in Nat BY <1>1, LenProperties
<1>3. Len(rec.results) + 1 \in 1..PlannedUnits(rec.version) BY <1>1, <1>2, Planning
<1>4. new \in Results BY <1>1, <1>3, NextUnit DEF Results
<1> HIDE DEF new
<1>5. Append(rec.results, new) \in Seq(Results)
      /\ Len(Append(rec.results, new)) = Len(rec.results) + 1
  BY <1>1, <1>4, AppendProperties
<1> QED BY <1>5 DEF new

LEMMA RunsStart == Init => RunsOK
<1> SUFFICES ASSUME Init PROVE RunsOK OBVIOUS
<1>1. PICK w \in InitialWorlds : h1 = w.h1 BY DEF Init
<1>2. h1 \in BOOLEAN BY <1>1, CommandAssumption
<1>3. run \in [Runners -> GoodRuns] BY IdleIsGood DEF Init, RunInit
<1>4. starts \in 0..MaxStarts BY RunAssumption DEF Init, RunInit
<1> QED BY <1>2, <1>3, <1>4, Planning DEF Init, RunInit, RunsOK

LEMMA WriteBudgetKeeps ==
  ASSUME RunsOK, NEW r \in Runners, CheckBudget(r) \/ WriteBudget(r)
  PROVE  RunsOK'
<1>1. CASE CheckBudget(r)
  <2>1. [Idle EXCEPT !.pc = "write_budget", !.version = version] \in GoodRuns
    BY <1>1, EmptySeq DEF Idle, GoodRuns, RunRecords, RunsOK
  <2>2. run' \in [Runners -> GoodRuns] BY <1>1, <2>1 DEF CheckBudget, RunsOK
  <2> QED BY <1>1, <2>2 DEF CheckBudget, RunsOK
<1>2. CASE WriteBudget(r)
  <2>1. run[r].version \in Versions BY <1>2 DEF WriteBudget, RunsOK, GoodRuns
  <2>2. auth' \in Authorizations
    BY <1>2, <2>1, Planning DEF WriteBudget, Authorization, Authorizations
  <2>3. run' \in [Runners -> GoodRuns] BY <1>2, IdleIsGood DEF WriteBudget, RunsOK
  <2> QED BY <1>2, <2>2, <2>3 DEF WriteBudget, RunsOK
<1> QED BY <1>1, <1>2

LEMMA AuthorizeKeeps ==
  ASSUME RunsOK, Authorize \/ EditDefinition
  PROVE  RunsOK'
<1>1. CASE Authorize
  <2>1. auth' \in Authorizations \union {None}
    <3>1. CASE auth = None /\ \E a \in HandWritten : auth' = Authorization(version, a.units, a.calls)
      BY <3>1, RunAssumption DEF Authorization, Authorizations, RunsOK
    <3>2. CASE auth # None /\ auth' \in {None, [auth EXCEPT !.valid = FALSE]} \ {auth}
      <4>1. \A a \in Authorizations : [a EXCEPT !.valid = FALSE] \in Authorizations
        BY DEF Authorizations
      <4> QED BY <3>2, <4>1 DEF RunsOK
    <3> QED BY <1>1, <3>1, <3>2 DEF Authorize
  <2> QED BY <1>1, <2>1 DEF Authorize, RunsOK
<1>2. CASE EditDefinition
  <2>1. version' \in Versions BY <1>2, RunAssumption DEF EditDefinition, RunsOK, Versions
  <2> QED BY <1>2, <2>1 DEF EditDefinition, RunsOK
<1> QED BY <1>1, <1>2

LEMMA StartRunKeeps ==
  ASSUME RunsOK, NEW r \in Runners, StartRun(r)
  PROVE  RunsOK'
<1> DEFINE rec == [Idle EXCEPT !.pc = "loop", !.version = version,
                               !.units = auth.units, !.calls = auth.calls]
<1>1. auth \in Authorizations /\ version \in Versions BY DEF StartRun, Authorized, RunsOK
<1>2. auth.units \in Nat /\ auth.calls \in Nat BY <1>1 DEF Authorizations
<1>3. <<>> \in Seq(Results) /\ Len(<<>>) = 0 BY EmptySeq
<1>4. rec \in RunRecords BY <1>1, <1>2, <1>3 DEF Idle, RunRecords
<1>5. WithinLimits(rec) BY <1>1, <1>2, <1>3, Planning DEF WithinLimits, Idle
<1>6. rec \in GoodRuns BY <1>1, <1>4, <1>5 DEF GoodRuns, Idle
<1>7. run' \in [Runners -> GoodRuns] BY <1>6 DEF StartRun, RunsOK
<1>8. starts' \in 0..MaxStarts BY RunAssumption DEF StartRun, RunsOK
<1> QED BY <1>7, <1>8 DEF StartRun, RunsOK

LEMMA SpawnAgentKeeps ==
  ASSUME RunsOK, NEW r \in Runners, SpawnAgent(r)
  PROVE  RunsOK'
<1>1. run[r] \in GoodRuns /\ run[r].pc = "loop" BY DEF SpawnAgent, RunsOK
<1>2. run[r] \in RunRecords /\ run[r].version \in Versions /\ WithinLimits(run[r])
  BY <1>1 DEF GoodRuns
<1>3. \A rec \in RunRecords : [rec EXCEPT !.pc = "unit"] \in RunRecords BY DEF RunRecords
<1>4. Len(run[r].results) \in Nat BY <1>2, LenProperties DEF RunRecords
<1>5. /\ Len(run[r].results) + 1 <= run[r].units
      /\ run[r].made + 1 <= run[r].calls
      /\ Len(run[r].results) + 1 <= PlannedUnits(run[r].version)
  BY <1>1, <1>2, <1>4, Planning DEF SpawnAgent, MayExecute, AtEnd, WithinLimits, RunRecords
<1> DEFINE rec == [run[r] EXCEPT !.pc = "unit"]
<1>6. rec \in RunRecords BY <1>2, <1>3
<1>7. /\ rec.pc = "unit" /\ rec.results = run[r].results /\ rec.units = run[r].units
      /\ rec.made = run[r].made /\ rec.calls = run[r].calls /\ rec.version = run[r].version
  BY <1>2 DEF RunRecords
<1> HIDE DEF rec
<1>8. rec \in GoodRuns BY <1>2, <1>5, <1>6, <1>7 DEF GoodRuns, WithinLimits
<1>9. run' \in [Runners -> GoodRuns] BY <1>8 DEF SpawnAgent, RunsOK, rec
<1> QED BY <1>9 DEF SpawnAgent, RunsOK

\* Appending the result of a unit: the run still fits its limits, for the unit
\* that was running is now counted, and a unit without a store spawned nothing.
LEMMA EndUnitKeeps ==
  ASSUME RunsOK, NEW r \in Runners, EndUnit(r)
  PROVE  RunsOK'
<1>1. PICK outcome \in Outcomes :
        LET v == run[r].version
            results == Append(run[r].results,
                         [unit |-> AssignPaired(v)[Len(run[r].results) + 1],
                          outcome |-> outcome])
        IN /\ IF outcome = "BLOCKED_PROVIDER_AUTH" THEN run[r].pc = "loop" /\ MayExecute(r)
                                                   ELSE run[r].pc = "unit"
           /\ sequence' = [version |-> v, results |-> results]
           /\ earned' = IF Evidence(v, results) THEN earned \union {v} ELSE earned
           /\ run' = [run EXCEPT ![r].pc = "loop", ![r].results = results,
                        ![r].made = IF outcome = "BLOCKED_PROVIDER_AUTH" THEN @ ELSE @ + 1]
  BY DEF EndUnit
<1> DEFINE old == run[r]
           results == Append(old.results,
                        [unit |-> AssignPaired(old.version)[Len(old.results) + 1],
                         outcome |-> outcome])
           made == IF outcome = "BLOCKED_PROVIDER_AUTH" THEN old.made ELSE old.made + 1
           rec == [old EXCEPT !.pc = "loop", !.results = results, !.made = made]
<1>2. old \in GoodRuns BY DEF RunsOK
<1>3. old.pc \in {"loop", "unit"} BY <1>1
<1>4. old \in RunRecords /\ old.version \in Versions /\ WithinLimits(old)
  BY <1>2, <1>3 DEF GoodRuns
<1>5. Len(old.results) \in Nat BY <1>4, LenProperties DEF RunRecords
<1>6. /\ Len(old.results) + 1 <= old.units
      /\ made <= old.calls
      /\ Len(old.results) + 1 <= PlannedUnits(old.version)
  <2>1. /\ old.made \in Nat /\ old.units \in Nat /\ old.calls \in Nat
        /\ PlannedUnits(old.version) \in Nat
    BY <1>4, Planning DEF RunRecords
  <2>2. CASE outcome = "BLOCKED_PROVIDER_AUTH"
    <3>1. old.pc = "loop" /\ MayExecute(r) BY <1>1, <2>2
    <3> QED BY <1>4, <1>5, <2>1, <2>2, <3>1 DEF MayExecute, AtEnd, WithinLimits
  <2>3. CASE outcome # "BLOCKED_PROVIDER_AUTH"
    <3>1. old.pc = "unit" BY <1>1, <2>3
    <3> QED BY <1>4, <1>5, <2>1, <2>3, <3>1 DEF WithinLimits
  <2> QED BY <2>2, <2>3
<1>7. results \in Seq(Results) /\ Len(results) = Len(old.results) + 1
  BY <1>2, <1>3, <1>4, <1>5, <1>6, Planning, OneMore
<1>8. made \in Nat BY <1>4 DEF RunRecords
<1> HIDE DEF results, made
<1>9. \A x \in RunRecords, s \in Seq(Results), n \in Nat :
        [x EXCEPT !.pc = "loop", !.results = s, !.made = n] \in RunRecords
  BY DEF RunRecords
<1>10. rec \in RunRecords BY <1>4, <1>7, <1>8, <1>9
<1>11. /\ rec.pc = "loop" /\ rec.results = results /\ rec.units = old.units
       /\ rec.made = made /\ rec.calls = old.calls /\ rec.version = old.version
  BY <1>4 DEF RunRecords
<1>12. run' = [run EXCEPT ![r] = rec] BY <1>1 DEF results, made, RunsOK
<1>13. old.made \in Nat BY <1>4 DEF RunRecords
<1>14. sequence' = [version |-> old.version, results |-> results]
  BY <1>1 DEF results
<1>15. earned' \subseteq Versions BY <1>1, <1>4 DEF RunsOK
<1> HIDE DEF old, rec
<1>16. rec \in GoodRuns
  <2>1. WithinLimits(rec) BY <1>5, <1>6, <1>7, <1>8, <1>11 DEF WithinLimits
  <2> QED BY <1>4, <1>10, <1>11, <2>1 DEF GoodRuns
<1>17. run' \in [Runners -> GoodRuns] BY <1>12, <1>16 DEF RunsOK
<1>18. sequence' \in GoodSequences
  BY <1>4, <1>6, <1>7, <1>13, <1>14 DEF GoodSequences, SequenceFiles
<1> QED BY <1>15, <1>17, <1>18 DEF EndUnit, RunsOK

LEMMA FinishKeeps ==
  ASSUME RunsOK, NEW r \in Runners, Finish(r)
  PROVE  RunsOK'
<1>1. /\ sequence' = [version |-> run[r].version, results |-> run[r].results]
      /\ run' = [run EXCEPT ![r].pc = "analyze"]
  BY DEF Finish
<1>3. run[r] \in GoodRuns /\ run[r].pc = "loop" BY DEF Finish, RunsOK
<1>4. run[r] \in RunRecords /\ run[r].version \in Versions /\ WithinLimits(run[r])
  BY <1>3 DEF GoodRuns
<1>5. Len(run[r].results) \in Nat BY <1>4, LenProperties DEF RunRecords
<1>6. Len(run[r].results) <= PlannedUnits(run[r].version)
  BY <1>3, <1>4, <1>5 DEF WithinLimits
<1>7. sequence' \in GoodSequences
  BY <1>1, <1>4, <1>6 DEF GoodSequences, SequenceFiles, RunRecords
<1>8. \A x \in RunRecords :
        /\ [x EXCEPT !.pc = "analyze"] \in RunRecords
        /\ [x EXCEPT !.pc = "analyze"].pc = "analyze"
        /\ [x EXCEPT !.pc = "analyze"].version = x.version
  BY DEF RunRecords
<1>9. [run[r] EXCEPT !.pc = "analyze"] \in GoodRuns
  BY <1>4, <1>8 DEF GoodRuns
<1>10. run' \in [Runners -> GoodRuns] BY <1>1, <1>9 DEF RunsOK
<1> QED BY <1>7, <1>10 DEF Finish, RunsOK

LEMMA AnalyzeKeeps ==
  ASSUME RunsOK, NEW r \in Runners, StartAnalyze(r) \/ WriteAnalysis(r) \/ KillRunner(r)
  PROVE  RunsOK'
<1>1. CASE StartAnalyze(r)
  <2>1. sequence \in GoodSequences BY <1>1 DEF StartAnalyze, RunsOK
  <2>2. sequence.results \in Seq(Results) BY <2>1 DEF GoodSequences, SequenceFiles
  <2>3. [Idle EXCEPT !.pc = "analyze", !.version = version, !.results = sequence.results]
          \in GoodRuns
    BY <2>2 DEF Idle, GoodRuns, RunRecords, RunsOK
  <2>4. run' \in [Runners -> GoodRuns] BY <1>1, <2>3 DEF StartAnalyze, RunsOK
  <2> QED BY <1>1, <2>4 DEF StartAnalyze, RunsOK
<1>2. CASE WriteAnalysis(r)
  <2>1. run[r].version \in Versions BY <1>2 DEF WriteAnalysis, RunsOK, GoodRuns
  <2>2. analysis'.version \in Versions \union {None}
    BY <1>2, <2>1 DEF WriteAnalysis, Analysis
  <2>3. run' \in [Runners -> GoodRuns] BY <1>2, IdleIsGood DEF WriteAnalysis, RunsOK
  <2> QED BY <1>2, <2>2, <2>3 DEF WriteAnalysis, RunsOK
<1>3. CASE KillRunner(r)
  <2>1. run' \in [Runners -> GoodRuns] BY <1>3, IdleIsGood DEF KillRunner, RunsOK
  <2>2. sequence' \in {sequence, Torn} /\ analysis' \in {analysis, Torn}
    BY <1>3 DEF KillRunner
  <2> QED BY <1>3, <2>1, <2>2 DEF KillRunner, RunsOK
<1> QED BY <1>1, <1>2, <1>3

LEMMA RunsKeep ==
  ASSUME RunsOK, [Next]_vars
  PROVE  RunsOK'
<1>1. CASE RunNext
  BY <1>1, WriteBudgetKeeps, AuthorizeKeeps, StartRunKeeps, SpawnAgentKeeps, EndUnitKeeps,
     FinishKeeps, AnalyzeKeeps DEF RunNext, RunStep
<1>2. CASE ChangeWorld
  <2>1. h1' \in BOOLEAN BY <1>2 DEF ChangeWorld, RunsOK
  <2> QED BY <1>2, <2>1 DEF ChangeWorld, RunsOK
<1>3. CASE UNCHANGED runVars BY <1>3 DEF runVars, RunsOK
<1>4. UNCHANGED vars => UNCHANGED runVars BY DEF vars
<1>5. ASSUME NEW o \in Operators, Begin(o) \/ Step(o) PROVE UNCHANGED runVars
  BY <1>5 DEF Begin, Step, ReadGate, CheckBinding, WriteBinding, ReadState, WriteRollback, Ask,
     TakeReply, TimeoutAsk, Judge
<1>6. Serve => UNCHANGED runVars BY DEF Serve
<1> QED BY <1>1, <1>2, <1>3, <1>4, <1>5, <1>6 DEF Next

LEMMA RunsSound ==
  ASSUME RunsOK
  PROVE  RunTypeOK /\ WithinAuthorization
<1>1. auth = None \/ auth \in [version : Versions, units : Nat, calls : Nat, valid : BOOLEAN]
  BY DEF RunsOK, Authorizations
<1>2. sequence \in {None, Torn} \/ Len(sequence.results) <= PlannedUnits(sequence.version)
  BY DEF RunsOK, GoodSequences
<1>3. \A r \in Runners : run[r].pc \in {"idle", "write_budget", "loop", "unit", "analyze"}
  BY DEF RunsOK, GoodRuns, RunRecords
<1>4. WithinAuthorization
  <2> SUFFICES ASSUME NEW r \in Runners, run[r].pc \in {"loop", "unit"}
               PROVE  WithinLimits(run[r])
    BY DEF WithinAuthorization, WithinLimits
  <2> QED BY DEF RunsOK, GoodRuns
<1> QED BY <1>1, <1>2, <1>3, <1>4 DEF RunTypeOK, RunsOK

-----------------------------------------------------------------------------
(* The commands: what a step of one operator has to show.                  *)

\* The record End leaves.
Ended(c, status) ==
  [NoCommand EXCEPT !.kind = c.kind, !.task = c.task, !.status = status, !.round = c.round]

\* What a status claims about the slots S for a command c.
Claim(S, c, status) ==
  /\ c.kind = "canary" /\ status = "PASS" => \E v \in Versions : Unit(c.task, 1) \in S[v]
  /\ status = "FAIL_EXPOSURE" => \E v, w \in Versions : v # w /\ S[v] # {} /\ S[w] # {}

Grown(S, T) == \A v \in Versions : S[v] \subseteq T[v]

\* Slots that only grow leave every truth about them true.
LEMMA TruthStays ==
  ASSUME NEW S, NEW T, Grown(S, T), NEW c, TrueOf(S, c)
  PROVE  TrueOf(T, c)
BY DEF Grown, TrueOf

LEMMA NoCommandIsGood ==
  /\ NoCommand \in CmdRecords
  /\ NoCommand.answers = <<>> /\ NoCommand.reply = None /\ NoCommand.pc = "idle"
  /\ NoCommand.status = None
<1>1. <<>> \in Seq(AnswerWords) BY EmptySeq
<1> QED BY <1>1 DEF NoCommand, CmdRecords, StatusWords

LEMMA EndedIsGood ==
  ASSUME NEW c \in CmdRecords, NEW status \in StatusWords, NEW S, Claim(S, c, status)
  PROVE  /\ Ended(c, status) \in GoodCmds
         /\ Ended(c, status).round = c.round /\ Ended(c, status).kind = c.kind
         /\ Ended(c, status).task = c.task
         /\ TrueOf(S, Ended(c, status))
<1> DEFINE e == Ended(c, status)
<1>1. /\ e.kind = c.kind /\ e.task = c.task /\ e.status = status /\ e.round = c.round
      /\ e.pc = "idle" /\ e.answers = <<>> /\ e.reply = None
  BY NoCommandIsGood DEF Ended, CmdRecords, NoCommand
<1>2. e \in CmdRecords
  <2>1. \A x \in CmdRecords, k \in CommandKinds \union {None}, t \in Tasks \union {None},
           u \in StatusWords, n \in Nat :
          [x EXCEPT !.kind = k, !.task = t, !.status = u, !.round = n] \in CmdRecords
    BY DEF CmdRecords
  <2>2. /\ c.kind \in CommandKinds \union {None} /\ c.task \in Tasks \union {None}
        /\ c.round \in Nat
    BY DEF CmdRecords
  <2> QED BY <2>1, <2>2, NoCommandIsGood DEF Ended
<1> HIDE DEF e
<1>3. Len(e.answers) = 0 /\ DOMAIN e.answers = {} BY <1>1
<1>4. e \in GoodCmds BY <1>1, <1>2, <1>3 DEF GoodCmds
<1>5. TrueOf(S, e) BY <1>1, <1>3 DEF TrueOf, Claim
<1> QED BY <1>1, <1>4, <1>5 DEF e

\* Requests stay those of their commands while a command goes on or a new
\* round begins.
LEMMA RequestsStay ==
  ASSUME NEW C, NEW D,
         \A p \in Operators :
           /\ C[p].round \in Nat /\ D[p].round \in Nat
           /\ \/ C[p].round < D[p].round
              \/ /\ C[p].round = D[p].round /\ C[p].task = D[p].task
                 /\ C[p].kind = D[p].kind,
         NEW s \in Seq(RequestsOf(C))
  PROVE  s \in Seq(RequestsOf(D))
<1>1. RequestsOf(C) \subseteq RequestsOf(D) BY DEF RequestsOf, AnyRequests
<1> QED BY <1>1, SeqMonotonic

\* One operator's command becomes c; the rest is as before or has grown.
LEMMA CommandMoves ==
  ASSUME CommandsOK, NEW o \in Operators, NEW c \in GoodCmds,
         cmd' = [cmd EXCEPT ![o] = c],
         c.round <= MaxCommands[o],
         \/ cmd[o].round < c.round
         \/ c.round = cmd[o].round /\ c.kind = cmd[o].kind /\ c.task = cmd[o].task,
         TrueOf(slots', c), Grown(slots, slots'), SlotsOK', state' \in States,
         queue' \in Seq(RequestsOf(cmd)), UNCHANGED <<grant, live>>
  PROVE  CommandsOK'
<1>1. cmd \in [Operators -> GoodCmds] BY DEF CommandsOK
<1>2. cmd' \in [Operators -> GoodCmds] BY <1>1
<1>3. \A p \in Operators : cmd'[p] = IF p = o THEN c ELSE cmd[p] BY <1>1
<1>4. \A p \in Operators : cmd[p].round \in Nat /\ cmd'[p].round \in Nat
  BY <1>1, <1>2 DEF GoodCmds, CmdRecords
<1>5. \A p \in Operators : TrueOf(slots', cmd'[p])
  BY <1>3, TruthStays DEF CommandsOK
<1>6. \A p \in Operators : cmd'[p].round <= MaxCommands[p] BY <1>3 DEF CommandsOK
<1>7. queue' \in Seq(RequestsOf(cmd'))
  <2>1. \A p \in Operators :
          \/ cmd[p].round < cmd'[p].round
          \/ /\ cmd[p].round = cmd'[p].round /\ cmd[p].task = cmd'[p].task
             /\ cmd[p].kind = cmd'[p].kind
    BY <1>3
  <2> QED BY <1>4, <2>1, RequestsStay
<1> QED BY <1>2, <1>5, <1>6, <1>7 DEF CommandsOK

\* A command that ends.
LEMMA CommandEnds ==
  ASSUME CommandsOK, NEW o \in Operators, NEW status \in StatusWords,
         cmd' = End(o, status), Claim(slots, cmd[o], status),
         state' \in States, UNCHANGED <<queue, slots, grant, live>>
  PROVE  CommandsOK'
<1> DEFINE e == Ended(cmd[o], status)
<1>1. cmd[o] \in CmdRecords /\ cmd[o].round <= MaxCommands[o] BY DEF CommandsOK, GoodCmds
<1>2. cmd' = [cmd EXCEPT ![o] = e] BY DEF End, Ended
<1>3. /\ e \in GoodCmds /\ e.round = cmd[o].round /\ e.kind = cmd[o].kind
      /\ e.task = cmd[o].task /\ TrueOf(slots, e)
  BY <1>1, EndedIsGood
<1> HIDE DEF e
<1>4. Grown(slots, slots') /\ SlotsOK' BY DEF Grown, CommandsOK, SlotsOK
<1>5. queue' \in Seq(RequestsOf(cmd)) BY DEF CommandsOK
<1>6. TrueOf(slots', e) BY <1>3
<1> QED BY <1>1, <1>2, <1>3, <1>4, <1>5, <1>6, CommandMoves

\* A refusal, an error and BOUND claim nothing.
LEMMA ClaimsNothing ==
  ASSUME NEW S, NEW c, NEW status \in StatusWords,
         status \notin {"PASS", "FAIL_EXPOSURE"}
  PROVE  Claim(S, c, status)
BY DEF Claim

-----------------------------------------------------------------------------
(* The commands: one lemma per action.                                     *)

LEMMA Gates ==
  ASSUME NEW kind \in CommandKinds
  PROVE  /\ Len(GatesOf(kind)) \in Nat
         /\ \A i \in 1..Len(GatesOf(kind)) : GatesOf(kind)[i] \in {"h1", "label", "h3", "approval"}
<1>1. CASE kind \in {"bind", "canary"} BY <1>1 DEF GatesOf
<1>2. CASE kind = "shadow" BY <1>2 DEF GatesOf
<1>3. CASE kind = "rollback" BY <1>3 DEF GatesOf
<1>4. CASE kind = "probe" BY <1>4 DEF GatesOf
<1> QED BY <1>1, <1>2, <1>3, <1>4 DEF CommandKinds

LEMMA GateRefuses ==
  ASSUME NEW gate \in {"h1", "label", "h3", "approval"}, NEW kind, GateStatus(gate, kind) # None
  PROVE  GateStatus(gate, kind) \in Refusals
<1>1. CASE gate = "h1" BY <1>1 DEF GateStatus, Refusals
<1>2. CASE gate = "label"
  <2>1. CASE CurrentLabel = "QUALIFIED_CANDIDATE" BY <1>2, <2>1 DEF GateStatus
  <2>2. CASE CurrentLabel # "QUALIFIED_CANDIDATE"
    BY <1>2, <2>2 DEF GateStatus, Refusals
  <2> QED BY <2>1, <2>2
<1>3. CASE gate = "h3" BY <1>3 DEF GateStatus, Refusals
<1>4. CASE gate = "approval" BY <1>4 DEF GateStatus, Refusals
<1> QED BY <1>1, <1>2, <1>3, <1>4

\* What is common to the steps that leave slots, queue and files alone.
LEMMA Still ==
  ASSUME CommandsOK, UNCHANGED <<slots, queue, state>>
  PROVE  /\ Grown(slots, slots') /\ SlotsOK' /\ state' \in States
         /\ queue' \in Seq(RequestsOf(cmd))
BY DEF Grown, CommandsOK, SlotsOK

LEMMA BeginKeeps ==
  ASSUME CommandsOK, NEW o \in Operators, Begin(o)
  PROVE  CommandsOK'
<1>1. PICK kind \in Kinds[o], task \in Tasks :
        cmd' = [cmd EXCEPT ![o] = [NoCommand EXCEPT !.pc = "gates", !.kind = kind, !.task = task,
                                                    !.round = cmd[o].round + 1]]
  BY DEF Begin
<1> DEFINE c == [NoCommand EXCEPT !.pc = "gates", !.kind = kind, !.task = task,
                                  !.round = cmd[o].round + 1]
<1>2. kind \in CommandKinds BY CommandAssumption DEF CommandKinds
<1>3. cmd[o].round \in Nat BY DEF CommandsOK, GoodCmds, CmdRecords
<1>4. /\ c.pc = "gates" /\ c.kind = kind /\ c.task = task /\ c.round = cmd[o].round + 1
      /\ c.read = 0 /\ c.answers = <<>> /\ c.reply = None /\ c.status = None
  BY DEF NoCommand
<1>5. c \in CmdRecords
  <2>1. \A x \in CmdRecords, k \in CommandKinds, t \in Tasks, n \in Nat :
          [x EXCEPT !.pc = "gates", !.kind = k, !.task = t, !.round = n] \in CmdRecords
    BY DEF CmdRecords
  <2>2. cmd[o].round + 1 \in Nat BY <1>3
  <2> QED BY <1>2, <2>1, <2>2, NoCommandIsGood
<1> HIDE DEF c
<1>6. Len(c.answers) = 0 /\ DOMAIN c.answers = {} BY <1>4
<1>7. c \in GoodCmds BY <1>2, <1>4, <1>5, <1>6, Gates DEF GoodCmds
<1>8. TrueOf(slots', c) BY <1>4, <1>6, NoneAssumption DEF TrueOf
<1>9. c.round <= MaxCommands[o]
  <2>1. MaxCommands[o] \in Nat BY CommandAssumption
  <2> QED BY <1>3, <1>4, <2>1 DEF Begin
<1>10. UNCHANGED <<slots, queue, state, grant, live>> BY DEF Begin, serverVars, worldVars
<1>11. cmd[o].round < c.round BY <1>3, <1>4
<1>12. cmd' = [cmd EXCEPT ![o] = c] BY <1>1 DEF c
<1> QED BY <1>7, <1>8, <1>9, <1>10, <1>11, <1>12, Still, CommandMoves

LEMMA ReadGateKeeps ==
  ASSUME CommandsOK, NEW o \in Operators, ReadGate(o)
  PROVE  CommandsOK'
<1> DEFINE gate == GatesOf(cmd[o].kind)[cmd[o].read + 1]
<1>1. cmd[o] \in GoodCmds /\ cmd[o].round <= MaxCommands[o] /\ TrueOf(slots, cmd[o])
  BY DEF CommandsOK
<1>2. cmd[o].kind \in CommandKinds /\ cmd[o].read \in Nat
      /\ cmd[o].read <= Len(GatesOf(cmd[o].kind)) /\ cmd[o].pc = "gates"
  BY <1>1 DEF ReadGate, GoodCmds, CmdRecords
<1>3. cmd[o].read + 1 \in 1..Len(GatesOf(cmd[o].kind))
  BY <1>2, Gates DEF ReadGate, AllRead
<1>4. gate \in {"h1", "label", "h3", "approval"} BY <1>2, <1>3, Gates
<1>5. UNCHANGED <<slots, queue, state, grant, live>> BY DEF ReadGate, serverVars, worldVars
<1>6. state' \in States BY <1>5 DEF CommandsOK
<1>7. ASSUME NEW status \in Refusals, cmd' = End(o, status) PROVE CommandsOK'
  <2>1. status \in StatusWords /\ status \notin {"PASS", "FAIL_EXPOSURE"}
    BY <1>7 DEF StatusWords, Refusals
  <2>2. Claim(slots, cmd[o], status) BY <2>1, ClaimsNothing
  <2> QED BY <1>5, <1>6, <1>7, <2>1, <2>2, CommandEnds
<1>8. CASE cmd' = End(o, "error")
  <2>1. "error" \in Refusals BY DEF Refusals
  <2> QED BY <1>7, <1>8, <2>1
<1>9. CASE GateStatus(gate, cmd[o].kind) # None /\ cmd' = End(o, GateStatus(gate, cmd[o].kind))
  BY <1>4, <1>7, <1>9, GateRefuses
<1>10. CASE cmd' = [cmd EXCEPT ![o].read = @ + 1]
  <2> DEFINE c == [cmd[o] EXCEPT !.read = cmd[o].read + 1]
  <2>1. cmd[o] \in CmdRecords BY <1>1 DEF GoodCmds
  <2>2. c \in CmdRecords
    <3>1. \A x \in CmdRecords, n \in Nat : [x EXCEPT !.read = n] \in CmdRecords BY DEF CmdRecords
    <3>2. cmd[o].read + 1 \in Nat BY <1>2
    <3> QED BY <2>1, <3>1, <3>2
  <2>3. /\ c.pc = cmd[o].pc /\ c.kind = cmd[o].kind /\ c.task = cmd[o].task
        /\ c.read = cmd[o].read + 1 /\ c.version = cmd[o].version /\ c.file = cmd[o].file
        /\ c.reply = cmd[o].reply /\ c.answers = cmd[o].answers
        /\ c.status = cmd[o].status /\ c.round = cmd[o].round
    BY <2>1 DEF CmdRecords
  <2>4. cmd' = [cmd EXCEPT ![o] = c] BY <1>10
  <2> HIDE DEF c
  <2>5. c \in GoodCmds BY <1>1, <1>2, <1>3, <2>2, <2>3 DEF GoodCmds
  <2>6. TrueOf(slots', c) BY <1>1, <1>5, <2>3 DEF TrueOf
  <2> QED BY <1>1, <1>5, <2>3, <2>4, <2>5, <2>6, Still, CommandMoves
<1> QED BY <1>8, <1>9, <1>10 DEF ReadGate

\* The file or the version that the next step will write.
LEMMA WritePends ==
  ASSUME CommandsOK, NEW o \in Operators, NEW c,
         \/ /\ Passed(o, "bind") /\ version \in Versions
            /\ c = [cmd[o] EXCEPT !.pc = "write", !.version = version]
         \/ /\ Passed(o, "rollback")
            /\ c = [cmd[o] EXCEPT !.pc = "write", !.file = state],
         cmd' = [cmd EXCEPT ![o] = c], UNCHANGED <<slots, queue, state, grant, live>>
  PROVE  CommandsOK'
<1>1. cmd[o] \in GoodCmds /\ cmd[o].round <= MaxCommands[o] /\ TrueOf(slots, cmd[o])
      /\ state \in States
  BY DEF CommandsOK
<1>2. cmd[o] \in CmdRecords /\ cmd[o].pc = "gates" BY <1>1 DEF GoodCmds, Passed, AllRead
<1>3. /\ c \in CmdRecords
      /\ c.pc = "write" /\ c.kind = cmd[o].kind /\ c.task = cmd[o].task
      /\ c.reply = cmd[o].reply /\ c.answers = cmd[o].answers
      /\ c.status = cmd[o].status /\ c.round = cmd[o].round
      /\ (c.kind = "bind" /\ c.version \in Versions) \/ (c.kind = "rollback" /\ c.file \in States)
  <2>1. \A x \in CmdRecords, v \in Versions :
          /\ [x EXCEPT !.pc = "write", !.version = v] \in CmdRecords
          /\ [x EXCEPT !.pc = "write", !.version = v].version = v
    BY DEF CmdRecords
  <2>2. \A x \in CmdRecords, g \in States :
          /\ [x EXCEPT !.pc = "write", !.file = g] \in CmdRecords
          /\ [x EXCEPT !.pc = "write", !.file = g].file = g
    BY DEF CmdRecords
  <2>3. CASE Passed(o, "bind") /\ version \in Versions
             /\ c = [cmd[o] EXCEPT !.pc = "write", !.version = version]
    <3>1. c \in CmdRecords /\ c.version \in Versions BY <1>2, <2>1, <2>3
    <3>2. /\ c.pc = "write" /\ c.kind = cmd[o].kind /\ c.task = cmd[o].task
          /\ c.reply = cmd[o].reply /\ c.answers = cmd[o].answers
          /\ c.status = cmd[o].status /\ c.round = cmd[o].round
      BY <1>2, <2>3 DEF CmdRecords
    <3>3. cmd[o].kind = "bind" BY <2>3 DEF Passed
    <3> QED BY <3>1, <3>2, <3>3
  <2>4. CASE Passed(o, "rollback") /\ c = [cmd[o] EXCEPT !.pc = "write", !.file = state]
    <3>1. c \in CmdRecords /\ c.file \in States BY <1>1, <1>2, <2>2, <2>4
    <3>2. /\ c.pc = "write" /\ c.kind = cmd[o].kind /\ c.task = cmd[o].task
          /\ c.reply = cmd[o].reply /\ c.answers = cmd[o].answers
          /\ c.status = cmd[o].status /\ c.round = cmd[o].round
      BY <1>2, <2>4 DEF CmdRecords
    <3>3. cmd[o].kind = "rollback" BY <2>4 DEF Passed
    <3> QED BY <3>1, <3>2, <3>3
  <2> QED BY <2>3, <2>4
<1>4. c \in GoodCmds BY <1>1, <1>2, <1>3 DEF GoodCmds
<1>5. TrueOf(slots', c) BY <1>1, <1>3 DEF TrueOf
<1> QED BY <1>1, <1>3, <1>4, <1>5, Still, CommandMoves

LEMMA CheckBindingKeeps ==
  ASSUME CommandsOK, version \in Versions, NEW o \in Operators, CheckBinding(o)
  PROVE  CommandsOK'
<1>1. UNCHANGED <<slots, queue, state, grant, live>> BY DEF CheckBinding, serverVars, worldVars
<1>2. state' \in States BY <1>1 DEF CommandsOK
<1>3. ASSUME NEW status \in {"BLOCKED_WRITE", "error", "BLOCKED_EVIDENCE"}, cmd' = End(o, status)
      PROVE  CommandsOK'
  <2>1. status \in StatusWords BY DEF StatusWords, Refusals
  <2> QED BY <1>1, <1>2, <1>3, <2>1, ClaimsNothing, CommandEnds
<1>4. CASE cmd' = [cmd EXCEPT ![o].pc = "write", ![o].version = version]
  <2>1. cmd' = [cmd EXCEPT ![o] = [cmd[o] EXCEPT !.pc = "write", !.version = version]]
    BY <1>4 DEF CommandsOK
  <2> QED BY <1>1, <2>1, WritePends DEF CheckBinding
<1> QED BY <1>3, <1>4 DEF CheckBinding

LEMMA ReadStateKeeps ==
  ASSUME CommandsOK, NEW o \in Operators, ReadState(o)
  PROVE  CommandsOK'
<1>1. UNCHANGED <<slots, queue, state, grant, live>> BY DEF ReadState, serverVars, worldVars
<1>2. state' \in States BY <1>1 DEF CommandsOK
<1>3. CASE o \in HermesOps
  <2>1. cmd' = [cmd EXCEPT ![o] = [cmd[o] EXCEPT !.pc = "write", !.file = state]]
    BY <1>3 DEF ReadState, CommandsOK
  <2> QED BY <1>1, <2>1, WritePends DEF ReadState
<1>4. CASE o \notin HermesOps
  <2>1. cmd' = End(o, "BLOCKED_WRITE") BY <1>4 DEF ReadState
  <2>2. "BLOCKED_WRITE" \in StatusWords BY DEF StatusWords, Refusals
  <2> QED BY <1>1, <1>2, <2>1, <2>2, ClaimsNothing, CommandEnds
<1> QED BY <1>3, <1>4

LEMMA WriteKeeps ==
  ASSUME CommandsOK, NEW o \in Operators, WriteBinding(o) \/ WriteRollback(o)
  PROVE  CommandsOK'
<1>1. cmd[o] \in GoodCmds BY DEF CommandsOK
<1>2. UNCHANGED <<slots, queue, grant, live>> BY DEF WriteBinding, WriteRollback, worldVars
<1>3. CASE WriteBinding(o)
  <2>1. cmd[o].version \in Versions BY <1>1, <1>3 DEF WriteBinding, GoodCmds
  <2>2. state' \in States BY <1>3, <2>1 DEF WriteBinding, States
  <2>3. "BOUND" \in StatusWords BY DEF StatusWords
  <2> QED BY <1>2, <1>3, <2>2, <2>3, ClaimsNothing, CommandEnds DEF WriteBinding
<1>4. CASE WriteRollback(o)
  <2>1. cmd[o].file \in States BY <1>1, <1>4 DEF WriteRollback, GoodCmds
  <2>2. \A g \in States : [g EXCEPT !.active = FALSE] \in States BY DEF States
  <2>3. state' \in States BY <1>4, <2>1, <2>2 DEF WriteRollback
  <2>4. "PASS" \in StatusWords /\ Claim(slots, cmd[o], "PASS")
    BY <1>4 DEF WriteRollback, StatusWords, Claim
  <2> QED BY <1>2, <1>4, <2>3, <2>4, CommandEnds DEF WriteRollback
<1> QED BY <1>3, <1>4

LEMMA AskKeeps ==
  ASSUME CommandsOK, NEW o \in Operators, Ask(o)
  PROVE  CommandsOK'
<1> DEFINE n == Len(cmd[o].answers) + 1
           q == [op |-> o, round |-> cmd[o].round, n |-> n,
                 shadow |-> cmd[o].kind # "canary", unit |-> Unit(cmd[o].task, n)]
           c == [cmd[o] EXCEPT !.pc = "wait"]
<1>1. cmd[o] \in GoodCmds /\ cmd[o].round <= MaxCommands[o] /\ TrueOf(slots, cmd[o])
  BY DEF CommandsOK
<1>2. cmd[o] \in CmdRecords /\ cmd[o].pc = "gates" /\ cmd[o].kind \in Askers
      /\ cmd[o].task \in Tasks /\ Len(cmd[o].answers) < Asks(cmd[o].kind)
  BY <1>1 DEF Ask, Passed, AllRead, GoodCmds, Askers
<1>3. Len(cmd[o].answers) \in Nat /\ cmd[o].round \in Nat
  BY <1>2, LenProperties DEF CmdRecords
<1>4. n \in {1, 2} BY <1>2, <1>3 DEF Asks
<1>5. q \in RequestsOf(cmd)
  <2>1. Unit(cmd[o].task, n) \in CanaryUnits BY <1>2 DEF Unit, CanaryUnits
  <2>2. (cmd[o].kind # "canary") \in BOOLEAN OBVIOUS
  <2> HIDE DEF n
  <2>3. q \in AnyRequests BY <1>3, <1>4, <2>1, <2>2 DEF AnyRequests
  <2>4. /\ q.op = o /\ q.round = cmd[o].round /\ q.n = n
        /\ q.unit = Unit(cmd[o].task, n) /\ (q.shadow <=> cmd[o].kind # "canary")
    OBVIOUS
  <2> HIDE DEF q
  <2> QED BY <1>3, <2>3, <2>4 DEF RequestsOf
<1>6. queue' \in Seq(RequestsOf(cmd))
  <2>1. queue' = Append(queue, q) BY DEF Ask
  <2> HIDE DEF q
  <2> QED BY <1>5, <2>1, AppendProperties DEF CommandsOK
<1> HIDE DEF n, q
<1>7. c \in CmdRecords
  <2>1. \A x \in CmdRecords : [x EXCEPT !.pc = "wait"] \in CmdRecords BY DEF CmdRecords
  <2> QED BY <1>2, <2>1
<1>8. /\ c.pc = "wait" /\ c.kind = cmd[o].kind /\ c.task = cmd[o].task /\ c.read = cmd[o].read
      /\ c.reply = cmd[o].reply /\ c.answers = cmd[o].answers
      /\ c.status = cmd[o].status /\ c.round = cmd[o].round
  BY <1>2 DEF CmdRecords
<1>9. cmd' = [cmd EXCEPT ![o] = c] BY DEF Ask
<1> HIDE DEF c
<1>10. c \in GoodCmds BY <1>1, <1>2, <1>7, <1>8 DEF GoodCmds, Askers, CommandKinds
<1>11. UNCHANGED <<slots, state, grant, live>> BY DEF Ask, worldVars
<1>12. TrueOf(slots', c) BY <1>1, <1>8, <1>11 DEF TrueOf
<1>13. Grown(slots, slots') /\ SlotsOK' /\ state' \in States
  BY <1>11 DEF Grown, CommandsOK, SlotsOK
<1> QED BY <1>1, <1>6, <1>8, <1>9, <1>10, <1>11, <1>12, <1>13, CommandMoves

\* A waiting command takes an answer that is true of the slots.
LEMMA AnswerTaken ==
  ASSUME CommandsOK, NEW o \in Operators, NEW answer \in AnswerWords, cmd[o].pc = "wait",
         cmd' = Answered(o, answer),
         answer = "CANDIDATE" =>
           /\ cmd[o].kind = "canary"
           /\ \E v \in Versions : Unit(cmd[o].task, Len(cmd[o].answers) + 1) \in slots[v],
         queue' \in Seq(RequestsOf(cmd)), UNCHANGED <<slots, state, grant, live>>
  PROVE  CommandsOK'
<1> DEFINE more == Append(cmd[o].answers, answer)
           c == [cmd[o] EXCEPT !.pc = "gates", !.reply = None, !.answers = more]
<1>1. cmd[o] \in GoodCmds /\ cmd[o].round <= MaxCommands[o] /\ TrueOf(slots, cmd[o])
  BY DEF CommandsOK
<1>2. cmd[o] \in CmdRecords /\ cmd[o].kind \in Askers /\ cmd[o].task \in Tasks
      /\ cmd[o].read <= Len(GatesOf(cmd[o].kind)) /\ Len(cmd[o].answers) < Asks(cmd[o].kind)
  BY <1>1 DEF GoodCmds
<1>3. cmd[o].answers \in Seq(AnswerWords) /\ Len(cmd[o].answers) \in Nat
  BY <1>2, LenProperties DEF CmdRecords
<1>4. /\ more \in Seq(AnswerWords) /\ Len(more) = Len(cmd[o].answers) + 1
      /\ \A i \in 1..Len(cmd[o].answers) : more[i] = cmd[o].answers[i]
      /\ more[Len(cmd[o].answers) + 1] = answer
  BY <1>3, AppendProperties
<1>5. DOMAIN more = 1..(Len(cmd[o].answers) + 1)
      /\ DOMAIN cmd[o].answers = 1..Len(cmd[o].answers)
  BY <1>3, <1>4, LenProperties
<1>6. Len(more) <= 2 BY <1>2, <1>3, <1>4 DEF Asks
<1>7. cmd' = [cmd EXCEPT ![o] = c] BY DEF Answered
<1> HIDE DEF more
<1>8. c \in CmdRecords
  <2>1. \A x \in CmdRecords, a \in Seq(AnswerWords) :
          [x EXCEPT !.pc = "gates", !.reply = None, !.answers = a] \in CmdRecords
    BY DEF CmdRecords
  <2> QED BY <1>2, <1>4, <2>1
<1>9. /\ c.pc = "gates" /\ c.kind = cmd[o].kind /\ c.task = cmd[o].task /\ c.read = cmd[o].read
      /\ c.reply = None /\ c.answers = more
      /\ c.status = cmd[o].status /\ c.round = cmd[o].round
  BY <1>2 DEF CmdRecords
<1> HIDE DEF c
<1>10. c \in GoodCmds BY <1>2, <1>6, <1>8, <1>9 DEF GoodCmds, Askers, CommandKinds
<1>11. TrueOf(slots, c)
  <2>1. ASSUME NEW i \in DOMAIN c.answers, c.answers[i] = "CANDIDATE"
        PROVE  c.kind = "canary" /\ \E v \in Versions : Unit(c.task, i) \in slots[v]
    <3>1. CASE i \in 1..Len(cmd[o].answers)
      <4>1. cmd[o].answers[i] = "CANDIDATE" BY <1>4, <1>9, <2>1, <3>1
      <4> QED BY <1>1, <1>5, <1>9, <3>1, <4>1 DEF TrueOf
    <3>2. CASE i = Len(cmd[o].answers) + 1 BY <1>4, <1>9, <2>1, <3>2
    <3> QED BY <1>3, <1>5, <1>9, <2>1, <3>1, <3>2
  <2>2. c.kind = "canary" /\ c.status = "PASS" =>
          \E v \in Versions : Unit(c.task, 1) \in slots[v]
    BY <1>1, <1>9 DEF TrueOf
  <2>3. c.status = "FAIL_EXPOSURE" =>
          \E v, w \in Versions : v # w /\ slots[v] # {} /\ slots[w] # {}
    BY <1>1, <1>9 DEF TrueOf
  <2> QED BY <1>9, <2>1, <2>2, <2>3 DEF TrueOf
<1>12. TrueOf(slots', c) BY <1>11
<1>13. Grown(slots, slots') /\ SlotsOK' /\ state' \in States BY DEF Grown, CommandsOK, SlotsOK
<1> QED BY <1>1, <1>7, <1>9, <1>10, <1>12, <1>13, CommandMoves

LEMMA TakeReplyKeeps ==
  ASSUME CommandsOK, NEW o \in Operators, TakeReply(o)
  PROVE  CommandsOK'
<1>1. cmd[o] \in GoodCmds /\ TrueOf(slots, cmd[o]) BY DEF CommandsOK
<1>2. cmd[o].pc = "wait" BY <1>1 DEF TakeReply, GoodCmds
<1>3. cmd[o].reply \in Replies BY <1>1 DEF TakeReply, GoodCmds, CmdRecords
<1>4. cmd[o].reply.answer \in AnswerWords BY <1>3 DEF Replies
<1>5. cmd[o].reply.answer = "CANDIDATE" =>
        /\ cmd[o].kind = "canary"
        /\ \E v \in Versions : Unit(cmd[o].task, Len(cmd[o].answers) + 1) \in slots[v]
  BY <1>1 DEF TakeReply, TrueOf
<1>6. cmd' = Answered(o, cmd[o].reply.answer) BY DEF TakeReply
<1>7. UNCHANGED <<slots, queue, state, grant, live>> BY DEF TakeReply, worldVars
<1>8. queue' \in Seq(RequestsOf(cmd)) BY <1>7 DEF CommandsOK
<1> QED BY <1>2, <1>4, <1>5, <1>6, <1>7, <1>8, AnswerTaken

LEMMA TimeoutKeeps ==
  ASSUME CommandsOK, NEW o \in Operators, TimeoutAsk(o)
  PROVE  CommandsOK'
<1>1. "IPC timeout" \in AnswerWords /\ "IPC timeout" # "CANDIDATE" BY DEF AnswerWords
<1>2. queue \in Seq(RequestsOf(cmd)) BY DEF CommandsOK
<1>3. queue' \in Seq(RequestsOf(cmd))
  <2>1. CASE queue' = queue BY <1>2, <2>1
  <2>2. CASE \E i \in DOMAIN queue :
               queue' = SubSeq(queue, 1, i - 1) \o SubSeq(queue, i + 1, Len(queue))
    <3>1. PICK i \in DOMAIN queue :
            queue' = SubSeq(queue, 1, i - 1) \o SubSeq(queue, i + 1, Len(queue))
      BY <2>2
    <3>2. Len(queue) \in Nat /\ i \in 1..Len(queue) BY <1>2, <3>1, LenProperties
    <3>3. \A j \in 1..Len(queue) : queue[j] \in RequestsOf(cmd) BY <1>2, ElementOfSeq
    <3>4. SubSeq(queue, 1, i - 1) \in Seq(RequestsOf(cmd))
      <4>1. \A j \in 1..(i - 1) : queue[j] \in RequestsOf(cmd) BY <3>2, <3>3
      <4> QED BY <3>2, <4>1, SubSeqProperties
    <3>5. SubSeq(queue, i + 1, Len(queue)) \in Seq(RequestsOf(cmd))
      <4>1. \A j \in (i + 1)..Len(queue) : queue[j] \in RequestsOf(cmd) BY <3>2, <3>3
      <4> QED BY <3>2, <4>1, SubSeqProperties
    <3> QED BY <3>1, <3>4, <3>5, ConcatProperties
  <2> QED BY <2>1, <2>2 DEF TimeoutAsk
<1>4. UNCHANGED <<slots, state, grant, live>> BY DEF TimeoutAsk, worldVars
<1>5. cmd[o].pc = "wait" /\ cmd' = Answered(o, "IPC timeout") BY DEF TimeoutAsk
<1> QED BY <1>1, <1>3, <1>4, <1>5, AnswerTaken

LEMMA JudgeKeeps ==
  ASSUME CommandsOK, NEW o \in Operators, Judge(o)
  PROVE  CommandsOK'
<1> DEFINE answers == cmd[o].answers
           status == Verdict(cmd[o].kind, answers)
<1>1. cmd[o] \in GoodCmds /\ TrueOf(slots, cmd[o]) BY DEF CommandsOK
<1>2. cmd[o].kind \in Askers /\ Len(answers) = Asks(cmd[o].kind) BY DEF Judge, Askers
<1>3. answers \in Seq(AnswerWords) BY <1>1 DEF GoodCmds, CmdRecords
<1>4. DOMAIN answers = 1..Len(answers) BY <1>3, LenProperties
<1>5. ASSUME cmd[o].kind = "canary"
      PROVE  status \in StatusWords /\ Claim(slots, cmd[o], status)
  <2>1. 1 \in DOMAIN answers /\ 2 \in DOMAIN answers BY <1>2, <1>4, <1>5 DEF Asks
  <2>2. status = CanaryVerdict(answers[1], answers[2]) BY <1>5 DEF Verdict
  <2>3. status \in StatusWords BY <2>2 DEF CanaryVerdict, StatusWords, Refusals
  <2>4. \A i \in {1, 2} : answers[i] = "CANDIDATE" =>
          \E v \in Versions : Unit(cmd[o].task, i) \in slots[v]
    BY <1>1, <2>1 DEF TrueOf
  <2>5. status = "PASS" => answers[1] = "CANDIDATE" BY <2>2 DEF CanaryVerdict
  <2>6. status = "FAIL_EXPOSURE" => answers[1] = "CANDIDATE" /\ answers[2] = "CANDIDATE"
    BY <2>2 DEF CanaryVerdict
  <2>7. ASSUME status = "FAIL_EXPOSURE"
        PROVE  \E v, w \in Versions : v # w /\ slots[v] # {} /\ slots[w] # {}
    <3>1. PICK v \in Versions : Unit(cmd[o].task, 1) \in slots[v] BY <2>4, <2>6, <2>7
    <3>2. PICK w \in Versions : Unit(cmd[o].task, 2) \in slots[w] BY <2>4, <2>6, <2>7
    <3>3. Unit(cmd[o].task, 1) # Unit(cmd[o].task, 2) BY DEF Unit
    <3>4. v # w BY <3>1, <3>2, <3>3 DEF CommandsOK, SlotsOK
    <3> QED BY <3>1, <3>2, <3>4
  <2> HIDE DEF status, answers
  <2>8. Claim(slots, cmd[o], status) BY <2>4, <2>5, <2>7 DEF Claim
  <2> QED BY <2>3, <2>8
<1>6. ASSUME cmd[o].kind \in {"shadow", "probe"}
      PROVE  status \in StatusWords /\ Claim(slots, cmd[o], status)
  <2>1. 1 \in DOMAIN answers BY <1>2, <1>4, <1>6 DEF Asks
  <2>2. answers[1] # "CANDIDATE" BY <1>1, <1>6, <2>1 DEF TrueOf
  <2>3. status \in {"PASS", "FAIL", "BLOCKED_PEER"}
    BY <1>6, <2>2 DEF Verdict, ShadowVerdict, ProbeVerdict
  <2> HIDE DEF status
  <2>4. status \in StatusWords /\ Claim(slots, cmd[o], status)
    BY <1>6, <2>3 DEF StatusWords, Claim
  <2> QED BY <2>4
<1>7. status \in StatusWords /\ Claim(slots, cmd[o], status)
  BY <1>2, <1>5, <1>6 DEF Askers
<1>8. cmd' = End(o, status) BY DEF Judge
<1>9. UNCHANGED <<slots, queue, state, grant, live>> BY DEF Judge, serverVars, worldVars
<1>10. state' \in States BY <1>9 DEF CommandsOK
<1> HIDE DEF status
<1> QED BY <1>7, <1>8, <1>9, <1>10, CommandEnds

\* The slot is held before the answer says so, and a request that nobody waits
\* for any more takes its slot all the same.
LEMMA ServeKeeps ==
  ASSUME CommandsOK, Serve
  PROVE  CommandsOK'
<1> DEFINE q == Head(queue)
           v == state.version
           reply == [answer |-> Reply(q), version |-> v, unit |-> q.unit]
<1>1. q \in RequestsOf(cmd) /\ Tail(queue) \in Seq(RequestsOf(cmd))
  BY HeadTailProperties DEF Serve, CommandsOK
<1>2. /\ queue' = Tail(queue)
      /\ slots' = IF Reply(q) = "CANDIDATE" THEN [slots EXCEPT ![v] = @ \union {q.unit}] ELSE slots
      /\ cmd' = IF Waiting(q) THEN [cmd EXCEPT ![q.op].reply = reply] ELSE cmd
      /\ UNCHANGED <<state, grant, live>>
  BY DEF Serve, worldVars
<1> HIDE DEF q
<1>3. q \in AnyRequests BY <1>1 DEF RequestsOf
<1>4. q.op \in Operators /\ q.n \in {1, 2} /\ q.unit \in CanaryUnits BY <1>3 DEF AnyRequests
<1>5. state \in States /\ SlotsOK /\ slots \in [Versions -> SUBSET CanaryUnits]
  BY DEF CommandsOK, SlotsOK
<1>6. v \in Versions \union {None} BY <1>5 DEF States
<1>7. Reply(q) \in AnswerWords BY DEF Reply, AnswerWords
<1>8. Reply(q) = "CANDIDATE" =>
        /\ v \in Versions /\ ~q.shadow
        /\ q.unit \in slots[v] \/ slots[v] = {}
  BY <1>5 DEF Reply, States
<1> HIDE DEF v
<1>9. SlotsOK' /\ Grown(slots, slots') /\ (Reply(q) = "CANDIDATE" => q.unit \in slots'[v])
  <2>1. CASE Reply(q) = "CANDIDATE"
    <3>1. slots' = [slots EXCEPT ![v] = @ \union {q.unit}] BY <1>2, <2>1
    <3>2. \A w \in Versions : slots'[w] = IF w = v THEN slots[v] \union {q.unit} ELSE slots[w]
      BY <1>5, <3>1
    <3>3. slots' \in [Versions -> SUBSET CanaryUnits] BY <1>4, <1>5, <1>8, <2>1, <3>1
    <3>4. \A w \in Versions : \A x, y \in slots'[w] : x = y
      BY <1>5, <1>8, <2>1, <3>2 DEF SlotsOK
    <3>5. q.unit \in slots'[v] BY <1>8, <2>1, <3>2
    <3>6. Grown(slots, slots') BY <3>2 DEF Grown
    <3> QED BY <3>3, <3>4, <3>5, <3>6 DEF SlotsOK
  <2>2. CASE Reply(q) # "CANDIDATE" BY <1>2, <1>5, <2>2 DEF SlotsOK, Grown
  <2> QED BY <2>1, <2>2
<1>10. state' \in States BY <1>2, <1>5
<1>11. queue' \in Seq(RequestsOf(cmd)) BY <1>1, <1>2
<1>12. CASE ~Waiting(q)
  <2>1. cmd' = cmd BY <1>2, <1>12
  <2>2. \A p \in Operators : TrueOf(slots', cmd[p]) BY <1>9, TruthStays DEF CommandsOK
  <2>3. queue' \in Seq(RequestsOf(cmd')) BY <1>11, <2>1
  <2> QED BY <1>2, <1>9, <1>10, <2>1, <2>2, <2>3 DEF CommandsOK
<1>13. CASE Waiting(q)
  <2> DEFINE o == q.op
             c == [cmd[o] EXCEPT !.reply = reply]
  <2>1. cmd[o] \in GoodCmds /\ cmd[o].round <= MaxCommands[o] /\ TrueOf(slots, cmd[o])
    BY <1>4 DEF CommandsOK
  <2>2. /\ cmd[o].pc = "wait" /\ cmd[o].round = q.round
        /\ Len(cmd[o].answers) + 1 = q.n
    BY <1>13 DEF Waiting
  <2>3. q.unit = Unit(cmd[o].task, q.n) /\ (q.shadow <=> cmd[o].kind # "canary")
    BY <1>1, <2>2 DEF RequestsOf
  <2>4. reply \in Replies BY <1>4, <1>6, <1>7 DEF Replies
  <2>5. reply.answer = Reply(q) /\ reply.version = v /\ reply.unit = q.unit OBVIOUS
  <2> HIDE DEF reply, o
  <2>6. cmd[o] \in CmdRecords BY <2>1 DEF GoodCmds
  <2>7. c \in CmdRecords
    <3>1. \A x \in CmdRecords, y \in Replies : [x EXCEPT !.reply = y] \in CmdRecords
      BY DEF CmdRecords
    <3> QED BY <2>4, <2>6, <3>1
  <2>8. /\ c.pc = cmd[o].pc /\ c.kind = cmd[o].kind /\ c.task = cmd[o].task
        /\ c.read = cmd[o].read /\ c.version = cmd[o].version /\ c.file = cmd[o].file
        /\ c.reply = reply /\ c.answers = cmd[o].answers
        /\ c.status = cmd[o].status /\ c.round = cmd[o].round
    BY <2>6 DEF CmdRecords
  <2>9. cmd' = [cmd EXCEPT ![o] = c] BY <1>2, <1>13 DEF o
  <2> HIDE DEF c
  <2>10. c \in GoodCmds BY <2>1, <2>2, <2>7, <2>8 DEF GoodCmds
  <2>11. TrueOf(slots', cmd[o]) BY <1>9, <2>1, TruthStays
  <2>12. TrueOf(slots', c)
    <3>1. c.reply.answer = "CANDIDATE" =>
            /\ c.kind = "canary" /\ c.reply.unit = Unit(c.task, Len(c.answers) + 1)
            /\ c.reply.version \in Versions /\ c.reply.unit \in slots'[c.reply.version]
      BY <1>8, <1>9, <2>2, <2>3, <2>5, <2>8
    <3> QED BY <2>8, <2>11, <3>1 DEF TrueOf
  <2>13. o \in Operators BY <1>4 DEF o
  <2> QED BY <1>2, <1>9, <1>10, <1>11, <2>1, <2>8, <2>9, <2>10, <2>12, <2>13, CommandMoves
<1> QED BY <1>12, <1>13

-----------------------------------------------------------------------------
(* The invariant.                                                          *)

LEMMA CommandsStart == Init => CommandsOK
<1> SUFFICES ASSUME Init PROVE CommandsOK OBVIOUS
<1>1. PICK w \in InitialWorlds : grant = w.grant /\ live = w.live BY DEF Init
<1>2. grant \in Grants \union {None} /\ live \in Identities \union {Unbound}
  BY <1>1, CommandAssumption
<1>3. state \in States BY DEF Init, States
<1>4. SlotsOK BY DEF Init, SlotsOK
<1>5. Len(NoCommand.answers) = 0 /\ DOMAIN NoCommand.answers = {} BY NoCommandIsGood
<1>6. NoCommand \in GoodCmds BY <1>5, NoCommandIsGood DEF GoodCmds
<1>7. TrueOf(slots, NoCommand) BY <1>5, NoCommandIsGood, NoneAssumption DEF TrueOf
<1>8. \A o \in Operators : NoCommand.round <= MaxCommands[o]
  BY CommandAssumption DEF NoCommand
<1>9. queue \in Seq(RequestsOf(cmd)) BY EmptySeq DEF Init
<1>10. cmd = [o \in Operators |-> NoCommand] BY DEF Init
<1> QED BY <1>2, <1>3, <1>4, <1>6, <1>7, <1>8, <1>9, <1>10 DEF CommandsOK

LEMMA CommandsKeep ==
  ASSUME RunsOK, CommandsOK, [Next]_vars
  PROVE  CommandsOK'
<1>1. CASE UNCHANGED <<grant, live, serverVars, cmd>>
  BY <1>1 DEF CommandsOK, SlotsOK, serverVars
<1>2. CASE RunNext /\ UNCHANGED <<worldVars, serverVars, cmd, opened>>
  BY <1>1, <1>2 DEF worldVars
<1>3. CASE ChangeWorld
  <2>1. UNCHANGED <<serverVars, cmd>> BY <1>3 DEF ChangeWorld
  <2>2. grant' \in Grants \union {None} /\ live' \in Identities \union {Unbound}
    BY <1>3 DEF ChangeWorld, CommandsOK
  <2> QED BY <2>1, <2>2 DEF CommandsOK, SlotsOK, serverVars
<1>4. ASSUME NEW o \in Operators, Begin(o) \/ Step(o) PROVE CommandsOK'
  <2>1. version \in Versions BY DEF RunsOK
  <2> QED BY <1>4, <2>1, BeginKeeps, ReadGateKeeps, CheckBindingKeeps, ReadStateKeeps, WriteKeeps,
             AskKeeps, TakeReplyKeeps, TimeoutKeeps, JudgeKeeps DEF Step
<1>5. CASE Serve BY <1>5, ServeKeeps
<1>6. CASE UNCHANGED vars BY <1>1, <1>6 DEF vars, worldVars
<1> QED BY <1>2, <1>3, <1>4, <1>5, <1>6 DEF Next

LEMMA Invariance == Spec => []IInv
<1>1. Init => IInv BY RunsStart, CommandsStart DEF IInv
<1>2. IInv /\ [Next]_vars => IInv' BY RunsKeep, CommandsKeep DEF IInv
<1> QED BY <1>1, <1>2, PTL DEF Spec

-----------------------------------------------------------------------------
(* What follows from it.                                                   *)

LEMMA CommandsSound ==
  ASSUME RunsOK, CommandsOK
  PROVE  TypeOK
<1>1. RunTypeOK BY RunsSound
<1>2. state.version \in Versions \union {None} /\ (state.active => state.version # None)
  BY NoneAssumption DEF CommandsOK, States
<1>3. slots \in [Versions -> SUBSET (Tasks \X {"task", "late"})]
  BY DEF CommandsOK, SlotsOK, CanaryUnits
<1>4. ASSUME NEW o \in Operators
      PROVE  /\ cmd[o].pc \in {"idle", "gates", "write", "wait"}
             /\ cmd[o].round \in 0..MaxCommands[o]
             /\ Len(cmd[o].answers) <= 2
  <2>1. cmd[o] \in GoodCmds /\ cmd[o].round <= MaxCommands[o] BY DEF CommandsOK
  <2>2. cmd[o] \in CmdRecords /\ Len(cmd[o].answers) <= 2 BY <2>1 DEF GoodCmds
  <2>3. cmd[o].pc \in {"idle", "gates", "write", "wait"} /\ cmd[o].round \in Nat
    BY <2>2 DEF CmdRecords
  <2>4. MaxCommands[o] \in Nat BY CommandAssumption
  <2> QED BY <2>1, <2>2, <2>3, <2>4
<1> QED BY <1>1, <1>2, <1>3, <1>4 DEF TypeOK, CommandsOK

\* The runs, the commands and their files have their types, and no run of
\* agents goes beyond the authorization it was started under, whatever is
\* edited, withdrawn or killed meanwhile (run_authorized_sequence).
THEOREM AuthorizationHolds == Spec => []LimitsHold
<1>1. IInv => LimitsHold BY RunsSound, CommandsSound DEF IInv, LimitsHold
<1> QED BY <1>1, Invariance, PTL

LEMMA TwoExposed ==
  ASSUME NEW v \in Versions, NEW w \in Versions, v # w, slots[v] # {}, slots[w] # {}
  PROVE  Cardinality({x \in Versions : slots[x] # {}}) > 1
<1> DEFINE Exposed == {x \in Versions : slots[x] # {}}
<1>1. IsFiniteSet(Versions) BY RunAssumption, FS_Interval DEF Versions
<1>2. IsFiniteSet(Exposed) BY <1>1, FS_Subset
<1>3. {v, w} \in SUBSET Exposed OBVIOUS
<1>4. IsFiniteSet({v}) /\ Cardinality({v}) = 1 BY FS_Singleton
<1>5. Cardinality({v} \union {w}) = 2
  <2>1. w \notin {v} OBVIOUS
  <2>2. Cardinality({v} \union {w}) = IF w \in {v} THEN Cardinality({v}) ELSE Cardinality({v}) + 1
    BY <1>4, FS_AddElement
  <2> QED BY <1>4, <2>1, <2>2
<1>6. {v} \union {w} = {v, w} OBVIOUS
<1>7. Cardinality({v, w}) <= Cardinality(Exposed) BY <1>2, <1>3, FS_Subset
<1>8. Cardinality(Exposed) \in Nat BY <1>2, FS_CardinalityType
<1> QED BY <1>5, <1>6, <1>7, <1>8

\* What pag2-canary, pag2-shadow and pag2-probe report is true of the slots,
\* however late the actuator answered and whatever was rebound between the two
\* requests of one canary.
THEOREM VerdictsHold == Spec => []VerdictsTrue
<1>1. IInv => VerdictsTrue
  <2> SUFFICES ASSUME IInv, NEW o \in Operators
               PROVE  /\ cmd[o].kind = "canary" /\ cmd[o].status = "PASS" =>
                           \E v \in Versions : Unit(cmd[o].task, 1) \in slots[v]
                      /\ cmd[o].status = "FAIL_EXPOSURE" =>
                           Cardinality({v \in Versions : slots[v] # {}}) > 1
                      /\ cmd[o].status # "FAIL_CONSUMED_EXPOSURE"
    BY DEF VerdictsTrue
  <2>1. TrueOf(slots, cmd[o]) /\ cmd[o] \in CmdRecords BY DEF IInv, CommandsOK, GoodCmds
  <2>2. cmd[o].status \in StatusWords BY <2>1 DEF CmdRecords
  <2>3. cmd[o].status # "FAIL_CONSUMED_EXPOSURE"
    BY <2>2, NoneAssumption DEF StatusWords, Refusals
  <2>4. ASSUME cmd[o].status = "FAIL_EXPOSURE"
        PROVE  Cardinality({v \in Versions : slots[v] # {}}) > 1
    <3>1. PICK v \in Versions, w \in Versions : v # w /\ slots[v] # {} /\ slots[w] # {}
      BY <2>1, <2>4 DEF TrueOf
    <3> QED BY <3>1, TwoExposed
  <2> QED BY <2>1, <2>3, <2>4 DEF TrueOf
<1> QED BY <1>1, Invariance, PTL

-----------------------------------------------------------------------------
(* The ledger of the first version.                                        *)

LEMMA StepOfLedger ==
  ASSUME IInv, [Next]_vars
  PROVE  [Ledger!LedgerNext]_(Ledger!ledgerVars)
<1> DEFINE toldNow == {t.unit : t \in {x \in told : x.version = 1}}
<1>1. CommandsOK /\ 1 \in Versions BY Planning DEF IInv
<1>2. ASSUME UNCHANGED <<slots, told>> PROVE UNCHANGED Ledger!ledgerVars
  BY <1>2 DEF Ledger!ledgerVars
<1>3. CASE Serve
  <2> DEFINE q == Head(queue)
             v == state.version
  <2>1. /\ UNCHANGED told
        /\ slots' = IF Reply(q) = "CANDIDATE" THEN [slots EXCEPT ![v] = @ \union {q.unit}]
                                             ELSE slots
    BY <1>3 DEF Serve
  <2>2. q \in RequestsOf(cmd) BY <1>1, <1>3, HeadTailProperties DEF Serve, CommandsOK
  <2> HIDE DEF q
  <2>3. q.unit \in CanaryUnits BY <2>2 DEF RequestsOf, AnyRequests
  <2>4. slots \in [Versions -> SUBSET CanaryUnits] BY <1>1 DEF CommandsOK, SlotsOK
  <2>5. CASE UNCHANGED slots BY <1>2, <2>1, <2>5
  <2>6. CASE slots' # slots
    <3>1. Reply(q) = "CANDIDATE" /\ slots' = [slots EXCEPT ![v] = @ \union {q.unit}]
      BY <2>1, <2>6
    <3>2. q.unit \in slots[v] \/ slots[v] = {} BY <3>1 DEF Reply
    <3>3. v \in Versions
      <4>1. state.active BY <3>1 DEF Reply
      <4> QED BY <1>1, <4>1 DEF CommandsOK, States
    <3> HIDE DEF v
    <3>4. slots[v] = {} BY <2>4, <2>6, <3>1, <3>2, <3>3
    <3>5. CASE v # 1
      <4>1. slots'[1] = slots[1] BY <1>1, <2>4, <3>1, <3>5
      <4> QED BY <2>1, <4>1 DEF Ledger!ledgerVars
    <3>6. CASE v = 1
      <4>1. slots'[1] = slots[1] \union {q.unit} /\ slots[1] = {}
        BY <1>1, <2>4, <3>1, <3>4, <3>6
      <4>2. Ledger!Cardinality({}) = 0
        <5>1. Ledger!Cardinality({}) = Cardinality({}) BY DEF Ledger!Cardinality, Cardinality
        <5> QED BY <5>1, FS_EmptySet
      <4>3. Ledger!Cardinality(slots[1]) < 1 BY <4>1, <4>2
      <4>4. q.unit \notin slots[1] BY <4>1
      <4>5. Ledger!Grant(q.unit) BY <2>1, <4>1, <4>3, <4>4 DEF Ledger!Grant
      <4> QED BY <2>3, <4>5 DEF Ledger!LedgerNext, CanaryUnits
    <3> QED BY <3>5, <3>6
  <2> QED BY <2>5, <2>6
<1>4. ASSUME NEW o \in Operators, TakeReply(o)
      PROVE  [Ledger!LedgerNext]_(Ledger!ledgerVars)
  <2> DEFINE r == cmd[o].reply
             row == [version |-> r.version, unit |-> r.unit]
  <2>1. UNCHANGED slots BY <1>4 DEF TakeReply
  <2>2. CASE told' = told BY <1>2, <2>1, <2>2
  <2>3. CASE told' # told
    <3>1. r # None /\ r.answer = "CANDIDATE" /\ told' = told \union {row}
      BY <1>4, <2>3 DEF TakeReply
    <3>2. r.unit \in slots[r.version] /\ r.version \in Versions
      BY <1>1, <3>1 DEF CommandsOK, TrueOf
    <3>3. CASE r.version # 1
      <4>1. toldNow' = toldNow BY <3>1, <3>3
      <4> QED BY <2>1, <4>1 DEF Ledger!ledgerVars
    <3>4. CASE r.version = 1
      <4>1. toldNow' = toldNow \union {r.unit}
        <5>1. {x \in told' : x.version = 1} = {x \in told : x.version = 1} \union {row}
          BY <3>1, <3>4
        <5>2. row.unit = r.unit OBVIOUS
        <5> HIDE DEF row
        <5> QED BY <5>1, <5>2
      <4>2. r.unit \in slots[1] BY <3>2, <3>4
      <4>3. r.unit \in CanaryUnits BY <1>1, <4>2 DEF CommandsOK, SlotsOK
      <4>4. UNCHANGED slots[1] BY <2>1
      <4>5. PICK u \in Tasks \X {"task", "late"} : u = r.unit BY <4>3 DEF CanaryUnits
      <4>6. Ledger!Tell(u) BY <4>1, <4>2, <4>4, <4>5 DEF Ledger!Tell
      <4> QED BY <4>6 DEF Ledger!LedgerNext
    <3> QED BY <3>3, <3>4
  <2> QED BY <2>2, <2>3
<1>5. ASSUME NEW o \in Operators,
             \/ Begin(o) \/ ReadGate(o) \/ CheckBinding(o) \/ WriteBinding(o) \/ ReadState(o)
             \/ WriteRollback(o) \/ Ask(o) \/ TimeoutAsk(o) \/ Judge(o)
      PROVE  UNCHANGED <<slots, told>>
  BY <1>5 DEF Begin, ReadGate, CheckBinding, WriteBinding, ReadState, WriteRollback, Ask,
     TimeoutAsk, Judge, serverVars
<1>6. CASE (RunNext /\ UNCHANGED <<worldVars, serverVars, cmd, opened>>) \/ ChangeWorld
           \/ UNCHANGED vars
  BY <1>2, <1>6 DEF ChangeWorld, serverVars, vars
<1> QED BY <1>2, <1>3, <1>4, <1>5, <1>6 DEF Next, Step

\* The commands and the actuator they ask keep the ledger of one slot for the
\* policy of the first version: a lost answer, a timeout or a rollback gives
\* nothing back, and only the unit that holds the slot is told so.
THEOREM LedgerRefinement == Spec => ImplementsLedger
<1>1. Init => Ledger!LedgerInit BY Planning DEF Init, Ledger!LedgerInit
<1>2. IInv /\ [Next]_vars => [Ledger!LedgerNext]_(Ledger!ledgerVars) BY StepOfLedger
<1> QED BY <1>1, <1>2, Invariance, PTL DEF Spec, ImplementsLedger, Ledger!LedgerSpec

-----------------------------------------------------------------------------
(* Until the definition is edited for the first time the results a run has *)
(* collected are those of the planned units in their order (OwnResults),   *)
(* of which a label that says QUALIFIED_CANDIDATE leaves none out but      *)
(* possibly the last.  What a bind has read of its gates was so when it    *)
(* read it, edited or not (ChainOK).  E stands for Shown and G for opened, *)
(* before a step or after it.                                              *)

Unedited == version = 1

\* The versions a label may be trusted for: an edit takes all meaning from it.
Shown == IF Unedited THEN earned ELSE Versions

\* The results of a run of the first version, up to some unit.
IsOwn(E, results) ==
  /\ results \in Seq(Results)
  /\ Len(results) <= PlannedUnits(1)
  /\ \A i \in 1..Len(results) : results[i].unit = AssignPaired(1)[i]
  /\ Evidence(1, results) => 1 \in E

OwnResults ==
  /\ earned \subseteq {1}
  /\ \A r \in Runners : run[r].pc \in {"loop", "unit", "analyze"} =>
       run[r].version = 1 /\ IsOwn(earned, run[r].results)
  /\ sequence \notin {None, Torn} => IsOwn(earned, sequence.results)
  /\ QualifiedIsEarned

\* What must have been so before a unit is exposed.
ChainComplete(E, G, v) == v \in E /\ {"h1", "h3", "approval"} \subseteq G

\* What the gates a bind has read so far have shown.
GatesWereOpen(E, G, c) ==
  /\ c.read >= 1 => "h1" \in G
  /\ c.read >= 2 => 1 \in E
  /\ c.read >= 3 => "h3" \in G
  /\ c.read >= 4 => "approval" \in G

BindOK(E, G, c) ==
  c.kind = "bind" =>
    /\ c.pc = "gates" => GatesWereOpen(E, G, c)
    /\ c.pc = "write" => ChainComplete(E, G, c.version)

Exposed(E, G, taken) == \A v \in Versions : taken[v] # {} => ChainComplete(E, G, v)

ChainOK ==
  /\ OpenNow \subseteq opened
  /\ \A o \in Operators : BindOK(Shown, opened, cmd[o])
  /\ state.active => ChainComplete(Shown, opened, state.version)
  /\ Exposed(Shown, opened, slots)

EarnedInv == IInv /\ (Unedited => OwnResults) /\ ChainOK

-----------------------------------------------------------------------------
(* A label that says QUALIFIED_CANDIDATE leaves no planned pair out.       *)

\* A unit that is not one of the last two belongs to a pair before the last.
LEMMA PairOfUnit ==
  ASSUME NEW i \in Nat, NEW n \in Nat, 1 <= i, i + 2 <= 2 * n
  PROVE  (i + 1) \div 2 \in 1..(n - 1)
OBVIOUS

\* Every planned pair is collected only when at most its last unit is missing.
LEMMA AllPairsNearlyAllUnits ==
  ASSUME NEW v \in Versions, NEW s \in Seq(Results), Len(s) <= PlannedUnits(v),
         \A i \in 1..Len(s) : s[i].unit = AssignPaired(v)[i],
         ~(Cardinality(CollectedPairs(s)) < Planned[v])
  PROVE  Len(s) \in PlannedUnits(v) - 1..PlannedUnits(v)
<1>1. Planned[v] \in Nat /\ Planned[v] >= 1 BY RunAssumption
<1>2. Len(s) \in Nat /\ DOMAIN s = 1..Len(s) BY LenProperties
<1>3. PlannedUnits(v) = 2 * Planned[v] BY DEF PlannedUnits
<1> SUFFICES ASSUME Len(s) + 2 <= PlannedUnits(v) PROVE FALSE BY <1>1, <1>2, <1>3
<1>4. \A i \in 1..Len(s) : s[i].unit.pair = (i + 1) \div 2
  <2> TAKE i \in 1..Len(s)
  <2>1. i \in 1..PlannedUnits(v) BY <1>1, <1>2, <1>3
  <2>2. AssignPaired(v)[i].pair = (i + 1) \div 2 BY <2>1 DEF AssignPaired
  <2> QED BY <2>2
<1>5. ASSUME NEW p \in CollectedPairs(s) PROVE p \in 1..(Planned[v] - 1)
  <2>1. PICK i \in 1..Len(s) : p = s[i].unit.pair BY <1>2 DEF CollectedPairs
  <2>2. p = (i + 1) \div 2 BY <1>4, <2>1
  <2>3. i \in Nat /\ 1 <= i /\ i + 2 <= 2 * Planned[v] BY <1>1, <1>2, <1>3
  <2> QED BY <1>1, <2>2, <2>3, PairOfUnit
<1>6. CollectedPairs(s) \in SUBSET (1..(Planned[v] - 1)) BY <1>5
<1>7. IsFiniteSet(1..(Planned[v] - 1)) /\ Cardinality(1..(Planned[v] - 1)) = Planned[v] - 1
  <2> DEFINE n == Planned[v] - 1
  <2>1. n \in Nat BY <1>1
  <2> HIDE DEF n
  <2>2. IsFiniteSet(1..n) /\ Cardinality(1..n) = IF 1 > n THEN 0 ELSE n - 1 + 1
    BY <2>1, FS_Interval
  <2>3. IsFiniteSet(1..n) /\ Cardinality(1..n) = n BY <2>1, <2>2
  <2> QED BY <2>3 DEF n
<1>8. IsFiniteSet(CollectedPairs(s))
      /\ Cardinality(CollectedPairs(s)) <= Cardinality(1..(Planned[v] - 1))
  BY <1>6, <1>7, FS_Subset
<1>9. Cardinality(CollectedPairs(s)) \in Nat BY <1>8, FS_CardinalityType
<1> QED BY <1>1, <1>7, <1>8, <1>9

LEMMA QualifiedIsEvidence ==
  ASSUME NEW v \in Versions, NEW s \in Seq(Results), Len(s) <= PlannedUnits(v),
         \A i \in 1..Len(s) : s[i].unit = AssignPaired(v)[i],
         Label(v, s) = "QUALIFIED_CANDIDATE"
  PROVE  Evidence(v, s) /\ s # <<>>
<1>1. /\ ~(Cardinality(CollectedPairs(s)) < Planned[v])
      /\ ~Has(s, {"UNKNOWN", "LEAK", "BLOCKED_PROVIDER_AUTH"})
      /\ ~Has(s, {"INSECURE"})
      /\ Successes(s, "CANDIDATE") >= Successes(s, "CONTROL") + Lead
  BY DEF Label
<1>2. Len(s) \in PlannedUnits(v) - 1..PlannedUnits(v) BY <1>1, AllPairsNearlyAllUnits
<1>3. Len(s) \in Nat /\ DOMAIN s = 1..Len(s) BY LenProperties
<1>4. PlannedUnits(v) \in Nat /\ PlannedUnits(v) >= 2 BY Planning
<1>5. \A i \in 1..Len(s) : s[i].outcome \in {"PASS", "FAIL"}
  <2> TAKE i \in 1..Len(s)
  <2>1. s[i] \in Results BY <1>3, ElementOfSeq
  <2>2. s[i].outcome \in AllOutcomes BY <2>1, RunAssumption DEF Results
  <2>3. s[i].outcome \notin {"UNKNOWN", "LEAK", "BLOCKED_PROVIDER_AUTH", "INSECURE"}
    BY <1>1, <1>3 DEF Has
  <2> QED BY <2>2, <2>3 DEF AllOutcomes
<1>6. s # <<>> BY <1>2, <1>3, <1>4
<1> QED BY <1>1, <1>2, <1>3, <1>5, <1>6 DEF Evidence

-----------------------------------------------------------------------------
(* The results of the runs.                                                *)

\* A label once earned stays earned, and a torn file has none.
LEMMA QualifiedStays ==
  ASSUME QualifiedIsEarned, earned \subseteq earned', analysis' \in {analysis, Torn}
  PROVE  QualifiedIsEarned'
BY DEF QualifiedIsEarned

LEMMA SequenceStays ==
  ASSUME OwnResults, earned \subseteq earned', sequence' \in {sequence, Torn}
  PROVE  sequence' \notin {None, Torn} => IsOwn(earned', sequence'.results)
BY DEF OwnResults, IsOwn

\* The record of one process becomes c.
LEMMA OwnMoves ==
  ASSUME RunsOK, OwnResults, NEW r \in Runners, NEW c, run' = [run EXCEPT ![r] = c],
         earned \subseteq earned', earned' \subseteq {1},
         c.pc \in {"loop", "unit", "analyze"} => c.version = 1 /\ IsOwn(earned', c.results),
         sequence' \notin {None, Torn} => IsOwn(earned', sequence'.results),
         QualifiedIsEarned'
  PROVE  OwnResults'
<1>1. \A x \in Runners : run'[x] = IF x = r THEN c ELSE run[x] BY DEF RunsOK
<1>2. ASSUME NEW x \in Runners, run'[x].pc \in {"loop", "unit", "analyze"}
      PROVE  run'[x].version = 1 /\ IsOwn(earned', run'[x].results)
  <2>1. CASE x = r BY <1>1, <1>2, <2>1
  <2>2. CASE x # r
    <3>1. run'[x] = run[x] BY <1>1, <2>2
    <3>2. run[x].version = 1 /\ IsOwn(earned, run[x].results) BY <1>2, <3>1 DEF OwnResults
    <3> QED BY <3>1, <3>2 DEF IsOwn
  <2> QED BY <2>1, <2>2
<1> QED BY <1>2 DEF OwnResults

\* One more result in its place.
LEMMA OwnExtends ==
  ASSUME NEW s \in Seq(Results), \A i \in 1..Len(s) : s[i].unit = AssignPaired(1)[i],
         NEW outcome
  PROVE  LET more == Append(s, [unit |-> AssignPaired(1)[Len(s) + 1], outcome |-> outcome])
         IN \A i \in 1..Len(more) : more[i].unit = AssignPaired(1)[i]
<1> DEFINE new == [unit |-> AssignPaired(1)[Len(s) + 1], outcome |-> outcome]
           both == Results \union {new}
           more == Append(s, new)
<1>1. Len(s) \in Nat BY LenProperties
<1>2. s \in Seq(both) BY SeqMonotonic
<1>3. new \in both /\ new.unit = AssignPaired(1)[Len(s) + 1] OBVIOUS
<1> HIDE DEF new, both
<1>4. /\ Len(more) = Len(s) + 1
      /\ \A i \in 1..Len(s) : more[i] = s[i]
      /\ more[Len(s) + 1] = new
  BY <1>2, <1>3, AppendProperties
<1> HIDE DEF more
<1>5. \A i \in 1..Len(more) : more[i].unit = AssignPaired(1)[i] BY <1>1, <1>3, <1>4
<1> QED BY <1>5 DEF more, new

LEMMA EndUnitOwn ==
  ASSUME RunsOK, RunsOK', OwnResults, NEW r \in Runners, EndUnit(r)
  PROVE  OwnResults' /\ earned \subseteq earned'
<1> DEFINE old == run[r]
<1>1. PICK outcome \in Outcomes :
        LET v == old.version
            results == Append(old.results,
                         [unit |-> AssignPaired(v)[Len(old.results) + 1], outcome |-> outcome])
        IN /\ old.pc \in {"loop", "unit"}
           /\ sequence' = [version |-> v, results |-> results]
           /\ earned' = IF Evidence(v, results) THEN earned \union {v} ELSE earned
           /\ run' = [run EXCEPT ![r].pc = "loop", ![r].results = results,
                        ![r].made = IF outcome = "BLOCKED_PROVIDER_AUTH" THEN @ ELSE @ + 1]
  BY DEF EndUnit
<1>2. old.version = 1 /\ IsOwn(earned, old.results) BY <1>1 DEF OwnResults
<1> DEFINE results == Append(old.results,
                        [unit |-> AssignPaired(1)[Len(old.results) + 1], outcome |-> outcome])
           c == [old EXCEPT !.pc = "loop", !.results = results,
                            !.made = IF outcome = "BLOCKED_PROVIDER_AUTH" THEN @ ELSE @ + 1]
<1>3. /\ sequence'.results = results
      /\ earned' = IF Evidence(1, results) THEN earned \union {1} ELSE earned
      /\ run' = [run EXCEPT ![r] = c]
  BY <1>1, <1>2 DEF RunsOK
<1>4. old \in RunRecords BY DEF RunsOK, GoodRuns
<1>5. c.pc = "loop" /\ c.version = 1 /\ c.results = results BY <1>2, <1>4 DEF RunRecords
<1>6. run'[r] = c BY <1>3 DEF RunsOK
<1> HIDE DEF c
<1>7. c \in GoodRuns BY <1>6 DEF RunsOK
<1>8. old.results \in Seq(Results) BY <1>2 DEF IsOwn
<1>9. \A i \in 1..Len(results) : results[i].unit = AssignPaired(1)[i]
  BY <1>2, <1>8, OwnExtends DEF IsOwn
<1> HIDE DEF results
<1>10. results \in Seq(Results) /\ Len(results) <= PlannedUnits(1)
  <2>1. c \in RunRecords /\ WithinLimits(c) BY <1>5, <1>7 DEF GoodRuns
  <2>2. results \in Seq(Results) BY <1>5, <2>1 DEF RunRecords
  <2>3. Len(results) \in Nat BY <2>2, LenProperties
  <2> QED BY <1>5, <2>1, <2>2, <2>3, Planning DEF WithinLimits
<1>11. earned \subseteq earned' /\ earned' \subseteq {1} BY <1>3 DEF OwnResults
<1>12. IsOwn(earned', results) BY <1>3, <1>9, <1>10 DEF IsOwn
<1>13. QualifiedIsEarned'
  <2>1. analysis' = analysis BY DEF EndUnit
  <2> QED BY <1>11, <2>1, QualifiedStays DEF OwnResults
<1> QED BY <1>3, <1>5, <1>11, <1>12, <1>13, OwnMoves

\* What a final analysis says of a run's results, it says of evidence.
LEMMA WriteAnalysisOwn ==
  ASSUME RunsOK, OwnResults, NEW r \in Runners, WriteAnalysis(r)
  PROVE  OwnResults'
<1> DEFINE s == run[r].results
<1>1. run[r].version = 1 /\ IsOwn(earned, s) BY DEF WriteAnalysis, OwnResults
<1>2. analysis' = Analysis(1, s) /\ run' = [run EXCEPT ![r] = Idle]
      /\ UNCHANGED <<earned, sequence>>
  BY <1>1 DEF WriteAnalysis
<1> HIDE DEF s
<1>3. QualifiedIsEarned'
  <2> SUFFICES ASSUME Label(1, s) = "QUALIFIED_CANDIDATE" PROVE analysis'.version \in earned'
    BY <1>2 DEF QualifiedIsEarned, Analysis
  <2>1. Evidence(1, s) /\ s # <<>> BY <1>1, Planning, QualifiedIsEvidence DEF IsOwn
  <2>2. 1 \in earned BY <1>1, <2>1 DEF IsOwn
  <2> QED BY <1>2, <2>1, <2>2 DEF Analysis
<1>4. Idle.pc = "idle" BY DEF Idle
<1>5. sequence' \notin {None, Torn} => IsOwn(earned', sequence'.results)
  BY <1>2, SequenceStays
<1>6. earned \subseteq earned' /\ earned' \subseteq {1} BY <1>2 DEF OwnResults
<1> QED BY <1>2, <1>3, <1>4, <1>5, <1>6, OwnMoves

\* Every other step of a process hands on what it has.
LEMMA RunsOwn ==
  ASSUME RunsOK, RunsOK', Unedited, OwnResults, RunNext
  PROVE  OwnResults' /\ earned \subseteq earned'
<1>1. ASSUME NEW r \in Runners, NEW c, run' = [run EXCEPT ![r] = c], UNCHANGED earned,
             c.pc \in {"loop", "unit", "analyze"} => c.version = 1 /\ IsOwn(earned, c.results),
             analysis' \in {analysis, Torn}, sequence' \in {sequence, Torn}
      PROVE  OwnResults'
  <2>1. earned \subseteq earned' /\ earned' \subseteq {1} BY <1>1 DEF OwnResults
  <2>2. QualifiedIsEarned' BY <1>1, <2>1, QualifiedStays DEF OwnResults
  <2>3. sequence' \notin {None, Torn} => IsOwn(earned', sequence'.results)
    BY <1>1, <2>1, SequenceStays
  <2> QED BY <1>1, <2>1, <2>2, <2>3, OwnMoves
<1>2. Idle.pc = "idle" /\ Idle.results = <<>> BY DEF Idle
<1>3. IsOwn(earned, <<>>)
  <2>1. <<>> \in Seq(Results) /\ Len(<<>>) = 0 BY EmptySeq
  <2>2. ~Evidence(1, <<>>)
    <3>1. PlannedUnits(1) \in Nat /\ PlannedUnits(1) >= 2 BY Planning
    <3> QED BY <2>1, <3>1 DEF Evidence
  <2> QED BY <2>1, <2>2, Planning DEF IsOwn
<1>4. ASSUME NEW r \in Runners, CheckBudget(r) \/ WriteBudget(r) \/ KillRunner(r)
      PROVE  OwnResults' /\ UNCHANGED earned
  <2>1. UNCHANGED earned BY <1>4 DEF CheckBudget, WriteBudget, KillRunner
  <2>2. analysis' \in {analysis, Torn} /\ sequence' \in {sequence, Torn}
    BY <1>4 DEF CheckBudget, WriteBudget, KillRunner
  <2>3. CASE run' = [run EXCEPT ![r] = Idle] BY <1>1, <1>2, <2>1, <2>2, <2>3
  <2>4. CASE CheckBudget(r)
    <3> DEFINE c == [Idle EXCEPT !.pc = "write_budget", !.version = version]
    <3>1. run' = [run EXCEPT ![r] = c] BY <2>4 DEF CheckBudget
    <3>2. c.pc = "write_budget" BY DEF Idle
    <3> HIDE DEF c
    <3> QED BY <1>1, <2>1, <2>2, <3>1, <3>2
  <2> QED BY <1>4, <2>1, <2>3, <2>4 DEF WriteBudget, KillRunner
<1>5. ASSUME NEW r \in Runners, StartRun(r) PROVE OwnResults' /\ UNCHANGED earned
  <2> DEFINE c == [Idle EXCEPT !.pc = "loop", !.version = version,
                               !.units = auth.units, !.calls = auth.calls]
  <2>1. run' = [run EXCEPT ![r] = c] /\ UNCHANGED <<earned, sequence, analysis>>
    BY <1>5 DEF StartRun
  <2>2. c.version = 1 /\ c.results = <<>> BY DEF Idle, Unedited
  <2> HIDE DEF c
  <2> QED BY <1>1, <1>3, <2>1, <2>2
<1>6. ASSUME NEW r \in Runners, StartAnalyze(r) PROVE OwnResults' /\ UNCHANGED earned
  <2> DEFINE c == [Idle EXCEPT !.pc = "analyze", !.version = version,
                               !.results = sequence.results]
  <2>1. run' = [run EXCEPT ![r] = c] /\ UNCHANGED <<earned, sequence, analysis>>
        /\ sequence \notin {None, Torn}
    BY <1>6 DEF StartAnalyze
  <2>2. c.version = 1 /\ c.results = sequence.results BY DEF Idle, Unedited
  <2> HIDE DEF c
  <2> QED BY <1>1, <2>1, <2>2 DEF OwnResults
<1>7. ASSUME NEW r \in Runners, SpawnAgent(r) PROVE OwnResults' /\ UNCHANGED earned
  <2> DEFINE c == [run[r] EXCEPT !.pc = "unit"]
  <2>1. run' = [run EXCEPT ![r] = c] /\ UNCHANGED <<earned, sequence, analysis>>
        /\ run[r].pc = "loop"
    BY <1>7 DEF SpawnAgent
  <2>2. c.version = run[r].version /\ c.results = run[r].results
    BY DEF RunsOK, GoodRuns, RunRecords
  <2> HIDE DEF c
  <2> QED BY <1>1, <2>1, <2>2 DEF OwnResults
<1>8. ASSUME NEW r \in Runners, Finish(r) PROVE OwnResults' /\ UNCHANGED earned
  <2>1. /\ sequence' = [version |-> run[r].version, results |-> run[r].results]
        /\ run' = [run EXCEPT ![r].pc = "analyze"]
    BY <1>8 DEF Finish
  <2> DEFINE c == [run[r] EXCEPT !.pc = "analyze"]
  <2>2. run' = [run EXCEPT ![r] = c] BY <2>1 DEF RunsOK
  <2>3. c.version = run[r].version /\ c.results = run[r].results
    BY DEF RunsOK, GoodRuns, RunRecords
  <2>4. run[r].version = 1 /\ IsOwn(earned, run[r].results) BY <1>8 DEF Finish, OwnResults
  <2>5. UNCHANGED <<earned, analysis>> BY <1>8 DEF Finish
  <2>6. sequence'.results = run[r].results BY <2>1
  <2>7. earned \subseteq earned' /\ earned' \subseteq {1} BY <2>5 DEF OwnResults
  <2>8. QualifiedIsEarned' BY <2>5, <2>7, QualifiedStays DEF OwnResults
  <2> HIDE DEF c
  <2> QED BY <2>2, <2>3, <2>4, <2>5, <2>6, <2>7, <2>8, OwnMoves
<1>9. CASE Authorize \/ EditDefinition
  <2>1. UNCHANGED <<earned, run, sequence, analysis>> BY <1>9 DEF Authorize, EditDefinition
  <2> QED BY <2>1 DEF OwnResults, QualifiedIsEarned
<1>10. ASSUME NEW r \in Runners, WriteAnalysis(r) PROVE OwnResults' /\ UNCHANGED earned
  <2>1. UNCHANGED earned BY <1>10 DEF WriteAnalysis
  <2> QED BY <1>10, <2>1, WriteAnalysisOwn
<1> QED BY <1>4, <1>5, <1>6, <1>7, <1>8, <1>9, <1>10, EndUnitOwn DEF RunNext, RunStep

-----------------------------------------------------------------------------
(* The gates.                                                              *)

LEMMA OpenStays ==
  ASSUME OpenNow \subseteq opened, UNCHANGED <<h1, worldVars>>, opened \subseteq opened'
  PROVE  (OpenNow \subseteq opened)'
BY DEF OpenNow, ApprovalGranted, AuthorizationVerified, TrustAnchor, worldVars

LEMMA BindStays ==
  ASSUME NEW E, NEW F, NEW G, NEW H, E \subseteq F, G \subseteq H, NEW c, BindOK(E, G, c)
  PROVE  BindOK(F, H, c)
BY DEF BindOK, GatesWereOpen, ChainComplete

\* Nothing is exposed by a step that leaves the slots alone.
LEMMA ExposureStays ==
  ASSUME Exposed(Shown, opened, slots), Shown \subseteq Shown', opened \subseteq opened',
         UNCHANGED slots
  PROVE  Exposed(Shown', opened', slots')
BY DEF Exposed, ChainComplete

\* What a label may be trusted for changes only with evidence and edits.
LEMMA ShownStays ==
  ASSUME UNCHANGED <<earned, version>>
  PROVE  UNCHANGED Shown
BY DEF Shown, Unedited

\* One operator's command becomes c and nothing else moves.
LEMMA ChainMoves ==
  ASSUME CommandsOK, ChainOK, NEW o \in Operators, NEW c, cmd' = [cmd EXCEPT ![o] = c],
         BindOK(Shown, opened, c), UNCHANGED <<earned, version, opened, h1, worldVars, slots>>,
         state'.active => ChainComplete(Shown, opened, state'.version)
  PROVE  ChainOK'
<1>1. \A p \in Operators : cmd'[p] = IF p = o THEN c ELSE cmd[p] BY DEF CommandsOK
<1>2. UNCHANGED Shown BY ShownStays
<1>3. \A p \in Operators : BindOK(Shown', opened', cmd'[p]) BY <1>1, <1>2 DEF ChainOK
<1>4. (OpenNow \subseteq opened)' BY OpenStays DEF ChainOK
<1>5. Exposed(Shown', opened', slots') BY <1>2, ExposureStays DEF ChainOK
<1> QED BY <1>2, <1>3, <1>4, <1>5 DEF ChainOK

\* A command that ends binds nothing any more.
LEMMA ChainEnds ==
  ASSUME CommandsOK, ChainOK, NEW o \in Operators, NEW status, cmd' = End(o, status),
         UNCHANGED <<earned, version, opened, h1, worldVars, slots>>,
         state'.active => ChainComplete(Shown, opened, state'.version)
  PROVE  ChainOK'
<1>1. cmd' = [cmd EXCEPT ![o] = Ended(cmd[o], status)] BY DEF End, Ended
<1>2. Ended(cmd[o], status).pc = "idle" BY DEF Ended, NoCommand
<1>3. BindOK(Shown, opened, Ended(cmd[o], status)) BY <1>2 DEF BindOK
<1> QED BY <1>1, <1>3, ChainMoves

\* What an open gate shows.
LEMMA OpenGate ==
  ASSUME RunsOK, Unedited => OwnResults, ChainOK,
         NEW gate \in {"h1", "label", "h3", "approval"},
         GateStatus(gate, "bind") = None, gate = "label" => analysis # Torn
  PROVE  IF gate = "label" THEN 1 \in Shown ELSE gate \in opened
<1>1. CASE gate = "h1" BY <1>1, NoneAssumption DEF GateStatus, ChainOK, OpenNow
<1>2. CASE gate = "h3" BY <1>2, NoneAssumption DEF GateStatus, ChainOK, OpenNow
<1>3. CASE gate = "approval" BY <1>3, NoneAssumption DEF GateStatus, ChainOK, OpenNow
<1>4. CASE gate = "label" /\ Unedited
  <2>1. CurrentLabel = "QUALIFIED_CANDIDATE" BY <1>4, NoneAssumption DEF GateStatus
  <2>2. analysis # None /\ analysis.label = "QUALIFIED_CANDIDATE" BY <2>1 DEF CurrentLabel
  <2>3. analysis.version \in earned BY <1>4, <2>2 DEF OwnResults, QualifiedIsEarned
  <2>4. 1 \in earned BY <1>4, <2>3 DEF OwnResults
  <2> QED BY <1>4, <2>4 DEF Shown
<1>5. CASE gate = "label" /\ ~Unedited
  <2>1. 1 \in Versions BY RunAssumption DEF Versions
  <2> QED BY <1>5, <2>1 DEF Shown
<1> QED BY <1>1, <1>2, <1>3, <1>4, <1>5

LEMMA ReadGateChain ==
  ASSUME RunsOK, CommandsOK, Unedited => OwnResults, ChainOK, NEW o \in Operators, ReadGate(o)
  PROVE  ChainOK'
<1> DEFINE kind == cmd[o].kind
           gate == GatesOf(kind)[cmd[o].read + 1]
           c == [cmd[o] EXCEPT !.read = cmd[o].read + 1]
<1>1. UNCHANGED <<earned, version, opened, h1, worldVars, slots, state>>
  BY DEF ReadGate, runVars, serverVars
<1>2. state'.active => ChainComplete(Shown, opened, state'.version)
  BY <1>1 DEF ChainOK
<1>3. CASE cmd' = End(o, "error") \/ cmd' = End(o, GateStatus(gate, kind))
  BY <1>1, <1>2, <1>3, ChainEnds
<1>4. CASE /\ cmd' = [cmd EXCEPT ![o].read = @ + 1]
           /\ ~(gate = "label" /\ analysis = Torn) /\ GateStatus(gate, kind) = None
  <2>1. cmd' = [cmd EXCEPT ![o] = c] BY <1>4
  <2>2. cmd[o] \in GoodCmds /\ cmd[o] \in CmdRecords BY DEF CommandsOK, GoodCmds
  <2>3. /\ c.pc = cmd[o].pc /\ c.kind = kind /\ c.read = cmd[o].read + 1
        /\ c.version = cmd[o].version
    BY <2>2 DEF CmdRecords
  <2>4. cmd[o].pc = "gates" /\ cmd[o].read \in Nat BY <2>2 DEF ReadGate, CmdRecords
  <2> HIDE DEF c
  <2>5. BindOK(Shown, opened, c)
    <3> SUFFICES ASSUME kind = "bind" PROVE GatesWereOpen(Shown, opened, c)
      BY <2>3, <2>4 DEF BindOK
    <3>1. GatesWereOpen(Shown, opened, cmd[o]) BY <2>4 DEF ChainOK, BindOK
    <3>2. GatesOf(kind) = <<"h1", "label", "h3", "approval">> BY DEF GatesOf
    <3>3. cmd[o].read <= 4 /\ cmd[o].read # 4
      BY <2>2, <2>4, <3>2 DEF ReadGate, AllRead, GoodCmds
    <3>4. cmd[o].read \in {0, 1, 2, 3} BY <2>4, <3>3
    <3>5. gate \in {"h1", "label", "h3", "approval"} BY <3>2, <3>4
    <3>6. IF gate = "label" THEN 1 \in Shown ELSE gate \in opened
      BY <1>4, <3>5, OpenGate
    <3>7. CASE cmd[o].read = 0
      <4>1. gate = "h1" BY <3>2, <3>7
      <4> HIDE DEF gate
      <4> QED BY <2>3, <3>6, <3>7, <4>1 DEF GatesWereOpen
    <3>8. CASE cmd[o].read = 1
      <4>1. gate = "label" BY <3>2, <3>8
      <4> HIDE DEF gate
      <4> QED BY <2>3, <3>1, <3>6, <3>8, <4>1 DEF GatesWereOpen
    <3>9. CASE cmd[o].read = 2
      <4>1. gate = "h3" BY <3>2, <3>9
      <4> HIDE DEF gate
      <4> QED BY <2>3, <3>1, <3>6, <3>9, <4>1 DEF GatesWereOpen
    <3>10. CASE cmd[o].read = 3
      <4>1. gate = "approval" BY <3>2, <3>10
      <4> HIDE DEF gate
      <4> QED BY <2>3, <3>1, <3>6, <3>10, <4>1 DEF GatesWereOpen
    <3> QED BY <3>4, <3>7, <3>8, <3>9, <3>10
  <2> QED BY <1>1, <1>2, <2>1, <2>5, ChainMoves
<1> QED BY <1>3, <1>4 DEF ReadGate

\* A bind goes on to write only with all four gates read.
LEMMA CheckBindingChain ==
  ASSUME RunsOK, CommandsOK, ChainOK, NEW o \in Operators, CheckBinding(o)
  PROVE  ChainOK'
<1>1. UNCHANGED <<earned, version, opened, h1, worldVars, slots, state>>
  BY DEF CheckBinding, runVars, serverVars
<1>2. state'.active => ChainComplete(Shown, opened, state'.version)
  BY <1>1 DEF ChainOK
<1>3. CASE \E status : cmd' = End(o, status) BY <1>1, <1>2, <1>3, ChainEnds
<1>4. CASE cmd' = [cmd EXCEPT ![o].pc = "write", ![o].version = version]
  <2> DEFINE c == [cmd[o] EXCEPT !.pc = "write", !.version = version]
  <2>1. cmd' = [cmd EXCEPT ![o] = c] BY <1>4 DEF CommandsOK
  <2>2. cmd[o] \in CmdRecords BY DEF CommandsOK, GoodCmds
  <2>3. c.pc = "write" /\ c.version = version BY <2>2 DEF CmdRecords
  <2>4. cmd[o].kind = "bind" /\ cmd[o].pc = "gates" /\ cmd[o].read = 4
    BY DEF CheckBinding, Passed, AllRead, GatesOf
  <2>5. GatesWereOpen(Shown, opened, cmd[o]) BY <2>4 DEF ChainOK, BindOK
  <2>6. ChainComplete(Shown, opened, version)
    <3>1. 1 \in Shown /\ {"h1", "h3", "approval"} \subseteq opened
      BY <2>4, <2>5 DEF GatesWereOpen
    <3>2. version \in Shown BY <3>1 DEF Shown, Unedited, RunsOK
    <3> QED BY <3>1, <3>2 DEF ChainComplete
  <2> HIDE DEF c
  <2>7. BindOK(Shown, opened, c) BY <2>3, <2>6 DEF BindOK
  <2> QED BY <1>1, <1>2, <2>1, <2>7, ChainMoves
<1> QED BY <1>3, <1>4 DEF CheckBinding

\* The binding that bind writes has the chain behind it, and what rollback
\* writes is not active.
LEMMA WriteChain ==
  ASSUME CommandsOK, ChainOK, NEW o \in Operators, WriteBinding(o) \/ WriteRollback(o)
  PROVE  ChainOK'
<1>1. UNCHANGED <<earned, version, opened, h1, worldVars, slots>>
  BY DEF WriteBinding, WriteRollback, runVars
<1>2. \E status : cmd' = End(o, status) BY DEF WriteBinding, WriteRollback
<1>3. state'.active => ChainComplete(Shown, opened, state'.version)
  <2>1. CASE WriteBinding(o)
    <3>1. ChainComplete(Shown, opened, cmd[o].version)
      BY <2>1 DEF WriteBinding, ChainOK, BindOK
    <3> QED BY <2>1, <3>1 DEF WriteBinding
  <2>2. CASE WriteRollback(o)
    <3>1. cmd[o].file \in States BY <2>2 DEF WriteRollback, CommandsOK, GoodCmds
    <3>2. \A s \in States : [s EXCEPT !.active = FALSE].active = FALSE BY DEF States
    <3> QED BY <2>2, <3>1, <3>2 DEF WriteRollback
  <2> QED BY <2>1, <2>2
<1> QED BY <1>1, <1>2, <1>3, ChainEnds

\* The steps that belong to no bind, and the start of one.
LEMMA OthersChain ==
  ASSUME CommandsOK, ChainOK, NEW o \in Operators,
         Begin(o) \/ ReadState(o) \/ Ask(o) \/ TakeReply(o) \/ TimeoutAsk(o) \/ Judge(o)
  PROVE  ChainOK'
<1>1. UNCHANGED <<earned, version, opened, h1, worldVars, slots, state>>
  BY DEF Begin, ReadState, Ask, TakeReply, TimeoutAsk, Judge, runVars, serverVars
<1>2. state'.active => ChainComplete(Shown, opened, state'.version)
  BY <1>1 DEF ChainOK
<1>3. cmd[o] \in GoodCmds /\ cmd[o] \in CmdRecords BY DEF CommandsOK, GoodCmds
<1>4. CASE \E status : cmd' = End(o, status) BY <1>1, <1>2, <1>4, ChainEnds
<1>5. ASSUME NEW c, cmd' = [cmd EXCEPT ![o] = c], c.kind # "bind" PROVE ChainOK'
  <2>1. BindOK(Shown, opened, c) BY <1>5 DEF BindOK
  <2> QED BY <1>1, <1>2, <1>5, <2>1, ChainMoves
<1>6. CASE Begin(o)
  <2>1. PICK kind \in Kinds[o], task \in Tasks :
          cmd' = [cmd EXCEPT ![o] = [NoCommand EXCEPT !.pc = "gates", !.kind = kind,
                                       !.task = task, !.round = cmd[o].round + 1]]
    BY <1>6 DEF Begin
  <2> DEFINE c == [NoCommand EXCEPT !.pc = "gates", !.kind = kind, !.task = task,
                                    !.round = cmd[o].round + 1]
  <2>2. c.pc = "gates" /\ c.read = 0 BY DEF NoCommand
  <2> HIDE DEF c
  <2>3. BindOK(Shown, opened, c) BY <2>2 DEF BindOK, GatesWereOpen
  <2>4. cmd' = [cmd EXCEPT ![o] = c] BY <2>1 DEF c
  <2> QED BY <1>1, <1>2, <2>3, <2>4, ChainMoves
<1>7. CASE ReadState(o) /\ cmd' = [cmd EXCEPT ![o].pc = "write", ![o].file = state]
  <2> DEFINE c == [cmd[o] EXCEPT !.pc = "write", !.file = state]
  <2>1. cmd' = [cmd EXCEPT ![o] = c] BY <1>7 DEF CommandsOK
  <2>2. c.kind = "rollback" BY <1>3, <1>7 DEF ReadState, Passed, CmdRecords
  <2> HIDE DEF c
  <2> QED BY <1>5, <2>1, <2>2
<1>8. CASE Ask(o)
  <2> DEFINE c == [cmd[o] EXCEPT !.pc = "wait"]
  <2>1. cmd' = [cmd EXCEPT ![o] = c] BY <1>8 DEF Ask
  <2>2. c.kind # "bind" BY <1>3, <1>8 DEF Ask, CmdRecords
  <2> HIDE DEF c
  <2> QED BY <1>5, <2>1, <2>2
<1>9. ASSUME NEW answer, cmd' = Answered(o, answer), cmd[o].pc = "wait" PROVE ChainOK'
  <2> DEFINE c == [cmd[o] EXCEPT !.pc = "gates", !.reply = None,
                                 !.answers = Append(cmd[o].answers, answer)]
  <2>1. cmd' = [cmd EXCEPT ![o] = c] BY <1>9 DEF Answered, CommandsOK
  <2>2. cmd[o].kind \in Askers BY <1>3, <1>9 DEF GoodCmds
  <2>3. c.kind # "bind" BY <1>3, <2>2 DEF CmdRecords, Askers
  <2> HIDE DEF c
  <2> QED BY <1>5, <2>1, <2>3
<1>10. CASE TakeReply(o)
  <2>1. cmd[o].pc = "wait" BY <1>3, <1>10 DEF TakeReply, GoodCmds
  <2> QED BY <1>9, <1>10, <2>1 DEF TakeReply
<1>11. CASE TimeoutAsk(o) BY <1>9, <1>11 DEF TimeoutAsk
<1>12. ReadState(o) => \/ cmd' = [cmd EXCEPT ![o].pc = "write", ![o].file = state]
                       \/ \E status : cmd' = End(o, status)
  BY DEF ReadState
<1>13. Judge(o) => \E status : cmd' = End(o, status) BY DEF Judge
<1> QED BY <1>4, <1>6, <1>7, <1>8, <1>10, <1>11, <1>12, <1>13

\* A slot is given only while the binding is active, and then the chain is
\* complete.
LEMMA ServeChain ==
  ASSUME CommandsOK, ChainOK, Serve
  PROVE  ChainOK'
<1> DEFINE q == Head(queue)
           v == state.version
<1>1. /\ slots' = IF Reply(q) = "CANDIDATE" THEN [slots EXCEPT ![v] = @ \union {q.unit}] ELSE slots
      /\ cmd' = IF Waiting(q)
                  THEN [cmd EXCEPT ![q.op].reply =
                          [answer |-> Reply(q), version |-> v, unit |-> q.unit]]
                  ELSE cmd
      /\ UNCHANGED <<earned, version, opened, h1, worldVars, state>>
  BY DEF Serve, runVars
<1>2. q \in RequestsOf(cmd) BY HeadTailProperties DEF Serve, CommandsOK
<1> HIDE DEF q
<1>3. q.op \in Operators BY <1>2 DEF RequestsOf, AnyRequests
<1>4. slots \in [Versions -> SUBSET CanaryUnits] BY DEF CommandsOK, SlotsOK
<1>0. UNCHANGED Shown BY <1>1, ShownStays
<1>5. ASSUME NEW w \in Versions, slots'[w] # {}
      PROVE  ChainComplete(Shown', opened', w)
  <2>1. CASE slots[w] # {} BY <1>0, <1>1, <2>1 DEF ChainOK, Exposed
  <2>2. CASE slots[w] = {}
    <3>1. Reply(q) = "CANDIDATE" /\ w = v BY <1>1, <1>4, <1>5, <2>2
    <3>2. state.active BY <3>1 DEF Reply
    <3> QED BY <1>0, <1>1, <3>1, <3>2 DEF ChainOK
  <2> QED BY <2>1, <2>2
<1>6. (OpenNow \subseteq opened)' BY <1>1, OpenStays DEF ChainOK
<1>7. ASSUME NEW p \in Operators PROVE BindOK(Shown', opened', cmd'[p])
  <2>1. CASE cmd'[p] = cmd[p] BY <1>0, <1>1, <2>1 DEF ChainOK
  <2>2. CASE cmd'[p] # cmd[p]
    <3> DEFINE reply == [answer |-> Reply(q), version |-> v, unit |-> q.unit]
    <3>1. Waiting(q) /\ p = q.op /\ cmd'[p] = [cmd[p] EXCEPT !.reply = reply]
      BY <1>1, <1>3, <2>2 DEF CommandsOK
    <3> HIDE DEF reply
    <3>2. cmd[p] \in GoodCmds /\ cmd[p] \in CmdRecords BY DEF CommandsOK, GoodCmds
    <3>3. cmd'[p].pc = "wait" BY <3>1, <3>2 DEF Waiting, CmdRecords
    <3> QED BY <3>3 DEF BindOK
  <2> QED BY <2>1, <2>2
<1> QED BY <1>0, <1>1, <1>5, <1>6, <1>7 DEF ChainOK, Exposed

LEMMA ChainKeeps ==
  ASSUME RunsOK, CommandsOK, Unedited => OwnResults, ChainOK, Shown \subseteq Shown', [Next]_vars
  PROVE  ChainOK'
<1>1. CASE /\ UNCHANGED <<slots, state, cmd>> /\ opened \subseteq opened'
           /\ (OpenNow \subseteq opened)'
  <2>1. \A p \in Operators : BindOK(Shown', opened', cmd'[p])
    BY <1>1, BindStays DEF ChainOK
  <2>2. Exposed(Shown', opened', slots') BY <1>1, ExposureStays DEF ChainOK
  <2> QED BY <1>1, <2>1, <2>2 DEF ChainOK, ChainComplete
<1>2. CASE RunNext /\ UNCHANGED <<worldVars, serverVars, cmd, opened>>
  <2>1. UNCHANGED h1
    BY <1>2 DEF RunNext, RunStep, CheckBudget, WriteBudget, StartRun, SpawnAgent, EndUnit, Finish,
       StartAnalyze, WriteAnalysis, KillRunner, Authorize, EditDefinition
  <2> QED BY <1>1, <1>2, <2>1, OpenStays DEF ChainOK, serverVars
<1>3. CASE ChangeWorld
  <2>1. UNCHANGED <<slots, state, cmd>> /\ opened \subseteq opened' /\ (OpenNow \subseteq opened)'
    BY <1>3 DEF ChangeWorld, serverVars
  <2> QED BY <1>1, <2>1
<1>4. ASSUME NEW o \in Operators, Begin(o) \/ Step(o) PROVE ChainOK'
  BY <1>4, ReadGateChain, CheckBindingChain, WriteChain, OthersChain DEF Step
<1>5. CASE Serve BY <1>5, ServeChain
<1>6. CASE UNCHANGED vars
  <2>1. UNCHANGED <<h1, worldVars, slots, state, cmd, opened>> BY <1>6 DEF vars, runVars, serverVars
  <2> QED BY <1>1, <2>1, OpenStays DEF ChainOK
<1> QED BY <1>2, <1>3, <1>4, <1>5, <1>6 DEF Next

LEMMA EarnedStart == Init => OwnResults /\ ChainOK
<1> SUFFICES ASSUME Init PROVE OwnResults /\ ChainOK OBVIOUS
<1>1. OwnResults BY DEF Init, RunInit, Idle, OwnResults, QualifiedIsEarned
<1>2. NoCommand.kind # "bind" \/ NoCommand.pc = "idle" BY DEF NoCommand
<1>3. \A o \in Operators : BindOK(Shown, opened, cmd[o]) BY <1>2 DEF Init, BindOK
<1>4. Exposed(Shown, opened, slots) BY DEF Init, Exposed
<1> QED BY <1>1, <1>3, <1>4 DEF Init, ChainOK

LEMMA EarnedKeeps ==
  ASSUME EarnedInv, IInv', [Next]_vars
  PROVE  EarnedInv'
<1>1. RunsOK /\ CommandsOK /\ RunsOK' BY DEF EarnedInv, IInv
<1>2. version' = version \/ (version' = version + 1 /\ RunNext)
  <2>1. CASE RunNext
    BY <2>1 DEF RunNext, RunStep, CheckBudget, WriteBudget, StartRun, SpawnAgent, EndUnit, Finish,
       StartAnalyze, WriteAnalysis, KillRunner, Authorize, EditDefinition
  <2>2. UNCHANGED vars => UNCHANGED version BY DEF vars, runVars
  <2>3. ASSUME NEW o \in Operators, Begin(o) \/ Step(o) PROVE UNCHANGED version
    BY <2>3 DEF Begin, Step, ReadGate, CheckBinding, WriteBinding, ReadState, WriteRollback, Ask,
       TakeReply, TimeoutAsk, Judge, runVars
  <2>4. ChangeWorld \/ Serve => UNCHANGED version BY DEF ChangeWorld, Serve, runVars
  <2> QED BY <2>1, <2>2, <2>3, <2>4 DEF Next
<1>3. Unedited' => Unedited
  <2>1. version \in Nat /\ version >= 1 BY <1>1 DEF RunsOK, Versions
  <2> QED BY <1>2, <2>1 DEF Unedited
<1>4. Unedited => OwnResults' /\ earned \subseteq earned'
  <2> SUFFICES ASSUME Unedited PROVE OwnResults' /\ earned \subseteq earned' OBVIOUS
  <2>1. CASE RunNext BY <1>1, <2>1, RunsOwn DEF EarnedInv
  <2>2. CASE UNCHANGED <<earned, run, sequence, analysis>>
    BY <2>2 DEF EarnedInv, OwnResults, QualifiedIsEarned
  <2>3. UNCHANGED vars => UNCHANGED <<earned, run, sequence, analysis>> BY DEF vars, runVars
  <2>4. ASSUME NEW o \in Operators, Begin(o) \/ Step(o)
        PROVE  UNCHANGED <<earned, run, sequence, analysis>>
    BY <2>4 DEF Begin, Step, ReadGate, CheckBinding, WriteBinding, ReadState, WriteRollback, Ask,
       TakeReply, TimeoutAsk, Judge, runVars
  <2>5. ChangeWorld \/ Serve => UNCHANGED <<earned, run, sequence, analysis>>
    BY DEF ChangeWorld, Serve, runVars
  <2> QED BY <2>1, <2>2, <2>3, <2>4, <2>5 DEF Next
<1>5. Shown \subseteq Shown' BY <1>1, <1>3, <1>4 DEF Shown, RunsOK
<1>6. ChainOK' BY <1>1, <1>5, ChainKeeps DEF EarnedInv
<1> QED BY <1>3, <1>4, <1>6 DEF EarnedInv

\* The invariant of what is earned, for the two theorems on it.
LEMMA EarnedInvariance == Spec => []EarnedInv
<1>1. Init /\ IInv => EarnedInv BY EarnedStart DEF EarnedInv
<1>2. EarnedInv /\ IInv' /\ [Next]_vars => EarnedInv' BY EarnedKeeps
<1> QED BY <1>1, <1>2, Invariance, PTL DEF Spec

\* Whatever is edited, a unit is exposed only after H1, H3 and a valid approval
\* were there, in whatever order gates open and close while bind reads them
\* (pag2_ops.py).
THEOREM ExposureApprovedHolds == Spec => []ExposureWasApproved
<1>1. EarnedInv => ExposureWasApproved
  BY DEF EarnedInv, ChainOK, Exposed, ChainComplete, ExposureWasApproved
<1> QED BY <1>1, EarnedInvariance, PTL

\* Until somebody edits the definition, a candidate is called qualified only on
\* a run of that definition in which every planned unit but possibly the last
\* passed or failed and the candidate was ahead over the complete pairs, and a
\* unit is exposed only after such a label, H1, H3 and a valid approval were
\* there, however often runs and analyses are killed (real_analyze.py,
\* pag2_ops.py).  An edit breaks it: BoundOnOwnEvidence.
THEOREM OnlyEarnedHolds == Spec => [](Unedited => OnlyEarned)
<1>1. EarnedInv => (Unedited => OnlyEarned)
  BY DEF EarnedInv, OwnResults, ChainOK, Exposed, ChainComplete, Shown, OnlyEarned,
     ExposureWasEarned, ExposureWasApproved
<1> QED BY <1>1, EarnedInvariance, PTL

=============================================================================
