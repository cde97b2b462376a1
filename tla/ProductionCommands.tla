------------------------- MODULE ProductionCommands -------------------------
(***************************************************************************)
(* pag2-bind, pag2-canary, pag2-shadow, pag2-probe and pag2-rollback on    *)
(* top of the experiment that earns them.  A command reads its gates one   *)
(* after the other (H1, the label of analysis.json, H3, Approval A), and   *)
(* the first that was closed refuses it; bind then writes state.json and   *)
(* canary asks the actuator twice over its socket, for the task and for a  *)
(* task that comes late.  The actuator is its queue of requests, answered  *)
(* in order: SpawnActuation has it step by step.                           *)
(***************************************************************************)
EXTENDS RealAgentRun

CONSTANTS
  Operators,     \* shells that run the commands
  HermesOps,     \* those that may write the actuator's state
  RuntimePeers,  \* those whose uid the actuator accepts
  Tasks,         \* natural task ids and the workload id
  Kinds,         \* commands each of them runs
  Grants,        \* contents of approval-a.granted
  Identities,    \* runtime identities H3 may deploy
  Unbound,       \* actuator.env names no live patch
  InitialWorlds, \* [h1, h3, grant, live, trusted] the commands may find
  MaxCommands,   \* bound: commands of each operator
  MaxChanges     \* bound: changes of H1, H3, the grant, the identity and the trust

ASSUME CommandAssumption ==
  /\ Kinds \in [Operators -> SUBSET {"bind", "canary", "shadow", "probe", "rollback"}]
  /\ Grants \subseteq [writable : BOOLEAN, stage : {"A", "B"}, exposure : Nat,
                       identity : Identities, signature : {"valid", "invalid", "expired"}]
  /\ InitialWorlds \subseteq [h1 : BOOLEAN, h3 : BOOLEAN, grant : Grants \union {None},
                              live : Identities \union {Unbound}, trusted : BOOLEAN]
  /\ MaxCommands \in [Operators -> Nat]
  /\ Tasks # {}

\* None is no version and no word a command prints.
ASSUME NoneAssumption ==
  /\ \A v \in Versions : v # None
  /\ \A word \in {"PASS", "FAIL_EXPOSURE", "FAIL_CONSUMED_EXPOSURE",
                   "BLOCKED_SECURITY_BOUNDARY", "BLOCKED_EVIDENCE", "BLOCKED_H3",
                   "BLOCKED_APPROVAL", "SKIPPED_NO_CANDIDATE"} : word # None

VARIABLES
  h3,        \* the live seam and the plugin are present
  grant,     \* approval-a.granted
  live,      \* identity in actuator.env
  trusted,   \* the trust anchor is protected
  changes,
  state,     \* state.json: version bound and whether the binding is active
  queue,     \* requests the actuator has not answered
  slots,     \* units with a reservation, for each version
  told,      \* history: [version, unit] a command was answered CANDIDATE for
  cmd,       \* the command of each operator
  opened     \* history: gates that were ever open

worldVars == <<h3, grant, live, trusted, changes>>
serverVars == <<state, queue, slots, told>>
vars == <<runVars, worldVars, serverVars, cmd, opened>>

-----------------------------------------------------------------------------
(* Gates.                                                                  *)

\* The public key is used only while no agent can replace it.
TrustAnchor == trusted

\* Detached signature over the canonical fields, in time, its nonce unused.
DetachedValid(g) == g.signature = "valid"

\* A standing grant is verified without consuming its nonce.
AuthorizationVerified(g) == TrustAnchor /\ DetachedValid(g)

\* approval_a_granted.
ApprovalGranted ==
  /\ grant # None
  /\ ~grant.writable
  /\ grant.stage = "A" /\ grant.exposure = 1
  /\ live # Unbound /\ grant.identity = live
  /\ AuthorizationVerified(grant)

CurrentLabel == IF analysis = None THEN "NOT_STARTED" ELSE analysis.label

\* Mutant: a grant that is there is a grant.
GateStatusPresent(gate, kind) ==
  CASE gate = "h1" -> IF h1 THEN None ELSE "BLOCKED_SECURITY_BOUNDARY"
    [] gate = "label" -> IF CurrentLabel = "QUALIFIED_CANDIDATE" THEN None ELSE "BLOCKED_EVIDENCE"
    [] gate = "h3" -> IF h3 THEN None ELSE "BLOCKED_H3"
    [] gate = "approval" -> IF grant # None THEN None ELSE "BLOCKED_APPROVAL"

\* What a command takes from a gate: None when it is open.
GateStatus(gate, kind) ==
  CASE gate = "h1" -> IF h1 THEN None ELSE "BLOCKED_SECURITY_BOUNDARY"
    [] gate = "label" ->
         CASE CurrentLabel = "QUALIFIED_CANDIDATE" -> None
           [] kind = "shadow" /\ CurrentLabel = "VALID_NO_PROMOTION" -> "SKIPPED_NO_CANDIDATE"
           [] OTHER -> "BLOCKED_EVIDENCE"
    [] gate = "h3" -> IF h3 THEN None ELSE "BLOCKED_H3"
    [] gate = "approval" -> IF ApprovalGranted THEN None ELSE "BLOCKED_APPROVAL"

GatesOf(kind) ==
  CASE kind \in {"bind", "canary"} -> <<"h1", "label", "h3", "approval">>
    [] kind = "shadow" -> <<"h1", "label">>
    [] kind = "rollback" -> <<"h1">>
    [] kind = "probe" -> <<>>

OpenNow ==
  (IF h1 THEN {"h1"} ELSE {}) \union (IF h3 THEN {"h3"} ELSE {})
    \union (IF ApprovalGranted THEN {"approval"} ELSE {})

-----------------------------------------------------------------------------
NoCommand == [pc |-> "idle", kind |-> None, task |-> None, read |-> 0, version |-> None,
              file |-> None, reply |-> None, answers |-> <<>>, status |-> None, round |-> 0]

Init ==
  /\ RunInit
  /\ \E w \in InitialWorlds :
       /\ h1 = w.h1 /\ h3 = w.h3 /\ grant = w.grant /\ live = w.live /\ trusted = w.trusted
  /\ changes = 0
  /\ state = [version |-> None, active |-> FALSE]
  /\ queue = <<>>
  /\ slots = [v \in Versions |-> {}]
  /\ told = {}
  /\ cmd = [o \in Operators |-> NoCommand]
  /\ opened = OpenNow

\* Humans and cutovers change what the gates look at.
ChangeWorld ==
  /\ changes < MaxChanges
  /\ changes' = changes + 1
  /\ \/ h1' = ~h1 /\ UNCHANGED <<h3, grant, live, trusted>>
     \/ h3' = ~h3 /\ UNCHANGED <<h1, grant, live, trusted>>
     \/ trusted' = ~trusted /\ UNCHANGED <<h1, h3, grant, live>>
     \/ grant' \in (Grants \union {None}) \ {grant} /\ UNCHANGED <<h1, h3, live, trusted>>
     \/ live' \in Identities \ {live} /\ UNCHANGED <<h1, h3, grant, trusted>>
  /\ opened' = opened \union OpenNow'
  /\ UNCHANGED <<version, auth, sequence, analysis, run, starts, spawned, earned, serverVars, cmd>>

Begin(o) ==
  /\ cmd[o].pc = "idle" /\ cmd[o].round < MaxCommands[o]
  /\ \E kind \in Kinds[o], task \in Tasks :
       /\ kind # "canary" => task = CHOOSE t \in Tasks : TRUE
       /\ cmd' = [cmd EXCEPT ![o] = [NoCommand EXCEPT !.pc = "gates", !.kind = kind, !.task = task,
                                                      !.round = cmd[o].round + 1]]
  /\ UNCHANGED <<runVars, worldVars, serverVars, opened>>

AllRead(o) == cmd[o].pc = "gates" /\ cmd[o].read = Len(GatesOf(cmd[o].kind))
Passed(o, kind) == AllRead(o) /\ cmd[o].kind = kind

End(o, status) ==
  [cmd EXCEPT ![o] = [NoCommand EXCEPT !.kind = cmd[o].kind, !.task = cmd[o].task,
                                       !.status = status, !.round = cmd[o].round]]

\* The code reads all its gates before it refuses at the first closed one; the
\* later reads change nothing.  A label that cannot be parsed is an error.
ReadGate(o) ==
  /\ cmd[o].pc = "gates" /\ ~AllRead(o)
  /\ LET gate == GatesOf(cmd[o].kind)[cmd[o].read + 1]
         status == GateStatus(gate, cmd[o].kind)
     IN cmd' = IF gate = "label" /\ analysis = Torn THEN End(o, "error")
               ELSE IF status # None THEN End(o, status)
               ELSE [cmd EXCEPT ![o].read = @ + 1]
  /\ UNCHANGED <<runVars, worldVars, serverVars, opened>>

-----------------------------------------------------------------------------
(* pag2-bind and pag2-rollback.                                            *)

CheckBinding(o) ==
  /\ Passed(o, "bind")
  /\ cmd' = IF o \notin HermesOps THEN End(o, "BLOCKED_WRITE")
            ELSE IF analysis = Torn THEN End(o, "error")
            ELSE IF analysis # None /\ analysis.version \notin {None, version}
                 THEN End(o, "BLOCKED_EVIDENCE")
            ELSE [cmd EXCEPT ![o].pc = "write", ![o].version = version]
  /\ UNCHANGED <<runVars, worldVars, serverVars, opened>>

\* Whatever state.json held is replaced by the one binding.
WriteBinding(o) ==
  /\ cmd[o].pc = "write" /\ cmd[o].kind = "bind"
  /\ state' = [version |-> cmd[o].version, active |-> TRUE]
  /\ cmd' = End(o, "BOUND")
  /\ UNCHANGED <<runVars, worldVars, queue, slots, told, opened>>

ReadState(o) ==
  /\ Passed(o, "rollback")
  /\ cmd' = IF o \in HermesOps THEN [cmd EXCEPT ![o].pc = "write", ![o].file = state]
                               ELSE End(o, "BLOCKED_WRITE")
  /\ UNCHANGED <<runVars, worldVars, serverVars, opened>>

\* Mutant of WriteRollback: the slot is given back.
WriteRollbackRefunds(o) ==
  /\ cmd[o].pc = "write" /\ cmd[o].kind = "rollback"
  /\ state' = [cmd[o].file EXCEPT !.active = FALSE]
  /\ slots' = [v \in Versions |-> {}]
  /\ cmd' = End(o, "PASS")
  /\ UNCHANGED <<runVars, worldVars, queue, told, opened>>

\* The file as it was read, its first binding rolled back.
WriteRollback(o) ==
  /\ cmd[o].pc = "write" /\ cmd[o].kind = "rollback"
  /\ state' = [cmd[o].file EXCEPT !.active = FALSE]
  /\ cmd' = End(o, "PASS")
  /\ UNCHANGED <<runVars, worldVars, queue, slots, told, opened>>

-----------------------------------------------------------------------------
(* pag2-canary, pag2-shadow and pag2-probe ask the actuator.               *)

Asks(kind) == IF kind = "canary" THEN 2 ELSE 1

\* The second request of a canary is for the task's late sibling.
Unit(task, n) == <<task, IF n = 1 THEN "task" ELSE "late">>

Ask(o) ==
  /\ cmd[o].kind \in {"canary", "shadow", "probe"}
  /\ Passed(o, cmd[o].kind)
  /\ Len(cmd[o].answers) < Asks(cmd[o].kind)
  /\ LET n == Len(cmd[o].answers) + 1
     IN queue' = Append(queue, [op |-> o, round |-> cmd[o].round, n |-> n,
                                shadow |-> cmd[o].kind # "canary", unit |-> Unit(cmd[o].task, n)])
  /\ cmd' = [cmd EXCEPT ![o].pc = "wait"]
  /\ UNCHANGED <<runVars, worldVars, state, slots, told, opened>>

Waiting(q) ==
  LET c == cmd[q.op]
  IN c.pc = "wait" /\ c.reply = None /\ c.round = q.round /\ Len(c.answers) + 1 = q.n

Answered(o, answer) ==
  [cmd EXCEPT ![o].pc = "gates", ![o].reply = None, ![o].answers = Append(@, answer)]

\* Mutant: slots are not counted.
ReplyUncounted(q) ==
  IF q.op \notin RuntimePeers THEN "PEER_REJECTED"
  ELSE IF q.shadow THEN "SHADOW_NO_ACTUATE"
  ELSE IF state.active THEN "CANDIDATE" ELSE "BASELINE"

\* handle_request on the state of the moment.
Reply(q) ==
  IF q.op \notin RuntimePeers THEN "PEER_REJECTED"
  ELSE IF q.shadow THEN "SHADOW_NO_ACTUATE"
  ELSE IF ~state.active THEN "BASELINE"
  ELSE IF q.unit \in slots[state.version] \/ slots[state.version] = {} THEN "CANDIDATE"
  ELSE "EXPOSURE_EXHAUSTED"

\* A reservation is made whether or not the client still waits for it.
Serve ==
  /\ queue # <<>>
  /\ LET q == Head(queue)
         v == state.version
     IN /\ queue' = Tail(queue)
        /\ slots' = IF Reply(q) = "CANDIDATE" THEN [slots EXCEPT ![v] = @ \union {q.unit}] ELSE slots
        /\ cmd' = IF Waiting(q)
                   THEN [cmd EXCEPT ![q.op].reply = [answer |-> Reply(q), version |-> v, unit |-> q.unit]]
                   ELSE cmd
  /\ UNCHANGED <<runVars, worldVars, state, told, opened>>

TakeReply(o) ==
  /\ cmd[o].reply # None
  /\ LET r == cmd[o].reply
     IN /\ told' = IF r.answer = "CANDIDATE"
                   THEN told \union {[version |-> r.version, unit |-> r.unit]} ELSE told
        /\ cmd' = Answered(o, r.answer)
  /\ UNCHANGED <<runVars, worldVars, state, queue, slots, opened>>

\* After half a second the client fails open: its request stays in the queue,
\* or was never accepted, or the reply comes too late.
TimeoutAsk(o) ==
  /\ cmd[o].pc = "wait"
  /\ cmd' = Answered(o, "IPC timeout")
  /\ \/ UNCHANGED queue
     \/ /\ cmd[o].reply = None
        /\ \E i \in DOMAIN queue :
             /\ queue[i].op = o /\ Waiting(queue[i])
             /\ queue' = SubSeq(queue, 1, i - 1) \o SubSeq(queue, i + 1, Len(queue))
  /\ UNCHANGED <<runVars, worldVars, state, slots, told, opened>>

CanaryVerdict(first, second) ==
  CASE first = "PEER_REJECTED" -> "BLOCKED_PEER"
    [] first = "CANDIDATE" /\ second = "CANDIDATE" -> "FAIL_EXPOSURE"
    [] first = "CANDIDATE" /\ second # "CANDIDATE" -> "PASS"
    [] OTHER -> "FAIL"

ShadowVerdict(answer) ==
  CASE answer = "CANDIDATE" -> "FAIL_CONSUMED_EXPOSURE"
    [] answer = "PEER_REJECTED" -> "BLOCKED_PEER"
    [] OTHER -> "PASS"

ProbeVerdict(answer) ==
  CASE answer = "CANDIDATE" -> "FAIL_CONSUMED_EXPOSURE"
    [] answer = "PEER_REJECTED" -> "BLOCKED_PEER"
    [] answer \in {"SHADOW_NO_ACTUATE", "IPC timeout"} -> "PASS"
    [] OTHER -> "FAIL"

Verdict(kind, answers) ==
  CASE kind = "canary" -> CanaryVerdict(answers[1], answers[2])
    [] kind = "shadow" -> ShadowVerdict(answers[1])
    [] kind = "probe" -> ProbeVerdict(answers[1])

Judge(o) ==
  /\ cmd[o].kind \in {"canary", "shadow", "probe"}
  /\ Passed(o, cmd[o].kind)
  /\ Len(cmd[o].answers) = Asks(cmd[o].kind)
  /\ cmd' = End(o, Verdict(cmd[o].kind, cmd[o].answers))
  /\ UNCHANGED <<runVars, worldVars, serverVars, opened>>

-----------------------------------------------------------------------------
Step(o) ==
  \/ ReadGate(o) \/ CheckBinding(o) \/ WriteBinding(o) \/ ReadState(o)
  \/ WriteRollback(o) \/ Ask(o) \/ TakeReply(o) \/ TimeoutAsk(o) \/ Judge(o)

Next ==
  \/ RunNext /\ UNCHANGED <<worldVars, serverVars, cmd, opened>>
  \/ ChangeWorld
  \/ \E o \in Operators : Begin(o) \/ Step(o)
  \/ Serve

Spec == Init /\ [][Next]_vars

-----------------------------------------------------------------------------
(* Properties.                                                             *)

TypeOK ==
  /\ RunTypeOK
  /\ grant \in Grants \union {None} /\ live \in Identities \union {Unbound}
  /\ state.version \in Versions \union {None} /\ (state.active => state.version # None)
  /\ slots \in [Versions -> SUBSET (Tasks \X {"task", "late"})]
  /\ \A o \in Operators :
       /\ cmd[o].pc \in {"idle", "gates", "write", "wait"}
       /\ cmd[o].round \in 0..MaxCommands[o]
       /\ Len(cmd[o].answers) <= 2

\* No unit is exposed unless H1, H3 and a valid approval were each there at
\* some time.
ExposureWasApproved ==
  \A v \in Versions : slots[v] # {} => {"h1", "h3", "approval"} \subseteq opened

\* Nor unless the bound definition's own run showed evidence for the
\* candidate: the whole chain from the first unit to the reservation.
ExposureWasEarned ==
  ExposureWasApproved /\ \A v \in Versions : slots[v] # {} => v \in earned

\* A definition is labelled as one with evidence only by the units of its own
\* run (all it plans but possibly the last), and what the canary exposes rests
\* on such a label.
OnlyEarned == QualifiedIsEarned /\ ExposureWasEarned

\* Runs, commands, files and slots have their types, and no run of agents goes
\* beyond the authorization it was started under.
LimitsHold == TypeOK /\ WithinAuthorization

\* The hash in the binding is that of a definition whose own run showed
\* evidence, never of one edited after the outcomes were seen.
BoundOnOwnEvidence == state.active => state.version \in earned

\* What pag2-canary reports is so: PASS for a unit that holds a slot, and
\* FAIL_EXPOSURE only when the two requests met two policies; a shadow or a
\* probe is never answered with a candidate.
VerdictsTrue ==
  \A o \in Operators :
    /\ cmd[o].kind = "canary" /\ cmd[o].status = "PASS" =>
         \E v \in Versions : Unit(cmd[o].task, 1) \in slots[v]
    /\ cmd[o].status = "FAIL_EXPOSURE" => Cardinality({v \in Versions : slots[v] # {}}) > 1
    /\ cmd[o].status # "FAIL_CONSUMED_EXPOSURE"

\* For the policy of the first version the commands and the actuator keep the
\* ledger of one slot: a late answer, a lost one or a rollback refunds nothing.
Ledger == INSTANCE ExposureLedger WITH
  Units <- Tasks \X {"task", "late"},
  MaxExposure <- 1,
  granted <- slots[1],
  told <- {t.unit : t \in {x \in told : x.version = 1}}

ImplementsLedger == Ledger!LedgerSpec
=============================================================================
