--------------------------- MODULE SpawnActuation ---------------------------
(***************************************************************************)
(* The spawn-time path of a production canary.  Gateway workers ask the    *)
(* protected actuator over a Unix socket which configuration a task is     *)
(* spawned with (hermes_plugin.py, ipc_client.py) and give up after a      *)
(* timeout; one single-threaded server answers (actuator.py), reading      *)
(* state.json for every request and reserving a slot for every candidate   *)
(* it hands out; operators bind a canary and roll it back by rewriting     *)
(* state.json in place (pag2_ops.py).  systemd owns the listening socket   *)
(* and restarts a failed server, so requests outlive both their client and *)
(* the server that was to answer them.                                     *)
(*                                                                         *)
(* Requests come from the runtime's own uid and board, with the identity   *)
(* the binding expects; the KILL file is not engaged (AdaptationControl).  *)
(***************************************************************************)
EXTENDS Naturals, Sequences, FiniteSets

CONSTANTS
  Clients,      \* gateway workers, each with one hook call at a time
  NoClient,     \* the client of a request has closed its socket
  Units,        \* task_id values
  NoUnit,
  Operators,    \* processes running pag2-bind or pag2-rollback
  Policies,     \* policy_hash values (one per frozen protocol)
  NoPolicy,
  AnyPolicy,    \* one of Policies: the ledger is stated for it
  ReservePath,  \* type of serve_forever's reserve_path: "str" or "Path"
  MaxCalls,     \* bound: hook calls
  MaxFaults,    \* bound: kills of the server or of an operator, slow resolutions
  MaxEdits      \* bound: bind and rollback commands

ASSUME NamesAssumption ==
  /\ NoClient \notin Clients /\ NoUnit \notin Units
  /\ NoPolicy \notin Policies /\ AnyPolicy \in Policies
ASSUME BoundsAssumption == MaxCalls \in Nat /\ MaxFaults \in Nat /\ MaxEdits \in Nat
ASSUME PathAssumption == ReservePath \in {"str", "Path"}

VARIABLES
  file,     \* state.json: its binding's mode, or why there is none
  edit,     \* edit[o]: command and step of operator o, and the file it read
  queue,    \* connections waiting in systemd's listening socket
  server,   \* what the server does next; "down" until systemd restarts it
  req,      \* the request it handles: [client, unit]
  state,    \* live_state of that request
  answer,   \* the policy the answer actuates, or NoPolicy for BASELINE
  slots,    \* reservations.sqlite: [policy, unit]
  call,     \* call[c]: the unit whose hook call is open, or NoUnit
  spawned,  \* history: [policy, unit] spawned with candidate overrides
  calls, faults, edits   \* counters of the three bounds

opVars == <<file, edit, edits>>
serverVars == <<server, req, state, answer, slots>>
vars == <<opVars, queue, serverVars, call, spawned, calls, faults>>

Absent == [mode |-> "absent", policy |-> NoPolicy]
Torn == [mode |-> "torn", policy |-> NoPolicy]
Canary(p) == [mode |-> "CANARY", policy |-> p]
Files ==
  {Absent, Torn} \union [mode: {"CANARY"}, policy: Policies]
    \union [mode: {"BASELINE"}, policy: Policies \union {NoPolicy}]
Requests == [client: Clients \union {NoClient}, unit: Units]
NoRequest == [client |-> NoClient, unit |-> NoUnit]
Commands == {"bind", "rollback"}
NoEdit == [op |-> "bind", step |-> "idle", seen |-> Absent]

Init ==
  /\ file = Absent
  /\ edit = [o \in Operators |-> NoEdit]
  /\ queue = <<>> /\ server = "accept" /\ req = NoRequest
  /\ state = Absent /\ answer = NoPolicy /\ slots = {}
  /\ call = [c \in Clients |-> NoUnit]
  /\ spawned = {} /\ calls = 0 /\ faults = 0 /\ edits = 0

-----------------------------------------------------------------------------
(* Operators. *)

StartEdit(o, op) ==
  /\ edit[o].step = "idle" /\ edits < MaxEdits
  /\ edits' = edits + 1
  /\ edit' = [edit EXCEPT ![o] = [op |-> op, step |-> "read", seen |-> Absent]]
  /\ UNCHANGED <<file, queue, serverVars, call, spawned, calls, faults>>

\* json.loads of a truncated file raises: the command ends in an error.
ReadFile(o) ==
  /\ edit[o].step = "read"
  /\ edit' = [edit EXCEPT ![o] =
       IF file = Torn THEN NoEdit ELSE [@ EXCEPT !.step = "truncate", !.seen = file]]
  /\ UNCHANGED <<file, edits, queue, serverVars, call, spawned, calls, faults>>

\* write_text opens the file with O_TRUNC and writes it afterwards.
Truncate(o) ==
  /\ edit[o].step = "truncate"
  /\ file' = Torn
  /\ edit' = [edit EXCEPT ![o].step = "write"]
  /\ UNCHANGED <<edits, queue, serverVars, call, spawned, calls, faults>>

\* The text each command writes: a canary of the protocol's hash, or what was
\* read with its first binding rolled back.
Text(o, p) ==
  IF edit[o].op = "bind" THEN Canary(p)
  ELSE [mode |-> "BASELINE", policy |-> edit[o].seen.policy]

\* A rolled back binding is longer than an active one, none at all shorter.
Length(f) ==
  CASE f.mode = "CANARY" -> 2
    [] f.mode = "BASELINE" -> IF f.policy = NoPolicy THEN 1 ELSE 3
    [] OTHER -> 0

\* Two commands may have truncated the file: the later text overwrites the
\* earlier one from its start, and the tail of a longer one remains.
Written(old, new) == IF Length(old) > Length(new) THEN Torn ELSE new

WriteFile(o) ==
  /\ edit[o].step = "write"
  /\ \E p \in Policies : file' = Written(file, Text(o, p))
  /\ edit' = [edit EXCEPT ![o] = NoEdit]
  /\ UNCHANGED <<edits, queue, serverVars, call, spawned, calls, faults>>

KillOperator(o) ==
  /\ edit[o].step # "idle" /\ faults < MaxFaults
  /\ faults' = faults + 1
  /\ edit' = [edit EXCEPT ![o] = NoEdit]
  /\ UNCHANGED <<file, edits, queue, serverVars, call, spawned, calls>>

-----------------------------------------------------------------------------
(* Gateway workers. *)

\* connect succeeds whether or not a server runs: systemd listens.
HookCall(c, u) ==
  /\ call[c] = NoUnit /\ calls < MaxCalls
  /\ calls' = calls + 1
  /\ call' = [call EXCEPT ![c] = u]
  /\ queue' = Append(queue, [client |-> c, unit |-> u])
  /\ UNCHANGED <<opVars, serverVars, spawned, faults>>

Abandoned(r, c) == IF r.client = c THEN [r EXCEPT !.client = NoClient] ELSE r

\* Mutant of GiveUp: a client that was accepted waits without a timeout.
GiveUpOnlyQueued(c) ==
  /\ call[c] # NoUnit /\ \E i \in 1..Len(queue) : queue[i].client = c
  /\ call' = [call EXCEPT ![c] = NoUnit]
  /\ queue' = [i \in 1..Len(queue) |-> Abandoned(queue[i], c)]
  /\ req' = Abandoned(req, c)
  /\ UNCHANGED <<opVars, server, state, answer, slots, spawned, calls, faults>>

\* The socket timeout, or the end of file a dying server leaves: BASELINE.
\* The request stays where it is.
GiveUp(c) ==
  /\ call[c] # NoUnit
  /\ call' = [call EXCEPT ![c] = NoUnit]
  /\ queue' = [i \in 1..Len(queue) |-> Abandoned(queue[i], c)]
  /\ req' = Abandoned(req, c)
  /\ UNCHANGED <<opVars, server, state, answer, slots, spawned, calls, faults>>

-----------------------------------------------------------------------------
(* The server. *)

Accept ==
  /\ server = "accept" /\ queue # <<>>
  /\ req' = Head(queue) /\ queue' = Tail(queue)
  /\ server' = "load"
  /\ UNCHANGED <<opVars, state, answer, slots, call, spawned, calls, faults>>

\* Mutant of LoadState: the file is read once and then kept.
LoadStateOnce ==
  /\ server = "load"
  /\ IF file = Torn
       THEN server' = "down" /\ UNCHANGED state
       ELSE server' = "decide" /\ state' = IF state = Absent THEN file ELSE state
  /\ UNCHANGED <<opVars, queue, req, answer, slots, call, spawned, calls, faults>>

\* load_protected_state is not inside the try: a torn file ends the process.
LoadState ==
  /\ server = "load"
  /\ IF file = Torn
       THEN server' = "down" /\ UNCHANGED state
       ELSE server' = "decide" /\ state' = file
  /\ UNCHANGED <<opVars, queue, req, answer, slots, call, spawned, calls, faults>>

Holders(p) == {s.unit : s \in {t \in slots : t.policy = p}}

\* reserve_sqlite with maximum_exposure 1, seen from its only caller.
Reserved(p, u) ==
  IF Holders(p) = {} THEN slots \union {[policy |-> p, unit |-> u]} ELSE slots

\* Mutant of Decide: an exhausted exposure is answered CANDIDATE.
DecideUnreserved ==
  /\ server = "decide"
  /\ server' = "send"
  /\ IF state.mode # "CANARY"
       THEN answer' = NoPolicy /\ UNCHANGED slots
       ELSE slots' = Reserved(state.policy, req.unit) /\ answer' = state.policy
  /\ UNCHANGED <<opVars, queue, req, state, call, spawned, calls, faults>>

\* resolve_policy of the loaded state, then the reservation.  A reserve_path
\* of type str has no .parent: every candidate ends the process.
Decide ==
  /\ server = "decide"
  /\ IF state.mode # "CANARY"
       THEN server' = "send" /\ answer' = NoPolicy /\ UNCHANGED slots
     ELSE IF ReservePath = "str"
       THEN server' = "down" /\ UNCHANGED <<answer, slots>>
     ELSE
       /\ slots' = Reserved(state.policy, req.unit)
       /\ answer' = IF [policy |-> state.policy, unit |-> req.unit] \in slots'
                      THEN state.policy ELSE NoPolicy
       /\ server' = "send"
  /\ UNCHANGED <<opVars, queue, req, state, call, spawned, calls, faults>>

\* The resolver took more than 50 ms: "actuation seam timeout", BASELINE.
DecideLate ==
  /\ server = "decide" /\ faults < MaxFaults
  /\ faults' = faults + 1
  /\ server' = "send" /\ answer' = NoPolicy
  /\ UNCHANGED <<opVars, queue, req, state, slots, call, spawned, calls>>

\* sendall; a closed socket is ignored.  The hook returns the overrides.
Send ==
  /\ server = "send"
  /\ server' = "accept"
  /\ IF req.client = NoClient THEN UNCHANGED <<call, spawned>>
     ELSE /\ call' = [call EXCEPT ![req.client] = NoUnit]
          /\ spawned' = IF answer = NoPolicy THEN spawned
                        ELSE spawned \union {[policy |-> answer, unit |-> req.unit]}
  /\ req' = NoRequest
  /\ UNCHANGED <<opVars, queue, state, answer, slots, calls, faults>>

KillServer ==
  /\ server # "down" /\ faults < MaxFaults
  /\ faults' = faults + 1 /\ server' = "down"
  /\ UNCHANGED <<opVars, queue, req, state, answer, slots, call, spawned, calls>>

\* Mutant of Restart: reservations kept in the process (reserve_memory).
RestartForgets ==
  /\ server = "down"
  /\ server' = "accept" /\ req' = NoRequest /\ state' = Absent /\ answer' = NoPolicy
  /\ slots' = {}
  /\ UNCHANGED <<opVars, queue, call, spawned, calls, faults>>

\* A new process: what the old one was handling is gone, the table is not.
Restart ==
  /\ server = "down"
  /\ server' = "accept" /\ req' = NoRequest /\ state' = Absent /\ answer' = NoPolicy
  /\ UNCHANGED <<opVars, queue, slots, call, spawned, calls, faults>>

Operate(o) ==
  (\E op \in Commands : StartEdit(o, op)) \/ ReadFile(o) \/ Truncate(o) \/ WriteFile(o)
Serve == Accept \/ LoadState \/ Decide \/ Send \/ Restart

Next ==
  \/ \E o \in Operators : Operate(o) \/ KillOperator(o)
  \/ \E c \in Clients : (\E u \in Units : HookCall(c, u)) \/ GiveUp(c)
  \/ Serve \/ DecideLate \/ KillServer

Spec == Init /\ [][Next]_vars

\* The server process and systemd run on, a client's timeout fires, a command
\* under way goes on.  Nobody has to start a command or a call.
Fairness ==
  /\ WF_vars(Serve)
  /\ \A c \in Clients : WF_vars(GiveUp(c))
  /\ \A o \in Operators : WF_vars(ReadFile(o) \/ Truncate(o) \/ WriteFile(o))
FairSpec == Spec /\ Fairness

-----------------------------------------------------------------------------
(* Properties. *)

TypeOK ==
  /\ file \in Files /\ state \in Files
  /\ edit \in [Operators ->
       [op: Commands, step: {"idle", "read", "truncate", "write"}, seen: Files]]
  /\ queue \in Seq(Requests) /\ req \in Requests \union {NoRequest}
  /\ server \in {"accept", "load", "decide", "send", "down"}
  /\ answer \in Policies \union {NoPolicy}
  /\ slots \subseteq [policy: Policies, unit: Units]
  /\ spawned \subseteq [policy: Policies, unit: Units]
  /\ call \in [Clients -> Units \union {NoUnit}]
  /\ calls \in 0..MaxCalls /\ faults \in 0..MaxFaults /\ edits \in 0..MaxEdits

\* Whatever timed out, died or was bound again: a task runs with a candidate
\* configuration only if it holds the one slot of that policy.
SpawnedHoldsSlot ==
  /\ spawned \subseteq slots
  /\ \A s, t \in slots : s.policy = t.policy => s = t

\* For any policy the actuator implements the ledger of slots: a slot is
\* never refunded, neither to a client that gave up nor by a restart.
Ledger == INSTANCE ExposureLedger WITH
  MaxExposure <- 1,
  granted <- Holders(AnyPolicy),
  told <- {s.unit : s \in {t \in spawned : t.policy = AnyPolicy}}
ImplementsLedger == Ledger!LedgerSpec

\* Every hook call returns, with or without an answer: the worker is spawned.
HooksReturn == \A c \in Clients : call[c] # NoUnit ~> call[c] = NoUnit

\* While a canary stays bound, a waiting request gets its slot taken, unless
\* a kill or a slow resolution took the request.
CanaryReserves ==
  \A p \in Policies :
    (file = Canary(p) /\ queue # <<>>)
      ~> (Holders(p) # {} \/ file # Canary(p) \/ faults > 0)

\* When no command is under way, state.json can be read: by the next command,
\* and by the server, which otherwise dies at every request.
PersistedIsReadable == (\A o \in Operators : edit[o].step = "idle") => file # Torn
=============================================================================
