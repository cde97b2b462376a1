----------------------- MODULE ExposureLedger_proofs -----------------------
(***************************************************************************)
(* Who keeps the ledger of exposure on the way to a spawn: the callers of  *)
(* reserve_sqlite, statement by statement (SlotReservation), and the       *)
(* actuator that reserves in one step and answers over its socket          *)
(* (SpawnActuation).  Both for any callers, gateways, units, policies and  *)
(* bounds.                                                                 *)
(*                                                                         *)
(* A count read outside the transaction may be too small but never too big *)
(* (ProcOK): the rows only grow.  An INSERT that meets no constraint       *)
(* therefore takes exactly the next free slot, and nobody else commits     *)
(* before its COMMIT, because it holds SQLite's write lock.                *)
(*                                                                         *)
(* The server is the only one that writes the actuator's table, and        *)
(* between the reservation and the answer it remembers a unit that holds a *)
(* slot (AnswerOK); whatever becomes of the client, of the server or of    *)
(* state.json, no step takes a row out of the table.                       *)
(***************************************************************************)
EXTENDS SlotReservation, SpawnActuation, FiniteSetTheorems, TLAPS

-----------------------------------------------------------------------------
(* SlotReservation: the invariant of the racing callers.                   *)

Counted == {"insert", "commit"}

ProcOK(c) ==
  /\ pc[c] \in Counted => used[c] <= Cardinality(table) /\ used[c] < MaxExposure
  /\ pc[c] = "commit" =>
       /\ writer = c /\ used[c] = Cardinality(table)
       /\ ~ Violates(RowOf(c))
  /\ pc[c] = "return" => \E r \in table : r.unit = unit[c]

SlotInv ==
  /\ SlotTypeOK
  /\ IsFiniteSet(table)
  /\ AtMostMaximum
  /\ SlotsDense
  /\ SomeoneWins
  /\ told \subseteq {r.unit : r \in table}
  /\ \A c \in Callers : ProcOK(c)

LEMMA SlotInitHolds == SlotInit => SlotInv
<1> SUFFICES ASSUME SlotInit PROVE SlotInv OBVIOUS
<1>1. IsFiniteSet(table) /\ Cardinality(table) = 0 BY FS_EmptySet DEF SlotInit
<1>2. SlotTypeOK
  <2>1. 0 \in 0..MaxExposure BY ExposureAssumption
  <2>2. used \in [Callers -> 0..MaxExposure] BY <2>1 DEF SlotInit
  <2>3. pc \in [Callers -> {"idle", "lookup", "count", "insert", "commit", "return"}]
    BY DEF SlotInit
  <2> QED BY <2>2, <2>3 DEF SlotInit, SlotTypeOK
<1>3. SlotsDense BY <1>1, ExposureAssumption DEF SlotInit, SlotsDense
<1>4. \A c \in Callers : ProcOK(c) BY DEF SlotInit, ProcOK, Counted
<1> QED
  BY <1>1, <1>2, <1>3, <1>4, ExposureAssumption DEF SlotInit, SlotInv, AtMostMaximum, SomeoneWins

\* A step that commits nothing, and moves only c, keeps the invariant if it
\* keeps what the invariant says of c itself.
LEMMA CallerMoves ==
  ASSUME NEW c \in Callers, SlotInv, SlotTypeOK', table' = table,
         writer' = writer \/ writer \in {NoCaller, c},
         \A d \in Callers \ {c} : pc'[d] = pc[d] /\ unit'[d] = unit[d] /\ used'[d] = used[d],
         told' \subseteq {r.unit : r \in table}, refused' => table # {},
         ProcOK(c)'
  PROVE  SlotInv'
<1>1. ASSUME NEW d \in Callers \ {c} PROVE ProcOK(d)'
  <2>1. ProcOK(d) BY DEF SlotInv
  <2>2. d # NoCaller BY CallerAssumption
  <2>3. pc[d] = "commit" => writer' = d BY <2>1, <2>2 DEF ProcOK
  <2> QED BY <2>1, <2>3 DEF ProcOK, Counted, Violates, RowOf
<1> QED BY <1>1 DEF SlotInv, AtMostMaximum, SlotsDense, SomeoneWins

\* Adding a row the two constraints accept, at the count of the rows.
LEMMA RowExtends ==
  ASSUME NEW c \in Callers, SlotInv, pc[c] = "commit"
  PROVE  /\ IsFiniteSet(table \union {RowOf(c)})
         /\ Cardinality(table \union {RowOf(c)}) = Cardinality(table) + 1
         /\ Cardinality(table) + 1 <= MaxExposure
         /\ RowOf(c) \in Rows
<1>1. ProcOK(c) BY DEF SlotInv
<1>2. RowOf(c) \notin table BY <1>1 DEF ProcOK, Violates
<1>3. Cardinality(table) \in Nat BY FS_CardinalityType DEF SlotInv
<1>4. Cardinality(table) < MaxExposure BY <1>1 DEF ProcOK, Counted
<1>5. RowOf(c) \in Rows BY ExposureAssumption DEF RowOf, Rows, SlotInv, SlotTypeOK
<1> QED BY <1>2, <1>3, <1>4, <1>5, FS_AddElement, ExposureAssumption DEF SlotInv

LEMMA CommitKeeps ==
  ASSUME NEW c \in Callers, SlotInv, Commit(c)
  PROVE  SlotInv'
<1> USE DEF Commit
<1>1. IsFiniteSet(table') /\ Cardinality(table') = Cardinality(table) + 1
      /\ Cardinality(table') <= MaxExposure /\ RowOf(c) \in Rows
  BY RowExtends
<1>2. Cardinality(table) \in Nat BY FS_CardinalityType DEF SlotInv
<1>3. ProcOK(c) BY DEF SlotInv
<1>4. SlotTypeOK'
  BY <1>1 DEF SlotInv, SlotTypeOK, Goto
<1>5. AtMostMaximum' BY <1>1 DEF AtMostMaximum
<1>6. SlotsDense'
  <2>1. RowOf(c).slot = Cardinality(table) BY <1>3 DEF ProcOK, RowOf
  <2>2. {r.slot : r \in table'} = {r.slot : r \in table} \union {Cardinality(table)}
    BY <2>1
  <2>3. {i \in 0..MaxExposure : i < Cardinality(table) + 1}
          = {i \in 0..MaxExposure : i < Cardinality(table)} \union {Cardinality(table)}
    BY <1>1, <1>2, ExposureAssumption
  <2>4. \A r \in table : r.slot # RowOf(c).slot /\ r.unit # RowOf(c).unit
    BY <1>3 DEF ProcOK, Violates
  <2>5. \A r, q \in table' : r.slot = q.slot \/ r.unit = q.unit => r = q
    BY <2>4 DEF SlotInv, SlotsDense
  <2>6. {r.slot : r \in table} = {i \in 0..MaxExposure : i < Cardinality(table)}
    BY DEF SlotInv, SlotsDense
  <2>7. {r.slot : r \in table'} = {i \in 0..MaxExposure : i < Cardinality(table')}
    BY <1>1, <2>2, <2>3, <2>6
  <2> QED BY <2>5, <2>7 DEF SlotsDense
<1>7. SomeoneWins' BY DEF SomeoneWins
<1>8. told' \subseteq {r.unit : r \in table'} BY DEF SlotInv
<1>9. ASSUME NEW d \in Callers PROVE ProcOK(d)'
  <2>1. CASE d = c
    <3>1. pc'[c] = "return" BY DEF Goto, SlotInv, SlotTypeOK
    <3>2. RowOf(c).unit = unit'[c] /\ RowOf(c) \in table' BY DEF RowOf
    <3> QED BY <2>1, <3>1, <3>2 DEF ProcOK, Counted
  <2>2. CASE d # c
    <3>1. ProcOK(d) /\ pc'[d] = pc[d] BY <2>2 DEF SlotInv, Goto, SlotTypeOK
    <3>2. pc[d] # "commit" BY <1>3, <2>2, <3>1 DEF ProcOK
    <3>3. pc[d] \in Counted => used'[d] <= Cardinality(table') /\ used'[d] < MaxExposure
      <4>1. used[d] \in Nat BY ExposureAssumption DEF SlotInv, SlotTypeOK
      <4> QED BY <1>1, <1>2, <3>1, <4>1 DEF ProcOK
    <3> QED BY <3>1, <3>2, <3>3 DEF ProcOK
  <2> QED BY <2>1, <2>2
<1> QED BY <1>1, <1>4, <1>5, <1>6, <1>7, <1>8, <1>9 DEF SlotInv

\* One step per statement of reserve_sqlite.
LEMMA CallerKeeps ==
  ASSUME NEW c \in Callers, SlotInv,
         Call(c) \/ Lookup(c) \/ Count(c) \/ Insert(c) \/ Busy(c) \/ Return(c) \/ Crash(c)
  PROVE  SlotInv'
<1>1. SlotTypeOK /\ ProcOK(c) /\ IsFiniteSet(table) BY DEF SlotInv
<1>2. Cardinality(table) \in 0..MaxExposure
  BY <1>1, FS_CardinalityType, ExposureAssumption DEF SlotInv, AtMostMaximum
<1>3. told \subseteq {r.unit : r \in table} /\ (refused => table # {})
  BY DEF SlotInv, SomeoneWins
<1>4. CASE Call(c)
  <2>1. PICK u \in UnitIds : unit' = [unit EXCEPT ![c] = u] BY <1>4 DEF Call
  <2>2. pc'[c] = "lookup" BY <1>1, <1>4 DEF Call, Goto, SlotTypeOK
  <2>3. SlotTypeOK' BY <1>1, <1>4, <2>1 DEF Call, Goto, SlotTypeOK
  <2>4. ProcOK(c)' BY <2>2 DEF ProcOK, Counted
  <2> QED BY <1>1, <1>3, <1>4, <2>1, <2>3, <2>4, CallerMoves DEF Call, Goto, SlotTypeOK
<1>5. CASE Lookup(c)
  <2>1. pc'[c] \in {"idle", "count"} BY <1>1, <1>5 DEF Lookup, Goto, SlotTypeOK
  <2>2. SlotTypeOK' BY <1>1, <1>5 DEF Lookup, Goto, SlotTypeOK
  <2>3. ProcOK(c)' BY <2>1 DEF ProcOK, Counted
  <2>4. told' \subseteq {r.unit : r \in table} BY <1>3, <1>5 DEF Lookup
  <2> QED BY <1>1, <1>3, <1>5, <2>2, <2>3, <2>4, CallerMoves DEF Lookup, Goto, SlotTypeOK
<1>6. CASE Count(c)
  <2>1. used'[c] = Cardinality(table) BY <1>1, <1>6 DEF Count, SlotTypeOK
  <2>2. SlotTypeOK' BY <1>1, <1>2, <1>6 DEF Count, Goto, SlotTypeOK
  <2>3. ProcOK(c)'
    <3>1. CASE Cardinality(table) >= MaxExposure
      BY <1>1, <1>6, <3>1 DEF Count, Goto, SlotTypeOK, ProcOK, Counted
    <3>2. CASE ~ (Cardinality(table) >= MaxExposure)
      <4>1. pc'[c] = "insert" BY <1>1, <1>6, <3>2 DEF Count, Goto, SlotTypeOK
      <4>2. used'[c] <= Cardinality(table') /\ used'[c] < MaxExposure
        BY <1>2, <1>6, <2>1, <3>2, ExposureAssumption DEF Count
      <4> QED BY <4>1, <4>2 DEF ProcOK
    <3> QED BY <3>1, <3>2
  <2>4. refused' => table # {}
    <3>1. Cardinality(table) >= MaxExposure => table # {}
      <4>1. Cardinality({}) = 0 BY FS_EmptySet
      <4> QED BY <4>1, ExposureAssumption
    <3> QED BY <1>3, <1>6, <3>1 DEF Count
  <2> QED BY <1>1, <1>3, <1>6, <2>2, <2>3, <2>4, CallerMoves DEF Count, Goto, SlotTypeOK
<1>7. CASE Insert(c)
  <2>1. SlotTypeOK' BY <1>1, <1>7 DEF Insert, Goto, SlotTypeOK
  <2>2. CASE Violates(RowOf(c))
    <3>1. pc'[c] = "idle" BY <1>1, <1>7, <2>2 DEF Insert, Goto, SlotTypeOK
    <3>2. ProcOK(c)' BY <3>1 DEF ProcOK, Counted
    <3>3. table # {} BY <2>2 DEF Violates
    <3> QED BY <1>1, <1>3, <1>7, <2>1, <2>2, <3>2, <3>3, CallerMoves DEF Insert, Goto, SlotTypeOK
  <2>3. CASE ~ Violates(RowOf(c))
    <3>1. pc'[c] = "commit" /\ writer' = c /\ refused' = refused
      BY <1>1, <1>7, <2>3 DEF Insert, Goto, SlotTypeOK
    <3>2. used[c] <= Cardinality(table) /\ used[c] < MaxExposure
      BY <1>1, <1>7 DEF Insert, ProcOK, Counted
    <3>3. used[c] \notin {r.slot : r \in table} BY <2>3 DEF Violates, RowOf
    <3>4. used[c] = Cardinality(table)
      BY <1>1, <1>2, <3>2, <3>3, ExposureAssumption DEF SlotInv, SlotsDense, SlotTypeOK
    <3>5. ProcOK(c)'
      BY <1>7, <2>3, <3>1, <3>2, <3>4 DEF Insert, ProcOK, Counted, Violates, RowOf
    <3> QED BY <1>1, <1>3, <1>7, <2>1, <3>1, <3>5, CallerMoves DEF Insert, Goto, SlotTypeOK
  <2> QED BY <2>2, <2>3
<1>8. CASE Busy(c) \/ Crash(c)
  <2>1. pc'[c] = "idle" BY <1>1, <1>8 DEF Busy, Crash, Goto, SlotTypeOK
  <2>2. SlotTypeOK' BY <1>1, <1>8 DEF Busy, Crash, Goto, SlotTypeOK
  <2>3. ProcOK(c)' BY <2>1 DEF ProcOK, Counted
  <2> QED BY <1>1, <1>3, <1>8, <2>2, <2>3, CallerMoves DEF Busy, Crash, Goto, SlotTypeOK
<1>9. CASE Return(c)
  <2>1. pc'[c] = "idle" BY <1>1, <1>9 DEF Return, Goto, SlotTypeOK
  <2>2. SlotTypeOK' BY <1>1, <1>9 DEF Return, Goto, SlotTypeOK
  <2>3. ProcOK(c)' BY <2>1 DEF ProcOK, Counted
  <2>4. told' \subseteq {r.unit : r \in table}
    BY <1>1, <1>3, <1>9 DEF Return, ProcOK
  <2> QED BY <1>1, <1>3, <1>9, <2>2, <2>3, <2>4, CallerMoves DEF Return, Goto, SlotTypeOK
<1> QED BY <1>4, <1>5, <1>6, <1>7, <1>8, <1>9

\* The inductive invariant: the rows fill the first slots, and a caller that
\* waits to commit holds the write lock and the next free slot.
THEOREM SlotsReserved == SlotSpec => []SlotInv
<1>1. SlotInv /\ [SlotNext]_slotVars => SlotInv'
  <2> SUFFICES ASSUME SlotInv, [SlotNext]_slotVars PROVE SlotInv' OBVIOUS
  <2>1. ASSUME NEW c \in Callers, Commit(c) PROVE SlotInv' BY <2>1, CommitKeeps
  <2>2. CASE UNCHANGED slotVars
    BY <2>2 DEF slotVars, SlotInv, SlotTypeOK, AtMostMaximum, SlotsDense, SomeoneWins, ProcOK, Violates,
       RowOf
  <2> QED BY <2>1, <2>2, CallerKeeps DEF SlotNext
<1> QED BY <1>1, SlotInitHolds, PTL DEF SlotSpec

\* Rows, statements and counts keep their types; a count is never above the
\* maximum.
THEOREM SlotTypeCorrect == SlotSpec => []SlotTypeOK
BY SlotsReserved, PTL DEF SlotInv

\* However many callers race, for whatever units: the approved exposure is
\* not exceeded.
THEOREM ExposureHolds == SlotSpec => []AtMostMaximum
BY SlotsReserved, PTL DEF SlotInv

\* No slot and no unit is granted twice, and no slot is skipped, although each
\* caller computes its slot from a count read outside the transaction.
THEOREM DenseHolds == SlotSpec => []SlotsDense
BY SlotsReserved, PTL DEF SlotInv

\* No caller is refused before some caller has won.
THEOREM RaceHasWinner == SlotSpec => []SomeoneWins
BY SlotsReserved, PTL DEF SlotInv

-----------------------------------------------------------------------------
(* The ledger. *)

\* Every step grants one more unit, tells a granted one, or is invisible.
LEMMA StepOfSlotLedger ==
  ASSUME SlotInv, [SlotNext]_slotVars
  PROVE  [SlotLedger!LedgerNext]_(SlotLedger!ledgerVars)
<1> DEFINE granted == {r.unit : r \in table}
<1>1. ASSUME NEW c \in Callers, Commit(c) PROVE SlotLedger!Grant(unit[c])
  <2>1. ProcOK(c) /\ pc[c] = "commit" BY <1>1 DEF SlotInv, Commit
  <2>2. unit[c] \notin granted BY <2>1 DEF ProcOK, Violates, RowOf
  <2>3. granted' = granted \union {unit[c]}
    <3>1. table' = table \union {RowOf(c)} BY <1>1 DEF Commit
    <3>2. RowOf(c).unit = unit[c] BY DEF RowOf
    <3> QED BY <3>1, <3>2
  <2>4. IsFiniteSet(granted) /\ Cardinality(granted) <= Cardinality(table)
    <3> DEFINE f == [r \in table |-> r.unit]
    <3>1. f \in Surjection(table, granted)
      BY DEF Surjection
    <3> HIDE DEF f
    <3> QED BY <3>1, FS_Surjection DEF SlotInv
  <2>5. Cardinality(granted) < MaxExposure
    <3>1. Cardinality(table) + 1 <= MaxExposure BY <2>1, RowExtends
    <3>2. Cardinality(table) \in Nat BY FS_CardinalityType DEF SlotInv
    <3>3. Cardinality(granted) \in Nat BY <2>4, FS_CardinalityType
    <3> HIDE DEF granted
    <3> QED BY <2>4, <3>1, <3>2, <3>3, ExposureAssumption
  <2>6. UNCHANGED told BY <1>1 DEF Commit
  <2>7. SlotLedger!Cardinality(granted) = Cardinality(granted)
    BY DEF SlotLedger!Cardinality, Cardinality
  <2> QED BY <2>2, <2>3, <2>5, <2>6, <2>7 DEF SlotLedger!Grant
<1>2. ASSUME NEW c \in Callers, Lookup(c), told' # told PROVE SlotLedger!Tell(unit[c])
  BY <1>2 DEF SlotLedger!Tell, Lookup
<1>3. ASSUME NEW c \in Callers, Return(c) PROVE SlotLedger!Tell(unit[c])
  BY <1>3 DEF SlotLedger!Tell, Return, SlotInv, ProcOK
<1>4. ASSUME NEW c \in Callers,
             Call(c) \/ Count(c) \/ Insert(c) \/ Busy(c) \/ Crash(c)
      PROVE  UNCHANGED SlotLedger!ledgerVars
  BY <1>4 DEF SlotLedger!ledgerVars, Call, Count, Insert, Busy, Crash
<1>5. ASSUME NEW c \in Callers, Lookup(c), told' = told PROVE UNCHANGED SlotLedger!ledgerVars
  BY <1>5 DEF SlotLedger!ledgerVars, Lookup
<1>6. CASE UNCHANGED slotVars BY <1>6 DEF slotVars, SlotLedger!ledgerVars
<1>7. \A c \in Callers : unit[c] \in UnitIds BY DEF SlotInv, SlotTypeOK
<1>8. ASSUME NEW c \in Callers, SlotLedger!Grant(unit[c]) \/ SlotLedger!Tell(unit[c])
      PROVE  SlotLedger!LedgerNext
  <2>1. \E u \in UnitIds : u = unit[c] BY <1>7
  <2> QED BY <1>8, <2>1 DEF SlotLedger!LedgerNext, SlotLedger!Grant, SlotLedger!Tell
<1>9. ASSUME NEW c \in Callers, Commit(c) \/ Lookup(c) \/ Return(c)
      PROVE  SlotLedger!LedgerNext \/ UNCHANGED SlotLedger!ledgerVars
  <2>1. CASE Commit(c) BY <1>1, <1>8, <2>1
  <2>2. CASE Lookup(c) BY <1>2, <1>5, <1>8, <2>2
  <2>3. CASE Return(c) BY <1>3, <1>8, <2>3
  <2> QED BY <1>9, <2>1, <2>2, <2>3
<1> QED BY <1>4, <1>6, <1>9 DEF SlotNext

\* The table is the ledger: reading outside the transaction, busy locks and
\* crashes are invisible in it, and no step refunds a slot.
THEOREM SlotLedgerRefinement == SlotSpec => SlotsImplementLedger
<1>1. SlotInit => SlotLedger!LedgerInit BY DEF SlotInit, SlotLedger!LedgerInit
<1>2. SlotInv /\ [SlotNext]_slotVars => [SlotLedger!LedgerNext]_(SlotLedger!ledgerVars) BY StepOfSlotLedger
<1> QED BY <1>1, <1>2, SlotsReserved, PTL DEF SlotSpec, SlotsImplementLedger, SlotLedger!LedgerSpec

-----------------------------------------------------------------------------
(* SpawnActuation: the invariant of the server and its clients.            *)

Handling == {"load", "decide", "send"}

AnswerOK ==
  /\ server \in Handling => req \in Requests
  /\ server = "send" /\ answer # NoPolicy =>
       [policy |-> answer, unit |-> req.unit] \in slots

IInv == TypeOK /\ SpawnedHoldsSlot /\ AnswerOK

SlotType == [policy: Policies, unit: Units]

LEMMA InitHolds == Init => IInv
<1> SUFFICES ASSUME Init PROVE IInv OBVIOUS
<1>1. Absent \in Files BY DEF Files
<1>2. NoEdit \in [op: Commands, step: {"idle", "read", "truncate", "write"}, seen: Files]
  BY <1>1 DEF NoEdit, Commands
<1>3. TypeOK BY <1>1, <1>2, BoundsAssumption DEF Init, TypeOK
<1> QED BY <1>3 DEF Init, IInv, SpawnedHoldsSlot, AnswerOK, Handling

-----------------------------------------------------------------------------
(* Types. *)

LEMMA AbandonedType ==
  ASSUME NEW r \in Requests \union {NoRequest}, NEW c \in Clients
  PROVE  /\ Abandoned(r, c) \in Requests \union {NoRequest}
         /\ r \in Requests => Abandoned(r, c) \in Requests
         /\ Abandoned(r, c).unit = r.unit
<1>1. CASE r = NoRequest
  <2>1. r.client # c BY <1>1, NamesAssumption DEF NoRequest
  <2>2. NoRequest \notin Requests BY NamesAssumption DEF NoRequest, Requests
  <2> QED BY <1>1, <2>1, <2>2 DEF Abandoned
<1>2. CASE r \in Requests
  <2>1. [r EXCEPT !.client = NoClient] \in Requests BY <1>2 DEF Requests
  <2>2. [r EXCEPT !.client = NoClient].unit = r.unit BY <1>2 DEF Requests
  <2> QED BY <1>2, <2>1, <2>2 DEF Abandoned
<1> QED BY <1>1, <1>2

\* A record of edit after one step of its command.
LEMMA EditType ==
  ASSUME TypeOK, NEW o \in Operators
  PROVE  /\ edit[o].seen \in Files
         /\ NoEdit \in [op: Commands, step: {"idle", "read", "truncate", "write"}, seen: Files]
         /\ [edit[o] EXCEPT !.step = "truncate", !.seen = file]
              \in [op: Commands, step: {"idle", "read", "truncate", "write"}, seen: Files]
<1> DEFINE E == [op: Commands, step: {"idle", "read", "truncate", "write"}, seen: Files]
<1>1. edit[o] \in E /\ file \in Files BY DEF TypeOK
<1>2. \A e \in E, f \in Files : [e EXCEPT !.step = "truncate", !.seen = f] \in E OBVIOUS
<1>3. NoEdit \in E BY DEF NoEdit, Commands, Files
<1> QED BY <1>1, <1>2, <1>3

\* The operators' commands and the kills leave everything but their own
\* variables alone.
LEMMA OperatorKeeps ==
  ASSUME IInv, NEW o \in Operators, Operate(o) \/ KillOperator(o)
  PROVE  IInv'
<1> DEFINE E == [op: Commands, step: {"idle", "read", "truncate", "write"}, seen: Files]
<1>1. TypeOK BY DEF IInv
<1>2. edit \in [Operators -> E] /\ file \in Files BY <1>1 DEF TypeOK
<1>3. file' \in Files /\ edit' \in [Operators -> E] /\ edits' \in 0..MaxEdits
      /\ faults' \in 0..MaxFaults
  <2>1. ASSUME NEW op \in Commands, StartEdit(o, op)
        PROVE  edit' \in [Operators -> E] /\ edits' \in 0..MaxEdits
    <3>1. [op |-> op, step |-> "read", seen |-> Absent] \in E BY DEF Files
    <3>2. edits' \in 0..MaxEdits BY <1>1, <2>1, BoundsAssumption DEF StartEdit, TypeOK
    <3> QED BY <1>2, <2>1, <3>1, <3>2 DEF StartEdit
  <2>2. CASE ReadFile(o)
    BY <1>1, <1>2, <2>2, EditType DEF ReadFile, TypeOK
  <2>3. CASE Truncate(o)
    <3>1. [edit[o] EXCEPT !.step = "write"] \in E
      <4>1. \A e \in E : [e EXCEPT !.step = "write"] \in E OBVIOUS
      <4> QED BY <1>2, <4>1
    <3>2. edit' \in [Operators -> E] BY <1>2, <2>3, <3>1 DEF Truncate
    <3>3. file' \in Files BY <2>3 DEF Truncate, Files
    <3> QED BY <1>1, <2>3, <3>2, <3>3 DEF Truncate, TypeOK
  <2>4. CASE WriteFile(o)
    <3>1. PICK p \in Policies : file' = Written(file, Text(o, p)) BY <2>4 DEF WriteFile
    <3>2. edit[o].seen.policy \in Policies \union {NoPolicy}
      <4>1. \A f \in Files : f.policy \in Policies \union {NoPolicy}
        BY DEF Files, Absent, Torn
      <4> QED BY <1>1, <4>1, EditType
    <3>3. Text(o, p) \in Files BY <3>2 DEF Text, Canary, Files
    <3>4. Torn \in Files BY DEF Files
    <3>5. file' \in Files BY <3>1, <3>3, <3>4 DEF Written
    <3>6. edit' \in [Operators -> E] BY <1>1, <1>2, <2>4, EditType DEF WriteFile
    <3> QED BY <1>1, <2>4, <3>5, <3>6 DEF WriteFile, TypeOK
  <2>5. CASE KillOperator(o)
    <3>1. faults' \in 0..MaxFaults BY <1>1, <2>5, BoundsAssumption DEF KillOperator, TypeOK
    <3> QED BY <1>1, <1>2, <2>5, <3>1, EditType DEF KillOperator, TypeOK
  <2>6. ASSUME NEW op \in Commands, StartEdit(o, op)
        PROVE  file' = file /\ faults' = faults BY <2>6 DEF StartEdit
  <2> QED BY <1>1, <1>2, <2>1, <2>2, <2>3, <2>4, <2>5, <2>6 DEF Operate, TypeOK
<1>4. UNCHANGED <<queue, serverVars, call, spawned, calls>>
  BY DEF Operate, StartEdit, ReadFile, Truncate, WriteFile, KillOperator
<1> HIDE DEF E
<1>5. UNCHANGED <<queue, server, req, state, answer, slots, call, spawned, calls>>
  BY <1>4 DEF serverVars
<1>6. TypeOK' BY <1>1, <1>3, <1>5 DEF TypeOK, E
<1> QED BY <1>5, <1>6 DEF IInv, SpawnedHoldsSlot, AnswerOK

LEMMA HookCallKeeps ==
  ASSUME IInv, NEW c \in Clients, NEW u \in Units, HookCall(c, u)
  PROVE  IInv'
<1> USE DEF HookCall, opVars, serverVars
<1>1. TypeOK BY DEF IInv
<1>2. [client |-> c, unit |-> u] \in Requests BY DEF Requests
<1>3. queue' \in Seq(Requests) BY <1>1, <1>2 DEF TypeOK
<1>4. calls' \in 0..MaxCalls BY <1>1, BoundsAssumption DEF TypeOK
<1>5. call' \in [Clients -> Units \union {NoUnit}] BY <1>1 DEF TypeOK
<1>6. TypeOK' BY <1>1, <1>3, <1>4, <1>5 DEF TypeOK
<1> QED BY <1>6 DEF IInv, SpawnedHoldsSlot, AnswerOK

LEMMA GiveUpKeeps ==
  ASSUME IInv, NEW c \in Clients, GiveUp(c)
  PROVE  IInv'
<1> USE DEF GiveUp, opVars
<1>1. TypeOK /\ AnswerOK BY DEF IInv
<1>2. req \in Requests \union {NoRequest} /\ queue \in Seq(Requests) BY <1>1 DEF TypeOK
<1>3. queue' \in Seq(Requests)
  <2>1. \A i \in 1..Len(queue) : Abandoned(queue[i], c) \in Requests
    BY <1>2, AbandonedType
  <2> QED BY <1>2, <2>1
<1>4. /\ req' \in Requests \union {NoRequest} /\ req'.unit = req.unit
      /\ req \in Requests => req' \in Requests
  BY <1>2, AbandonedType
<1>5. call' \in [Clients -> Units \union {NoUnit}] BY <1>1 DEF TypeOK
<1>6. TypeOK' BY <1>1, <1>3, <1>4, <1>5 DEF TypeOK
<1>7. AnswerOK' BY <1>1, <1>4 DEF AnswerOK
<1> QED BY <1>6, <1>7 DEF IInv, SpawnedHoldsSlot

\* Reserving for a policy without a holder keeps one slot per policy.
LEMMA ReservedOK ==
  ASSUME NEW p \in Policies, NEW u \in Units, slots \subseteq SlotType,
         \A s, t \in slots : s.policy = t.policy => s = t
  PROVE  /\ Reserved(p, u) \subseteq SlotType /\ slots \subseteq Reserved(p, u)
         /\ \A s, t \in Reserved(p, u) : s.policy = t.policy => s = t
<1>1. CASE Holders(p) = {}
  <2>1. \A s \in slots : s.policy # p BY <1>1 DEF Holders
  <2>2. [policy |-> p, unit |-> u] \in SlotType BY DEF SlotType
  <2>3. Reserved(p, u) = slots \union {[policy |-> p, unit |-> u]} BY <1>1 DEF Reserved
  <2> QED BY <2>1, <2>2, <2>3
<1>2. CASE Holders(p) # {} BY <1>2 DEF Reserved
<1> QED BY <1>1, <1>2

\* What Decide leaves behind: the table grows at most, by one holder of a
\* policy without any; a candidate answer is for a unit that holds a slot.
LEMMA DecideOK ==
  ASSUME IInv, Decide
  PROVE  /\ slots \subseteq slots' /\ slots' \subseteq SlotType
         /\ \A s, t \in slots' : s.policy = t.policy => s = t
         /\ answer' \in Policies \union {NoPolicy}
         /\ server' \in {"send", "down"}
         /\ server' = "send" /\ answer' # NoPolicy =>
              [policy |-> answer', unit |-> req.unit] \in slots'
         /\ \/ slots' = slots
            \/ /\ state.policy \in Policies /\ req.unit \in Units
               /\ Holders(state.policy) = {}
               /\ slots' = slots \union {[policy |-> state.policy, unit |-> req.unit]}
<1>1. slots \subseteq SlotType /\ answer \in Policies \union {NoPolicy} /\ state \in Files
  BY DEF IInv, TypeOK, SlotType
<1>2. \A s, t \in slots : s.policy = t.policy => s = t BY DEF IInv, SpawnedHoldsSlot
<1>3. CASE state.mode # "CANARY" BY <1>1, <1>2, <1>3 DEF Decide
<1>4. CASE state.mode = "CANARY" /\ ReservePath = "str"
  BY <1>1, <1>2, <1>4 DEF Decide
<1>5. CASE state.mode = "CANARY" /\ ReservePath # "str"
  <2>1. state.policy \in Policies BY <1>1, <1>5 DEF Files, Absent, Torn
  <2>2. req.unit \in Units BY DEF IInv, AnswerOK, Handling, Decide, Requests
  <2>3. slots' = Reserved(state.policy, req.unit) /\ server' = "send"
        /\ answer' = IF [policy |-> state.policy, unit |-> req.unit] \in slots'
                       THEN state.policy ELSE NoPolicy
    BY <1>5 DEF Decide
  <2>4. /\ slots' \subseteq SlotType /\ slots \subseteq slots'
        /\ \A s, t \in slots' : s.policy = t.policy => s = t
    BY <1>1, <1>2, <2>1, <2>2, <2>3, ReservedOK
  <2>5. CASE Holders(state.policy) = {}
    BY <2>1, <2>2, <2>3, <2>4, <2>5 DEF Reserved
  <2>6. CASE Holders(state.policy) # {}
    BY <2>1, <2>3, <2>4, <2>6 DEF Reserved
  <2> QED BY <2>5, <2>6
<1> QED BY <1>3, <1>4, <1>5

LEMMA ServeKeeps ==
  ASSUME IInv, Serve \/ DecideLate \/ KillServer
  PROVE  IInv'
<1> USE DEF opVars
<1>1. TypeOK /\ AnswerOK /\ SpawnedHoldsSlot BY DEF IInv
<1>2. CASE Accept
  <2>1. Head(queue) \in Requests /\ Tail(queue) \in Seq(Requests)
    BY <1>1, <1>2 DEF Accept, TypeOK
  <2>2. TypeOK' BY <1>1, <1>2, <2>1 DEF Accept, TypeOK
  <2>3. AnswerOK' BY <1>2, <2>1 DEF Accept, AnswerOK
  <2> QED BY <1>1, <1>2, <2>2, <2>3 DEF Accept, IInv, SpawnedHoldsSlot
<1>3. CASE LoadState
  <2>1. TypeOK' BY <1>1, <1>3 DEF LoadState, TypeOK
  <2>2. AnswerOK' BY <1>1, <1>3 DEF LoadState, AnswerOK, Handling
  <2> QED BY <1>1, <1>3, <2>1, <2>2 DEF LoadState, IInv, SpawnedHoldsSlot
<1>4. CASE Decide
  <2>1. UNCHANGED <<file, edit, edits, queue, req, state, call, spawned, calls, faults>>
    BY <1>4 DEF Decide
  <2>2. TypeOK' BY <1>1, <1>4, <2>1, DecideOK DEF TypeOK, SlotType
  <2>3. req \in Requests BY <1>1, <1>4 DEF Decide, AnswerOK, Handling
  <2>4. AnswerOK' BY <1>4, <2>1, <2>3, DecideOK DEF AnswerOK
  <2>5. SpawnedHoldsSlot' BY <1>1, <1>4, <2>1, DecideOK DEF SpawnedHoldsSlot
  <2> QED BY <2>2, <2>4, <2>5 DEF IInv
<1>5. CASE DecideLate
  <2>1. faults' \in 0..MaxFaults BY <1>1, <1>5, BoundsAssumption DEF DecideLate, TypeOK
  <2>2. TypeOK' BY <1>1, <1>5, <2>1 DEF DecideLate, TypeOK
  <2>3. AnswerOK' BY <1>1, <1>5 DEF DecideLate, AnswerOK, Handling
  <2> QED BY <1>1, <1>5, <2>2, <2>3 DEF DecideLate, IInv, SpawnedHoldsSlot
<1>6. CASE Send
  <2>1. req \in Requests BY <1>1, <1>6 DEF Send, AnswerOK, Handling
  <2>2. answer # NoPolicy => [policy |-> answer, unit |-> req.unit] \in slots
    BY <1>1, <1>6 DEF Send, AnswerOK
  <2>3. spawned' \subseteq slots BY <1>1, <1>6, <2>2 DEF Send, SpawnedHoldsSlot
  <2>4. call' \in [Clients -> Units \union {NoUnit}] BY <1>1, <1>6 DEF Send, TypeOK
  <2>5. TypeOK' BY <1>1, <1>6, <2>3, <2>4 DEF Send, TypeOK
  <2>6. AnswerOK' BY <1>6 DEF Send, AnswerOK, Handling
  <2> QED BY <1>1, <1>6, <2>3, <2>5, <2>6 DEF Send, IInv, SpawnedHoldsSlot
<1>7. CASE KillServer
  <2>1. faults' \in 0..MaxFaults BY <1>1, <1>7, BoundsAssumption DEF KillServer, TypeOK
  <2>2. TypeOK' BY <1>1, <1>7, <2>1 DEF KillServer, TypeOK
  <2>3. AnswerOK' BY <1>7 DEF KillServer, AnswerOK, Handling
  <2> QED BY <1>1, <1>7, <2>2, <2>3 DEF KillServer, IInv, SpawnedHoldsSlot
<1>8. CASE Restart
  <2>1. Absent \in Files BY DEF Files
  <2>2. TypeOK' BY <1>1, <1>8, <2>1 DEF Restart, TypeOK
  <2>3. AnswerOK' BY <1>8 DEF Restart, AnswerOK, Handling
  <2> QED BY <1>1, <1>8, <2>2, <2>3 DEF Restart, IInv, SpawnedHoldsSlot
<1> QED BY <1>2, <1>3, <1>4, <1>5, <1>6, <1>7, <1>8 DEF Serve

\* The inductive invariant.
THEOREM Actuation == Spec => []IInv
<1>1. IInv /\ [Next]_vars => IInv'
  <2> SUFFICES ASSUME IInv, [Next]_vars PROVE IInv' OBVIOUS
  <2>1. CASE UNCHANGED vars
    BY <2>1 DEF vars, opVars, serverVars, IInv, TypeOK, SpawnedHoldsSlot, AnswerOK
  <2> QED BY <2>1, OperatorKeeps, HookCallKeeps, GiveUpKeeps, ServeKeeps DEF Next
<1> QED BY <1>1, InitHolds, PTL DEF Spec

\* Files, requests, answers, slots and calls keep their types.
THEOREM TypeCorrect == Spec => []TypeOK
BY Actuation, PTL DEF IInv

\* A task runs with a candidate configuration only if it holds the one slot of
\* that policy, for any number of workers, operators, timeouts and kills.
THEOREM SlotBeforeSpawn == Spec => []SpawnedHoldsSlot
BY Actuation, PTL DEF IInv

-----------------------------------------------------------------------------
(* The ledger of any one policy. *)

LEMMA StepOfLedger ==
  ASSUME IInv, [Next]_vars
  PROVE  [Ledger!LedgerNext]_(Ledger!ledgerVars)
<1> DEFINE toldNow == {s.unit : s \in {t \in spawned : t.policy = AnyPolicy}}
<1>1. CASE Decide
  <2>1. UNCHANGED spawned BY <1>1 DEF Decide
  <2>2. CASE slots' = slots BY <2>1, <2>2 DEF Ledger!ledgerVars, Holders
  <2>3. CASE /\ state.policy \in Policies /\ req.unit \in Units
             /\ Holders(state.policy) = {}
             /\ slots' = slots \union {[policy |-> state.policy, unit |-> req.unit]}
    <3>1. CASE state.policy # AnyPolicy
      <4>1. Holders(AnyPolicy)' = Holders(AnyPolicy) BY <2>3, <3>1 DEF Holders
      <4> QED BY <2>1, <4>1 DEF Ledger!ledgerVars
    <3>2. CASE state.policy = AnyPolicy
      <4>1. Holders(AnyPolicy)' = {req.unit}
        <5> DEFINE row == [policy |-> AnyPolicy, unit |-> req.unit]
        <5>1. \A t \in slots : t.policy # AnyPolicy BY <2>3, <3>2 DEF Holders
        <5>2. {t \in slots' : t.policy = AnyPolicy} = {row} BY <2>3, <3>2, <5>1
        <5>3. row.unit = req.unit OBVIOUS
        <5> HIDE DEF row
        <5> QED BY <5>2, <5>3 DEF Holders
      <4>2. Holders(AnyPolicy) = {} BY <2>3, <3>2
      <4>3. Ledger!Cardinality({}) = 0
        <5>1. Ledger!Cardinality({}) = Cardinality({})
          BY DEF Ledger!Cardinality, Cardinality
        <5> QED BY <5>1, FS_EmptySet
      <4>4. Ledger!Cardinality(Holders(AnyPolicy)) < 1 BY <4>2, <4>3
      <4>5. \E u \in Units : u = req.unit BY <2>3
      <4> QED BY <2>1, <4>1, <4>2, <4>4, <4>5 DEF Ledger!LedgerNext, Ledger!Grant
    <3> QED BY <3>1, <3>2
  <2> QED BY <1>1, <2>2, <2>3, DecideOK
<1>2. CASE Send
  <2>1. UNCHANGED slots BY <1>2 DEF Send
  <2>2. CASE spawned' = spawned BY <2>1, <2>2 DEF Ledger!ledgerVars, Holders
  <2>3. CASE spawned' # spawned
    <3>1. /\ answer # NoPolicy
          /\ spawned' = spawned \union {[policy |-> answer, unit |-> req.unit]}
      BY <1>2, <2>3 DEF Send
    <3>2. [policy |-> answer, unit |-> req.unit] \in slots
      BY <1>2, <3>1 DEF Send, IInv, AnswerOK
    <3>3. CASE answer # AnyPolicy
      <4>1. toldNow' = toldNow BY <3>1, <3>3
      <4> QED BY <2>1, <4>1 DEF Ledger!ledgerVars, Holders
    <3>4. CASE answer = AnyPolicy
      <4>1. toldNow' = toldNow \union {req.unit}
        <5> DEFINE row == [policy |-> AnyPolicy, unit |-> req.unit]
        <5>1. {t \in spawned' : t.policy = AnyPolicy}
                = {t \in spawned : t.policy = AnyPolicy} \union {row}
          BY <3>1, <3>4
        <5>2. row.unit = req.unit OBVIOUS
        <5> HIDE DEF row
        <5> QED BY <5>1, <5>2
      <4>2. req.unit \in Holders(AnyPolicy) BY <3>2, <3>4 DEF Holders
      <4>3. \E u \in Units : u = req.unit
        BY <3>2 DEF IInv, TypeOK
      <4>4. UNCHANGED Holders(AnyPolicy) BY <2>1 DEF Holders
      <4> QED BY <4>1, <4>2, <4>3, <4>4 DEF Ledger!LedgerNext, Ledger!Tell
    <3> QED BY <3>3, <3>4
  <2> QED BY <2>2, <2>3
<1>3. ASSUME UNCHANGED <<slots, spawned>> PROVE UNCHANGED Ledger!ledgerVars
  BY <1>3 DEF Ledger!ledgerVars, Holders
<1>4. CASE ~ (Decide \/ Send)
  BY <1>3, <1>4 DEF Next, vars, opVars, serverVars, Operate, StartEdit, ReadFile, Truncate,
     WriteFile, KillOperator, HookCall, GiveUp, Serve, Accept, LoadState, DecideLate,
     KillServer, Restart
<1> QED BY <1>1, <1>2, <1>4

\* For any policy: the actuator grants at most one slot, never takes it back,
\* and starts a candidate only for the unit that holds it.
THEOREM LedgerRefinement == Spec => ImplementsLedger
<1>1. Init => Ledger!LedgerInit BY DEF Init, Ledger!LedgerInit, Holders
<1>2. IInv /\ [Next]_vars => [Ledger!LedgerNext]_(Ledger!ledgerVars) BY StepOfLedger
<1> QED BY <1>1, <1>2, Actuation, PTL DEF Spec, ImplementsLedger, Ledger!LedgerSpec
=============================================================================
