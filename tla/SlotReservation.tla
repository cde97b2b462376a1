--------------------------- MODULE SlotReservation ---------------------------
(***************************************************************************)
(* reserve_sqlite (engineering_os/adaptation/reserve.py): concurrent       *)
(* callers reserve candidate slots of one policy and approval in an SQLite *)
(* table.  The two SELECTs run outside any transaction; only the INSERT    *)
(* begins one (isolation_level="IMMEDIATE"), so what a caller counted may  *)
(* be stale when it inserts, and the primary key and the unique index are  *)
(* what keeps two callers apart.                                           *)
(***************************************************************************)
EXTENDS Naturals, FiniteSets

CONSTANTS
  Callers,      \* threads or processes calling reserve_sqlite
  NoCaller,     \* nobody holds SQLite's write lock
  UnitIds,      \* unit_id values
  MaxExposure   \* maximum_exposure

ASSUME CallerAssumption == NoCaller \notin Callers
ASSUME ExposureAssumption == MaxExposure \in Nat \ {0}

VARIABLES
  table,    \* committed rows of reservations: [slot, unit]
  writer,   \* the caller inside BEGIN IMMEDIATE .. COMMIT
  pc,       \* pc[c]: the statement caller c executes next
  unit,     \* unit[c]: the unit c reserves for
  used,     \* used[c]: the row count c has read, its slot_index
  told,     \* history: units some caller was told hold a slot
  refused   \* history: some caller was told EXPOSURE_EXHAUSTED

slotVars == <<table, writer, pc, unit, used, told, refused>>

Rows == [slot: Nat, unit: UnitIds]
RowOf(c) == [slot |-> used[c], unit |-> unit[c]]

SlotInit ==
  /\ table = {} /\ writer = NoCaller
  /\ pc = [c \in Callers |-> "idle"]
  /\ unit \in [Callers -> UnitIds]
  /\ used = [c \in Callers |-> 0]
  /\ told = {} /\ refused = FALSE

Goto(c, statement) == pc' = [pc EXCEPT ![c] = statement]

Call(c) ==
  /\ pc[c] = "idle"
  /\ \E u \in UnitIds : unit' = [unit EXCEPT ![c] = u]
  /\ Goto(c, "lookup")
  /\ UNCHANGED <<table, writer, used, told, refused>>

\* A unit that already has a slot is told so again.
Lookup(c) ==
  /\ pc[c] = "lookup"
  /\ IF \E r \in table : r.unit = unit[c]
       THEN Goto(c, "idle") /\ told' = told \union {unit[c]}
       ELSE Goto(c, "count") /\ UNCHANGED told
  /\ UNCHANGED <<table, writer, unit, used, refused>>

Count(c) ==
  /\ pc[c] = "count"
  /\ used' = [used EXCEPT ![c] = Cardinality(table)]
  /\ IF Cardinality(table) >= MaxExposure
       THEN Goto(c, "idle") /\ refused' = TRUE
       ELSE Goto(c, "insert") /\ UNCHANGED refused
  /\ UNCHANGED <<table, writer, unit, told>>

\* Mutant of Violates: no unique index on the unit.
ViolatesKey(row) == \E r \in table : r.slot = row.slot

\* The primary key (slot_index) and the unique index (unit_id).
Violates(row) == \E r \in table : r.slot = row.slot \/ r.unit = row.unit

\* BEGIN IMMEDIATE and the INSERT; an IntegrityError rolls back and answers
\* EXPOSURE_EXHAUSTED, whatever the exposure left.
Insert(c) ==
  /\ pc[c] = "insert" /\ writer = NoCaller
  /\ IF Violates(RowOf(c))
       THEN Goto(c, "idle") /\ refused' = TRUE /\ UNCHANGED writer
       ELSE Goto(c, "commit") /\ writer' = c /\ UNCHANGED refused
  /\ UNCHANGED <<table, unit, used, told>>

\* Mutant of Busy: waiting for the write lock is answered like a conflict.
BusyIsExhausted(c) ==
  /\ pc[c] = "insert" /\ writer # NoCaller
  /\ Goto(c, "idle") /\ refused' = TRUE
  /\ UNCHANGED <<table, writer, unit, used, told>>

\* Five seconds behind another writer: OperationalError, no answer at all.
Busy(c) ==
  /\ pc[c] = "insert" /\ writer # NoCaller
  /\ Goto(c, "idle")
  /\ UNCHANGED <<table, writer, unit, used, told, refused>>

\* Mutant of Commit: the row is lost, the caller goes on as if it were there.
CommitNothing(c) ==
  /\ pc[c] = "commit"
  /\ writer' = NoCaller
  /\ Goto(c, "return")
  /\ UNCHANGED <<table, unit, used, told, refused>>

Commit(c) ==
  /\ pc[c] = "commit"
  /\ table' = table \union {RowOf(c)}
  /\ writer' = NoCaller
  /\ Goto(c, "return")
  /\ UNCHANGED <<unit, used, told, refused>>

Return(c) ==
  /\ pc[c] = "return"
  /\ told' = told \union {unit[c]}
  /\ Goto(c, "idle")
  /\ UNCHANGED <<table, writer, unit, used, refused>>

\* A caller dies: SQLite rolls its transaction back, a committed row stays.
Crash(c) ==
  /\ pc[c] # "idle"
  /\ Goto(c, "idle")
  /\ writer' = IF writer = c THEN NoCaller ELSE writer
  /\ UNCHANGED <<table, unit, used, told, refused>>

SlotNext ==
  \E c \in Callers :
    \/ Call(c) \/ Lookup(c) \/ Count(c) \/ Insert(c) \/ Busy(c)
    \/ Commit(c) \/ Return(c) \/ Crash(c)

SlotSpec == SlotInit /\ [][SlotNext]_slotVars

-----------------------------------------------------------------------------
(* Properties. *)

SlotTypeOK ==
  /\ table \subseteq Rows /\ writer \in Callers \union {NoCaller}
  /\ pc \in [Callers -> {"idle", "lookup", "count", "insert", "commit", "return"}]
  /\ unit \in [Callers -> UnitIds] /\ used \in [Callers -> 0..MaxExposure]
  /\ told \subseteq UnitIds /\ refused \in BOOLEAN

\* However many callers race on a stale count, the exposure is not exceeded.
AtMostMaximum == Cardinality(table) <= MaxExposure

\* The slots taken are always the first ones, each unit holds one of them,
\* so the row count is the next free slot.
SlotsDense ==
  /\ {r.slot : r \in table} = {i \in 0..MaxExposure : i < Cardinality(table)}
  /\ \A r, q \in table : r.slot = q.slot \/ r.unit = q.unit => r = q

\* A race never refuses everyone: who is told that the exposure is exhausted
\* has lost against a committed slot.
SomeoneWins == refused => table # {}

\* The table implements the ledger of granted and told units.
SlotLedger == INSTANCE ExposureLedger WITH
  Units <- UnitIds,
  granted <- {r.unit : r \in table}
SlotsImplementLedger == SlotLedger!LedgerSpec
=============================================================================
