--------------------------- MODULE ExposureLedger ---------------------------
(***************************************************************************)
(* What the reservation of candidate slots promises for one policy and one *)
(* approval: units are granted a slot one at a time, never more than the   *)
(* approved exposure, nothing is ever refunded, and only a granted unit is *)
(* told so.  SlotReservation implements this with a table and concurrent   *)
(* callers, SpawnActuation with a server, its clients and their timeouts.  *)
(***************************************************************************)
EXTENDS Naturals, FiniteSets

CONSTANTS
  Units,        \* tasks that may ask for a slot
  MaxExposure   \* maximum_exposure of the approval

VARIABLES
  granted,      \* units that hold a slot
  told          \* units whose caller has been told so

ledgerVars == <<granted, told>>

LedgerInit == granted = {} /\ told = {}

Grant(u) ==
  /\ u \notin granted
  /\ Cardinality(granted) < MaxExposure
  /\ granted' = granted \union {u}
  /\ UNCHANGED told

Tell(u) ==
  /\ u \in granted
  /\ told' = told \union {u}
  /\ UNCHANGED granted

LedgerNext == \E u \in Units : Grant(u) \/ Tell(u)

LedgerSpec == LedgerInit /\ [][LedgerNext]_ledgerVars
=============================================================================
