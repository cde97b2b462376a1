------------------------- MODULE MCSlotReservation -------------------------
(* Model-checking instances of SlotReservation. *)
EXTENDS SlotReservation
=============================================================================
