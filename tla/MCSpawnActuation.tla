-------------------------- MODULE MCSpawnActuation --------------------------
(* Model-checking instances of SpawnActuation. *)
EXTENDS SpawnActuation
=============================================================================
