------------------------ MODULE MCExperimentLifecycle ------------------------
(* Pairs of units for TLC. *)
EXTENDS ExperimentLifecycle

TwoPairs == {{1, 2}, {3, 4}}
OnePair == {{1, 2}}
=============================================================================
