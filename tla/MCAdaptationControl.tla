------------------------- MODULE MCAdaptationControl -------------------------
(* Model-checking instances of AdaptationControl: the constants are model   *)
(* values and small sets, given in the configurations.                      *)
EXTENDS AdaptationControl
=============================================================================
