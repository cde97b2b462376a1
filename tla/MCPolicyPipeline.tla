-------------------------- MODULE MCPolicyPipeline --------------------------
(* A model-checking instance of PolicyPipeline: two experiments, and the    *)
(* policy files that differ in what compiling and approving look at: `open` *)
(* names no experiment, `other` has a treatment neither experiment tested.  *)
EXTENDS PolicyPipeline

CONSTANTS e1, e2, none, o1, o2, open, shadow, actuating, unsound, other

File1 == [id |-> open, experiment |-> none, treatment |-> "MODEL",
          scope |-> "FIXTURE", outcome |-> "FAIL", sound |-> TRUE]
MCPolicies ==
  { File1,
    [File1 EXCEPT !.id = shadow, !.experiment = e1, !.scope = "PRODUCTION_SHADOW",
                  !.outcome = "PASS"],
    [File1 EXCEPT !.id = actuating, !.scope = "PRODUCTION_CANARY"],
    [File1 EXCEPT !.id = unsound, !.sound = FALSE],
    [File1 EXCEPT !.id = other, !.treatment = "SKILL"] }
MCMaxProtocols == [e \in {e1, e2} |-> IF e = e1 THEN 2 ELSE 1]
MCScope == [e \in {e1, e2} |-> IF e = e1 THEN "BENCHMARK" ELSE "FIXTURE"]
MCTreatment == [e \in {e1, e2} |-> "MODEL"]
MCOutcomes ==
  { <<"EVIDENCE_FOR_CANDIDATE", "production">>, <<"INVALIDATED", "missing">> }
=============================================================================
