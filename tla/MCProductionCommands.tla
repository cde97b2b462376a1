------------------------ MODULE MCProductionCommands ------------------------
(* A model-checking instance of ProductionCommands: two pairs of units, so   *)
(* that the lead can be had although the last unit never ran, worlds in      *)
(* which H1 is not passed yet, and a grant that is valid or has expired.     *)
EXTENDS ProductionCommands

CONSTANTS old, new, r1, o1, o2, t1

MCPlanned == [v \in Versions |-> 2]
MCOrderBit == <<1, 0>>
MCHandWritten == {[units |-> 2, calls |-> 1]}

Grant(identity) ==
  [writable |-> FALSE, stage |-> "A", exposure |-> 1, identity |-> identity, signature |-> "valid"]
MCGrants == {Grant(new), [Grant(new) EXCEPT !.signature = "expired"]}

World == [h1 |-> TRUE, h3 |-> TRUE, grant |-> Grant(new), live |-> new, trusted |-> TRUE]
MCOpenWorld == {World}
MCWorlds == {[World EXCEPT !.h1 = FALSE, !.grant = g] : g \in MCGrants}

\* Scripts run bind and rollback as hermes-op, the others as the runtime's user.
MCKinds == [o \in Operators |-> IF o = o1 THEN {"bind", "rollback"} ELSE {"canary", "shadow"}]

\* Enough for a rollback to follow a bind.
MCCommands == [o \in Operators |-> IF o = o1 THEN 2 ELSE 1]
=============================================================================
