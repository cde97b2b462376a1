---------------------------- MODULE PolicyPointer ----------------------------
(***************************************************************************)
(* What the control plane promises of the binding key "default": one       *)
(* versioned pointer to a policy that only ever moves forward, one version *)
(* at a time, and a global kill switch that is never cleared.  Nothing     *)
(* here knows of advisory locks, transactions, crashes or the cache file:  *)
(* AdaptationControl implements this module.                               *)
(***************************************************************************)
EXTENDS Naturals

CONSTANTS
  Policies,   \* compiled policy bundles an operator can name
  NoPolicy    \* "no policy": the pointer of an empty bindings table

VARIABLES
  pointer,    \* [version, policy, mode]: the current binding
  killed      \* the kill-switch row

ptrVars == <<pointer, killed>>

ActiveModes == {"SHADOW", "CANARY"}
Modes == ActiveModes \union {"DISABLED", "BASELINE"}

PtrInit ==
  /\ pointer = [version |-> 0, policy |-> NoPolicy, mode |-> "BASELINE"]
  /\ killed = FALSE

\* The pointers one version on.
Moved(policies, modes) ==
  [version : {pointer.version + 1}, policy : policies, mode : modes]

\* An operator activates a policy, in shadow or as a canary.
Activate ==
  /\ pointer' \in Moved(Policies, ActiveModes)
  /\ UNCHANGED killed

\* An operator, or a failed guardrail, disables whatever is active.
Disable ==
  /\ pointer' \in Moved(Policies \union {NoPolicy}, {"DISABLED"})
  /\ UNCHANGED killed

\* disable-all: the kill switch, and with it the pointer when it is active.
Engage ==
  /\ killed' = TRUE
  /\ IF pointer.mode \in ActiveModes
       THEN pointer' \in Moved({pointer.policy}, {"DISABLED"})
       ELSE UNCHANGED pointer

PtrNext == Activate \/ Disable \/ Engage

PtrSpec == PtrInit /\ [][PtrNext]_ptrVars
=============================================================================
