---------------------------- MODULE OutcomeTable ----------------------------
(***************************************************************************)
(* What analytics promises the layers above it: a table with one row per   *)
(* task that follows the task and never goes back.  A task is a growing    *)
(* number, the length of its event log; a row is the number its outcome    *)
(* was derived from, 0 while there is none.  A row is replaced in one      *)
(* commit, by an outcome of the task as it was at some moment since the    *)
(* last replacement.                                                       *)
(*                                                                         *)
(* AnalyticsMaterializer implements it; EvaluationRuns and                 *)
(* PerformanceSnapshot are built on it.                                    *)
(***************************************************************************)
EXTENDS Naturals

CONSTANT Tasks

VARIABLES
    task,       \* [Tasks -> Nat]: events in the log of the task
    table       \* [Tasks -> Nat]: events the current row was derived from

tableVars == <<task, table>>

TableTypeOK ==
    /\ task \in [Tasks -> Nat]
    /\ table \in [Tasks -> Nat]

TableInit ==
    /\ task \in [Tasks -> Nat]
    /\ table = [t \in Tasks |-> 0]

\* The task moves on.
TaskChanges(t) ==
    /\ task' = [task EXCEPT ![t] = @ + 1]
    /\ UNCHANGED table

\* A pass commits an outcome of the task.
Publish(t) ==
    \E n \in table[t]..task[t] :
        /\ table' = [table EXCEPT ![t] = n]
        /\ UNCHANGED task

TableNext == \E t \in Tasks : TaskChanges(t) \/ Publish(t)

TableSpec == TableInit /\ [][TableNext]_tableVars
=============================================================================
