---------------------- MODULE MCAnalyticsMaterializer ----------------------
(***************************************************************************)
(* AnalyticsMaterializer for TLC: the timer and an operator's session, and *)
(* worlds that spend the same small budget on different things.            *)
(***************************************************************************)
EXTENDS AnalyticsMaterializer

CONSTANTS t1, t2, t3, timer, cli

MCLife(n, m) == [t \in Tasks |-> IF t = t1 THEN n ELSE m]

MCPasses(n) == [s \in Sessions |-> IF s = timer THEN 1 ELSE n]

Ending(outcome, objective, seconds) ==
    [outcome |-> outcome, objective |-> objective, seconds |-> seconds]

Completed == Ending("completed", None, 1)

Answers(phoenix, git, github) == [phoenix |-> phoenix, git |-> git, github |-> github]

\* The smallest world: a task that is started and completed under the timer.
Quiet ==
    [found |-> [t \in Tasks |-> NewTask], second |-> 1,
     board |-> {t1}, life |-> MCLife(2, 0), endings |-> {Completed}, flips |-> 0,
     answers |-> Answers({"up"}, {"up"}, {"up"}), passes |-> MCPasses(0),
     faults |-> 0, recompute |-> FALSE]

\* A task that crashed before and is tried again.
CrashedTask ==
    [status |-> "ready", completed |-> None,
     runs |-> {[id |-> 1, started |-> 1, ended |-> 2, status |-> "crashed",
                outcome |-> "crashed", pid |-> FALSE, objective |-> None]},
     events |-> <<Event("created", None, ""), Event("spawned", 1, ""),
                  Event("crashed", 1, "")>>]

Retries ==
    [Quiet EXCEPT !.found = [t \in Tasks |-> CrashedTask], !.second = 3,
                  !.endings = {Ending("completed", "PASS", 1), Ending("crashed", None, 1),
                               Ending("completed", None, 0)}]

\* A task that is blocked, or crashes within a second, or is found wrong.
Verdicts ==
    [Quiet EXCEPT !.life = MCLife(3, 0),
                  !.endings = {Ending("completed", "FAIL", 1), Ending("blocked", None, 1),
                               Ending("crashed", None, 0)}]

\* Phoenix fails or answers in part and comes back.
PhoenixOutage ==
    [Quiet EXCEPT !.flips = 2,
                  !.answers = Answers({"up", "window", "down"}, {"up"}, {"up"})]

\* So do git and GitHub.
GitOutage ==
    [Quiet EXCEPT !.life = MCLife(1, 0), !.flips = 2,
                  !.answers = Answers({"up"}, {"up", "down"}, {"up", "noauth", "down"})]

\* The timer and an operator who may recompute, with a failure or a crash.
TwoSessions ==
    [Quiet EXCEPT !.passes = MCPasses(1), !.faults = 1, !.recompute = TRUE]

\* Two tasks in one pass, one of which may fail.
TwoTasks == [Quiet EXCEPT !.board = {t1, t2}, !.life = MCLife(1, 0), !.faults = 1]

MCWorlds == {Retries, Verdicts, PhoenixOutage, GitOutage, TwoSessions, TwoTasks}

MCOutageWorld == {PhoenixOutage}

\* FirstPassSettles is proved for worlds like these.
ASSUME WorldsFit == RunsFit
=============================================================================
