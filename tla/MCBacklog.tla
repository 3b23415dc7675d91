----------------------------- MODULE MCBacklog -----------------------------
(* Module Backlog on small instances. *)
EXTENDS Backlog

MCTwoSessions == 1..2
MCCeiling == {1}
MCObserved == {Spent(1)}

\* Bounds: how many runs there are in all.
Runs == SumOver([t \in DOMAIN tasks |-> tasks[t].attempts], DOMAIN tasks)
TwoRuns == Runs <= 2

\* Two runs while there were never more than two tasks, and one from there on.
FewRuns == Runs <= IF next_id <= 3 THEN 2 ELSE 1
============================================================================
