------------------------------- MODULE Tasks -------------------------------
(***************************************************************************)
(* The backlog as a value: what a task holds, and what each operation of   *)
(* `Backlog` makes of one (crates/cisternd/src/core/domain/task.rs).  No   *)
(* variable is declared here.  Module Backlog runs these operations on a   *)
(* store of their own; module Daemon runs them under the backlog store's   *)
(* lock, between the steps of the threads that call them.                  *)
(*                                                                         *)
(* A backlog is a function from the numbers of the tasks registered to the *)
(* tasks.  The code keeps a vector, pushed at the end and never reordered, *)
(* so the order of registration is the order of the numbers.               *)
(*                                                                         *)
(* Left out of a task: its title, instruction, named branch, model,        *)
(* repository, times and reason, on which no operation here turns.         *)
(***************************************************************************)
EXTENDS Naturals, FiniteSets

\* No number is nought, neither a task's nor a session's: both stores start at one.
NoTask == 0
NoSession == 0
NoCeiling == 0

TaskId == Nat \ {NoTask}
SessionId == Nat \ {NoSession}

TaskState == {"Pending", "Running", "Completed", "Interrupted", "Error"}
Ended == {"Completed", "Interrupted", "Error"}
Disposition == {"None", "Applied", "Discarded"}

\* What is known of what running a task consumed.  A count that could not be
\* read is not a count of nothing.
NotYet == [kind |-> "NotYet", tokens |-> 0]
Unreadable == [kind |-> "Unreadable", tokens |-> 0]
Spent(n) == [kind |-> "Spent", tokens |-> n]
Observation == [kind : {"NotYet", "Unreadable", "Spent"}, tokens : Nat]

Task == [after : Nat,               \* the task it waits for, or NoTask
         state : TaskState,
         session : Nat,             \* the session that last took it, or NoSession
         ceiling : Nat,             \* what its run may take, or NoCeiling
         attempts : Nat,            \* how many times it was assigned
         consumed : Observation,
         worktree : BOOLEAN,        \* whether a work area is written down for it
         conversation : BOOLEAN,    \* whether a conversation is kept for it
         disposition : Disposition]

----------------------------------------------------------------------------
(* One task. *)

Registered(after) ==
    [after |-> after, state |-> "Pending", session |-> NoSession,
     ceiling |-> NoCeiling, attempts |-> 0, consumed |-> NotYet,
     worktree |-> FALSE, conversation |-> FALSE, disposition |-> "None"]

\* `assign`.  What the last run consumed and what was decided about it stay.
Assigned(k, s, ceiling) ==
    [k EXCEPT !.state = "Running", !.session = s, !.ceiling = ceiling,
              !.attempts = @ + 1]

\* `finish`: the first answer is the true one.
Finished(k, end) ==
    IF k.state = "Running" THEN [k EXCEPT !.state = end] ELSE k

\* `dispose`
Disposed(k, what) ==
    [k EXCEPT !.disposition = what, !.conversation = FALSE]

\* `waits_again`, which `try_again` calls without the conversation and
\* `carries_on` with it.
WaitsAgain(k, keeping) ==
    [k EXCEPT !.state = "Pending", !.ceiling = NoCeiling, !.disposition = "None",
              !.conversation = @ /\ keeping]

\* `wait_again`, for a task the vendor turned away: no question is asked of
\* the state it is in, and its session, ceiling and disposition stay.
TurnedAway(k) == [k EXCEPT !.state = "Pending"]

IsEnded(k) == k.state \in Ended

----------------------------------------------------------------------------
(* The set of tasks. *)

\* `add`
Add(ts, id, after) ==
    [t \in DOMAIN ts \cup {id} |-> IF t = id THEN Registered(after) ELSE ts[t]]

\* `remove`: whatever waited for the task waits for what it waited for.
Remove(ts, id) ==
    [t \in DOMAIN ts \ {id} |->
        IF ts[t].after = id THEN [ts[t] EXCEPT !.after = ts[id].after] ELSE ts[t]]

\* `interrupt`: every run a session still has going.
InterruptAll(ts, s) ==
    [t \in DOMAIN ts |->
        IF ts[t].session = s /\ ts[t].state = "Running"
        THEN [ts[t] EXCEPT !.state = "Interrupted"]
        ELSE ts[t]]

Pending(ts) == {t \in DOMAIN ts : ts[t].state = "Pending"}

\* A slip of the next: a task waits until what it waits for has been applied.
Waiting_ForApplied(ts) ==
    {t \in Pending(ts) : \/ ts[t].after = NoTask
                         \/ /\ ts[t].after \in DOMAIN ts
                            /\ ts[ts[t].after].state = "Completed"
                            /\ ts[ts[t].after].disposition = "Applied"}

\* `waiting`: the tasks that may start.
Waiting(ts) ==
    {t \in Pending(ts) : \/ ts[t].after = NoTask
                         \/ /\ ts[t].after \in DOMAIN ts
                            /\ ts[ts[t].after].state = "Completed"}

\* `blocked`: tasks are left and none of them may start.
Blocked(ts) == Waiting(ts) = {} /\ Pending(ts) # {}

TakenBy(ts, s) == {t \in DOMAIN ts : ts[t].session = s}
RunningIn(ts, s) == {t \in TakenBy(ts, s) : ts[t].state = "Running"}
AwaitingReview(ts) == {t \in DOMAIN ts : IsEnded(ts[t]) /\ ts[t].disposition = "None"}
Tidyable(ts) ==
    {t \in DOMAIN ts : /\ IsEnded(ts[t])
                       /\ ts[t].disposition # "None"
                       /\ ts[t].worktree}

\* The sum of f[t] over a set of tasks.
SumOver(f, S) ==
    LET sum[T \in SUBSET S] ==
            IF T = {} THEN 0
            ELSE LET t == CHOOSE x \in T : TRUE IN f[t] + sum[T \ {t}]
    IN  sum[S]

\* `booked_in` and `counted_in`
Booked(ts, s) == SumOver([t \in DOMAIN ts |-> ts[t].ceiling], RunningIn(ts, s))
Counted(ts, s) == SumOver([t \in DOMAIN ts |-> ts[t].consumed.tokens], TakenBy(ts, s))

\* `consumed_by` answers with no sum where one task of the session did not read.
CannotBeMeasured(ts, s) == \E t \in TakenBy(ts, s) : ts[t].consumed = Unreadable

----------------------------------------------------------------------------
(* What `restore` asks of a set of tasks before anything reads one.        *)
(* Distinct numbers are the function's own.                                *)

PredecessorsExist(ts) == \A t \in DOMAIN ts : ts[t].after \in DOMAIN ts \cup {NoTask}

\* A cycle is a set of tasks none of which leads out of it.
NoCycle(ts) ==
    \A C \in SUBSET DOMAIN ts : C # {} => \E t \in C : ts[t].after \notin C

Restorable(ts) == PredecessorsExist(ts) /\ NoCycle(ts)
============================================================================
