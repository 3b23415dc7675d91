------------------------------ MODULE Backlog ------------------------------
(***************************************************************************)
(* The backlog store: the tasks it holds, and every change that is made to *)
(* it, each the whole of one `backlog::change`                             *)
(* (crates/cisternd/src/core/service/backlog.rs), which reads the store,   *)
(* changes what it read and writes it back under one lock.                 *)
(*                                                                         *)
(* Who calls, and when, is module Daemon's.  Here a call may come whenever *)
(* the code that makes it could be this late: a worker answers for a task  *)
(* that has been assigned at least once, whatever has become of the task   *)
(* since, because nothing but the worker's own pace decides when it        *)
(* answers.                                                                *)
(***************************************************************************)
EXTENDS Tasks

CONSTANTS Session,       \* the sessions that may take a task
          Ceiling,       \* what a run may be allowed
          Observed,      \* what may be known of what a run consumed
          LastId,        \* bound: the last number that is given out
          MostAttempts   \* bound: how often one task is assigned

ASSUME SessionAssumption == Session \subseteq SessionId
ASSUME CeilingAssumption == Ceiling \subseteq Nat \ {NoCeiling}
ASSUME ObservedAssumption == Observed \subseteq Observation \ {NotYet}
ASSUME BoundAssumption == LastId \in Nat /\ MostAttempts \in Nat

VARIABLES tasks,         \* the backlog
          next_id        \* the number the next task will get

vars == <<tasks, next_id>>

Init ==
    /\ tasks = [t \in {} |-> Registered(NoTask)]
    /\ next_id = 1

----------------------------------------------------------------------------
(* Slips: what a plausible mistake would make of an operation below.  Each *)
(* is put in the operation's place to see that a property notices.         *)

\* The tasks that waited for the one taken out keep naming it.
RemoveTask_Unlinked(t) ==
    /\ t \in Pending(tasks)
    /\ tasks' = [u \in DOMAIN tasks \ {t} |-> tasks[u]]
    /\ UNCHANGED next_id

\* They wait for nothing at all.
RemoveTask_SetFree(t) ==
    /\ t \in Pending(tasks)
    /\ tasks' = [u \in DOMAIN tasks \ {t} |->
                    IF tasks[u].after = t THEN [tasks[u] EXCEPT !.after = NoTask]
                                          ELSE tasks[u]]
    /\ UNCHANGED next_id

\* The last answer is the true one.
RunEnded_LastAnswer(t, end, consumed, conversed) ==
    /\ t \in DOMAIN tasks
    /\ tasks[t].attempts > 0
    /\ tasks' = [tasks EXCEPT ![t] = [tasks[t] EXCEPT
                                        !.state = end,
                                        !.consumed = consumed,
                                        !.conversation = conversed]]
    /\ UNCHANGED next_id

----------------------------------------------------------------------------
(* The changes. *)

\* `add`: a task may only name one that already exists.
AddTask(after) ==
    /\ next_id <= LastId
    /\ after \in DOMAIN tasks \cup {NoTask}
    /\ tasks' = Add(tasks, next_id, after)
    /\ next_id' = next_id + 1

\* `remove`: only a task that is waiting is taken out.
RemoveTask(t) ==
    /\ t \in Pending(tasks)
    /\ tasks' = Remove(tasks, t)
    /\ UNCHANGED next_id

\* The change `settle` makes when it starts tasks: which ones and with what is
\* decided from the tasks that may start, under the hold they are assigned in.
AssignAll(s, allowed) ==
    /\ DOMAIN allowed \subseteq Waiting(tasks)
    /\ tasks' = [t \in DOMAIN tasks |->
                    IF t \in DOMAIN allowed THEN Assigned(tasks[t], s, allowed[t])
                                            ELSE tasks[t]]
    /\ UNCHANGED next_id

\* `work_area`, which a worker writes down before it starts the agent, and
\* `work_area_gone`, which a tidying does for every directory that went.
WorkArea(t) ==
    /\ t \in DOMAIN tasks
    /\ tasks[t].attempts > 0
    /\ tasks' = [tasks EXCEPT ![t].worktree = TRUE]
    /\ UNCHANGED next_id

WorkAreasGone(S) ==
    /\ S \subseteq {t \in DOMAIN tasks : tasks[t].attempts > 0}
    /\ tasks' = [t \in DOMAIN tasks |->
                    IF t \in S THEN [tasks[t] EXCEPT !.worktree = FALSE] ELSE tasks[t]]
    /\ UNCHANGED next_id

\* The one change `ended` makes: `finish`, `record` and `conversed`.  Only the
\* first asks whether the task is still running.
RunEnded(t, end, consumed, conversed) ==
    /\ t \in DOMAIN tasks
    /\ tasks[t].attempts > 0
    /\ tasks' = [tasks EXCEPT ![t] = [Finished(tasks[t], end) EXCEPT
                                        !.consumed = consumed,
                                        !.conversation = conversed]]
    /\ UNCHANGED next_id

\* The one change `turned_away` makes: `record` and `wait_again`.
RunTurnedAway(t, consumed) ==
    /\ t \in DOMAIN tasks
    /\ tasks[t].attempts > 0
    /\ tasks' = [tasks EXCEPT ![t] = [TurnedAway(tasks[t]) EXCEPT !.consumed = consumed]]
    /\ UNCHANGED next_id

\* `apply` and `discard`: what is refused is deciding about a run not ended.
Dispose(t, what) ==
    /\ t \in DOMAIN tasks
    /\ IsEnded(tasks[t])
    /\ tasks' = [tasks EXCEPT ![t] = Disposed(tasks[t], what)]
    /\ UNCHANGED next_id

\* `retry`, and `resume`, which keeps the conversation.
WaitAgain(t, keeping) ==
    /\ t \in DOMAIN tasks
    /\ IsEnded(tasks[t])
    /\ tasks[t].attempts < MostAttempts
    /\ tasks' = [tasks EXCEPT ![t] = WaitsAgain(tasks[t], keeping)]
    /\ UNCHANGED next_id

\* `interrupt`
Interrupt(s) ==
    /\ tasks' = InterruptAll(tasks, s)
    /\ UNCHANGED next_id

\* What one worker's run comes to.
Carry(t) ==
    \/ WorkArea(t)
    \/ \E end \in Ended, consumed \in Observed \cup {NotYet}, conversed \in BOOLEAN :
          RunEnded(t, end, consumed, conversed)
    \/ \E consumed \in Observed : RunTurnedAway(t, consumed)

\* What a person asks for.
Ask(t) ==
    \/ RemoveTask(t)
    \/ \E what \in Disposition \ {"None"} : Dispose(t, what)
    \/ \E keeping \in BOOLEAN : WaitAgain(t, keeping)

Next ==
    \/ \E after \in DOMAIN tasks \cup {NoTask} : AddTask(after)
    \/ \E t \in DOMAIN tasks : Carry(t) \/ Ask(t)
    \/ \E S \in SUBSET DOMAIN tasks : WorkAreasGone(S)
    \/ \E s \in Session :
          \/ Interrupt(s)
          \/ \E S \in SUBSET Waiting(tasks) :
                \E allowed \in [S -> Ceiling] : AssignAll(s, allowed)

Spec == Init /\ [][Next]_vars

----------------------------------------------------------------------------

\* The backlog holds tasks, under numbers that have been given out.
TypeOK ==
    /\ next_id \in TaskId
    /\ DOMAIN tasks \subseteq TaskId
    /\ tasks \in [DOMAIN tasks -> Task]

\* What the store holds is always a backlog `restore` will take back: every
\* predecessor is there and no task waits for itself, however tasks are added
\* and removed.  A store that broke it would refuse every later command.
StaysRestorable == Restorable(tasks)

\* Tasks waiting for one another are never all there is: where none of the
\* waiting may start, something is running or something ended without
\* completing.  That is what `blocked` is taken to mean (task.rs:737-741).
BlockedForAReason ==
    Blocked(tasks) =>
        \E t \in DOMAIN tasks : tasks[t].state \in {"Running", "Interrupted", "Error"}

\* Whether nothing in a set of tasks waits for anything outside it.
Shut(ts, C) == \A v \in C : ts[v].after \in C \cup {NoTask}

\* Every task that t waits for, directly or through others.
Upstream(ts, t) ==
    {u \in DOMAIN ts \ {t} : \A C \in SUBSET DOMAIN ts : t \in C /\ Shut(ts, C) => u \in C}

\* Taking a task out changes nothing about what the others wait for: two tasks
\* that stay are in the same order after a step as before it.
OrderKept ==
    [][\A t, u \in DOMAIN tasks \cap DOMAIN tasks' :
            u \in Upstream(tasks', t) <=> u \in Upstream(tasks, t)]_vars

\* "The first answer is the true one" (task.rs:597): how a run ended is never
\* replaced by another ending, however many answers arrive late.  The task
\* waits again first.
FirstAnswerStands ==
    [][\A t \in DOMAIN tasks \cap DOMAIN tasks' :
            IsEnded(tasks[t]) /\ IsEnded(tasks'[t]) => tasks'[t].state = tasks[t].state]_vars

----------------------------------------------------------------------------
(* What the repository says of the backlog and it does not keep.           *)

\* "Only `Pending` tasks that have not been assigned are eligible"
\* (docs/cli.md:211): a task the vendor turned away, and one that was put back
\* to be tried again, has been.
RemovesOnlyUnassigned ==
    [][\A t \in DOMAIN tasks \ DOMAIN tasks' : tasks[t].attempts = 0]_vars

----------------------------------------------------------------------------
(* The order that keeps the backlog readable: a task is younger than what  *)
(* it waits for, and that is still there.                                  *)

Ordered ==
    \A t \in DOMAIN tasks :
        /\ t < next_id
        /\ tasks[t].after < t
        /\ tasks[t].after \in DOMAIN tasks \cup {NoTask}

\* Inductive: every change to the store keeps it.
Inductive == TypeOK /\ Ordered
============================================================================
