----------------------------- MODULE Restoring -----------------------------
(***************************************************************************)
(* The three questions `restore` asks of a stored backlog, as it asks them *)
(* (crates/cisternd/src/core/domain/task.rs:848-894).  A backlog file can  *)
(* be edited by hand, so what is stored is any list of tasks.  Module      *)
(* Tasks says what the answers should come to without any walking; here    *)
(* the loops run, one task or one step of a walk at a time.                *)
(***************************************************************************)
EXTENDS Tasks, Sequences

CONSTANT Lists   \* what a file may hold, a list of tasks each with its number and predecessor

ASSUME ListsAssumption == \A l \in Lists : l \in Seq([id : TaskId, after : Nat])

VARIABLES list,      \* the tasks stored
          asking,    \* the question, or the answer
          i,         \* the task it is asked of
          at,        \* where the walk from that task has come to
          steps      \* how many it has taken

restoreVars == <<list, asking, i, at, steps>>

RestoreInit ==
    /\ list \in Lists
    /\ asking = "repeated"
    /\ i = 1
    /\ at = NoTask
    /\ steps = 0

\* `find`: the first task with the number.
Found(id) == {j \in DOMAIN list : list[j].id = id}
After(id) == list[CHOOSE j \in Found(id) : \A k \in Found(id) : j <= k].after

Answers(with) == asking' = with /\ UNCHANGED <<list, i, at, steps>>

\* One question is asked of every task before the next question is; a walk
\* starts at the task it is asked of.
MovesOn(next) ==
    LET last == i >= Len(list)
        question == IF last THEN next ELSE asking
        j == IF last THEN 1 ELSE i + 1
    IN  /\ asking' = question
        /\ i' = j
        /\ at' = IF question = "cycle" /\ j \in DOMAIN list THEN list[j].id ELSE NoTask
        /\ steps' = 0
        /\ UNCHANGED list

\* `no_repeated_id`
NoRepeatedId ==
    /\ asking = "repeated"
    /\ IF i \in DOMAIN list /\ \E j \in 1..(i-1) : list[j].id = list[i].id
       THEN Answers("RepeatedId") ELSE MovesOn("predecessor")

\* `every_predecessor_exists`
EveryPredecessorExists ==
    /\ asking = "predecessor"
    /\ IF i \in DOMAIN list /\ list[i].after # NoTask /\ Found(list[i].after) = {}
       THEN Answers("NoSuchPredecessor") ELSE MovesOn("cycle")

\* One step of the walk, which leads nowhere from a task that waits for none.
Leads == at # NoTask /\ After(at) # NoTask

StepOn ==
    IF After(at) = list[i].id THEN Answers("Cycle")
    ELSE at' = After(at) /\ steps' = steps + 1 /\ UNCHANGED <<list, asking, i>>

\* Slips of the next: a step too few is taken, or as many as it takes.
NoCycleFound_OneStepFewer ==
    /\ asking = "cycle"
    /\ IF i \in DOMAIN list /\ steps + 1 < Len(list) /\ Leads
       THEN StepOn ELSE MovesOn("ok")

NoCycleFound_Unbounded ==
    /\ asking = "cycle"
    /\ IF i \notin DOMAIN list \/ ~ Leads THEN MovesOn("ok")
       ELSE IF After(at) = list[i].id THEN Answers("Cycle")
       ELSE at' = After(at) /\ UNCHANGED <<list, asking, i, steps>>

\* `no_cycle`: "walking as many steps as there are tasks is enough".
NoCycleFound ==
    /\ asking = "cycle"
    /\ IF i \in DOMAIN list /\ steps < Len(list) /\ Leads
       THEN StepOn ELSE MovesOn("ok")

RestoreNext == NoRepeatedId \/ EveryPredecessorExists \/ NoCycleFound

RestoreSpec == RestoreInit /\ [][RestoreNext]_restoreVars

----------------------------------------------------------------------------

Refusals == {"RepeatedId", "NoSuchPredecessor", "Cycle"}
Answered == asking \in Refusals \cup {"ok"}

\* The backlog the list is, where its numbers are distinct.
Stored == [id \in {list[j].id : j \in DOMAIN list} |-> Registered(After(id))]

Distinct == \A j, k \in DOMAIN list : list[j].id = list[k].id => j = k

\* What is taken back is a backlog every later reader may walk, and what is
\* refused is none, for the reason that is given: a task that only leads into
\* a cycle is refused by the tasks on it (task.rs:877-879).
AcceptsExactly ==
    /\ asking = "ok" => Distinct /\ Restorable(Stored)
    /\ asking = "RepeatedId" => ~ Distinct
    /\ asking = "NoSuchPredecessor" => Distinct /\ ~ PredecessorsExist(Stored)
    /\ asking = "Cycle" => Distinct /\ PredecessorsExist(Stored) /\ ~ NoCycle(Stored)

----------------------------------------------------------------------------
(* What each loop knows of the tasks it has asked. *)

RestoreTypeOK ==
    /\ list \in Lists
    /\ asking \in {"repeated", "predecessor", "cycle", "ok"} \cup Refusals
    /\ i \in DOMAIN list \/ (list = <<>> /\ i = 1)
    /\ steps \in Nat

Asked == {j \in DOMAIN list : j < i}

\* What a task waits for, and all that waits for in turn, is never the task.
OnNoCycle(t) ==
    \E V \in SUBSET DOMAIN Stored :
        t \notin V /\ \A v \in V \cup {t} : Stored[v].after \in V \cup {NoTask}

\* A walk from a task in so many steps to where it has come, that did not meet
\* the task again.
Walked(way, from, to, taken) ==
    /\ way \in [0..taken -> DOMAIN Stored]
    /\ way[0] = from /\ way[taken] = to
    /\ \A k \in 1..taken : way[k] = Stored[way[k - 1]].after /\ way[k] # from

RestoreInductive ==
    /\ RestoreTypeOK
    /\ asking = "repeated" => \A j, k \in Asked : list[j].id = list[k].id => j = k
    /\ asking = "RepeatedId" => ~ Distinct
    /\ asking \notin {"repeated", "RepeatedId"} => Distinct
    /\ asking = "predecessor" => \A j \in Asked : list[j].after \in DOMAIN Stored \cup {NoTask}
    /\ asking = "NoSuchPredecessor" => ~ PredecessorsExist(Stored)
    /\ asking \in {"cycle", "Cycle", "ok"} => PredecessorsExist(Stored)
    /\ asking = "cycle" =>
          /\ \A j \in Asked : OnNoCycle(list[j].id)
          /\ i \in DOMAIN list =>
                \E way \in [0..steps -> DOMAIN Stored] : Walked(way, list[i].id, at, steps)
    /\ asking = "Cycle" => ~ NoCycle(Stored)
    /\ asking = "ok" => NoCycle(Stored)
============================================================================
