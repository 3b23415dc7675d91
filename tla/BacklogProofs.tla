--------------------------- MODULE BacklogProofs ---------------------------
(***************************************************************************)
(* What holds of the backlog store for every number of tasks, sessions,    *)
(* ceilings and attempts.                                                  *)
(*                                                                         *)
(* The one fact everything rests on is Ordered: a task is younger than the *)
(* task it waits for, which is still there.  It is inductive with TypeOK,  *)
(* and adding and removing are the only changes that can disturb it: what  *)
(* waits on what is the same after either, among the tasks that stay.      *)
(*                                                                         *)
(* And a backlog that is read back: what the loops of `restore` take is    *)
(* what is one, for lists of any length.                                   *)
(***************************************************************************)
EXTENDS Backlog, Restoring, TasksProofs

----------------------------------------------------------------------------
(* The store. *)

\* What a step may never do to the order, without the subscript.
KeepsOrder ==
    \A t, u \in DOMAIN tasks \cap DOMAIN tasks' :
        u \in Upstream(tasks', t) <=> u \in Upstream(tasks, t)

\* Where tasks that stay wait for what they waited for, a shut set stays shut.
LEMMA SameUpstream ==
    ASSUME NEW ts, NEW us, DOMAIN us = DOMAIN ts, \A t \in DOMAIN ts : us[t].after = ts[t].after
    PROVE  \A t : Upstream(us, t) = Upstream(ts, t)
<1>1. \A C \in SUBSET DOMAIN ts : Shut(us, C) <=> Shut(ts, C)
    BY DEF Shut
<1> QED
    BY <1>1 DEF Upstream

\* Every change but adding and removing: the same tasks stay, each waiting
\* for what it waited for.
LEMMA SameOrder ==
    ASSUME Inductive,
           DOMAIN tasks' = DOMAIN tasks,
           tasks' \in [DOMAIN tasks -> Task],
           \A t \in DOMAIN tasks : tasks'[t].after = tasks[t].after,
           UNCHANGED next_id
    PROVE  Inductive' /\ KeepsOrder
<1>1. Inductive'
    BY DEF Inductive, TypeOK, Ordered
<1>2. \A t : Upstream(tasks', t) = Upstream(tasks, t)
    BY SameUpstream
<1> QED
    BY <1>1, <1>2 DEF KeepsOrder

\* A change to one task, which leaves what it waits for.
LEMMA OneTask ==
    ASSUME Inductive,
           NEW t \in DOMAIN tasks, NEW new \in Task,
           new.after = tasks[t].after,
           tasks' = [tasks EXCEPT ![t] = new],
           UNCHANGED next_id
    PROVE  Inductive' /\ KeepsOrder
<1>1. tasks \in [DOMAIN tasks -> Task]
    BY DEF Inductive, TypeOK
<1>2. tasks' \in [DOMAIN tasks -> Task] /\ DOMAIN tasks' = DOMAIN tasks
    BY <1>1
<1>3. \A u \in DOMAIN tasks : tasks'[u].after = tasks[u].after
    BY <1>1
<1> QED
    BY <1>2, <1>3, SameOrder

\* No set of tasks shuts a cycle: the eldest of it waits for a task outside it.
LEMMA OrderedIsRestorable == Inductive => StaysRestorable
<1> SUFFICES ASSUME Inductive PROVE Restorable(tasks)
    BY DEF StaysRestorable
<1>1. PredecessorsExist(tasks)
    BY DEF PredecessorsExist, Inductive, Ordered
<1>2. ASSUME NEW C \in SUBSET DOMAIN tasks, C # {}
      PROVE  \E t \in C : tasks[t].after \notin C
    <2>1. C \in SUBSET Nat
        BY DEF Inductive, TypeOK, TaskId
    <2>2. PICK t \in C : \A u \in C : t <= u
        BY <1>2, <2>1, LeastNumber
    <2>3. tasks[t].after < t /\ tasks[t] \in Task /\ t \in Nat
        BY <2>1 DEF Inductive, TypeOK, Ordered
    <2>4. tasks[t].after \in Nat
        BY <2>3 DEF Task
    <2>5. ~ (t <= tasks[t].after)
        BY <2>3, <2>4
    <2> QED
        BY <2>2, <2>5
<1> QED
    BY <1>1, <1>2 DEF Restorable, NoCycle

\* Where none of the waiting tasks may start, the eldest of them waits for a
\* task that is there, is not waiting and did not complete.
LEMMA OrderedIsBlockedForAReason == Inductive => BlockedForAReason
<1> SUFFICES ASSUME Inductive, Blocked(tasks)
             PROVE  \E t \in DOMAIN tasks :
                        tasks[t].state \in {"Running", "Interrupted", "Error"}
    BY DEF BlockedForAReason
<1>1. Pending(tasks) \in SUBSET Nat /\ Pending(tasks) # {}
    BY DEF Blocked, Pending, Inductive, TypeOK, TaskId
<1>2. PICK t \in Pending(tasks) : \A u \in Pending(tasks) : t <= u
    BY <1>1, LeastNumber
<1> DEFINE p == tasks[t].after
<1>3. t \in DOMAIN tasks /\ t \in Nat /\ p < t /\ p \in DOMAIN tasks \cup {NoTask}
    BY <1>1, <1>2 DEF Pending, Inductive, Ordered
<1>4. p \in Nat
    BY <1>3 DEF Inductive, TypeOK, Task
<1>5. t \notin Waiting(tasks)
    BY DEF Blocked
<1>6. p # NoTask /\ p \in DOMAIN tasks /\ tasks[p].state # "Completed"
    BY <1>2, <1>3, <1>5 DEF Waiting
<1>7. p \notin Pending(tasks)
    BY <1>1, <1>2, <1>3, <1>4
<1>8. tasks[p].state # "Pending"
    BY <1>6, <1>7 DEF Pending
<1>9. tasks[p].state \in TaskState
    BY <1>6 DEF Inductive, TypeOK, Task
<1> QED
    BY <1>6, <1>8, <1>9 DEF TaskState

----------------------------------------------------------------------------
(* The steps. *)

\* An empty backlog is in order.
LEMMA InitInductive == Init => Inductive
BY DEF Init, Inductive, TypeOK, Ordered, TaskId, NoTask

\* Where a task is added that nobody waits for: a set that was shut is shut
\* still, and of one that is what was there before was.
LEMMA UpstreamOfMore ==
    ASSUME NEW ts, NEW us, NEW n, n \notin DOMAIN ts, DOMAIN us = DOMAIN ts \cup {n},
           \A v \in DOMAIN ts : us[v] = ts[v] /\ ts[v].after \in DOMAIN ts \cup {NoTask}
    PROVE  \A t, u \in DOMAIN ts : u \in Upstream(us, t) <=> u \in Upstream(ts, t)
<1> TAKE t, u \in DOMAIN ts
<1>1. ASSUME NEW C \in SUBSET DOMAIN ts, Shut(ts, C)
      PROVE  C \in SUBSET DOMAIN us /\ Shut(us, C)
    BY <1>1 DEF Shut
<1>2. ASSUME NEW C \in SUBSET DOMAIN us, Shut(us, C)
      PROVE  C \cap DOMAIN ts \in SUBSET DOMAIN ts /\ Shut(ts, C \cap DOMAIN ts)
    BY <1>2 DEF Shut
<1> QED
    BY <1>1, <1>2 DEF Upstream

\* Where one is taken out and who waited for it waits for what it waited for:
\* a set that was shut is without it, and one that is was with it.
LEMMA UpstreamOfFewer ==
    ASSUME NEW ts, NEW us, NEW r \in DOMAIN ts, DOMAIN us = DOMAIN ts \ {r},
           ts[r].after # r, r # NoTask,
           \A v \in DOMAIN us :
              us[v].after = IF ts[v].after = r THEN ts[r].after ELSE ts[v].after
    PROVE  \A t, u \in DOMAIN us : u \in Upstream(us, t) <=> u \in Upstream(ts, t)
<1> TAKE t, u \in DOMAIN us
<1>1. ASSUME NEW C \in SUBSET DOMAIN ts, Shut(ts, C)
      PROVE  C \ {r} \in SUBSET DOMAIN us /\ Shut(us, C \ {r})
    BY <1>1 DEF Shut
<1>2. ASSUME NEW C \in SUBSET DOMAIN us, Shut(us, C), \E v \in C : ts[v].after = r
      PROVE  C \cup {r} \in SUBSET DOMAIN ts /\ Shut(ts, C \cup {r})
    BY <1>2 DEF Shut
<1>3. ASSUME NEW C \in SUBSET DOMAIN us, Shut(us, C), ~ \E v \in C : ts[v].after = r
      PROVE  C \in SUBSET DOMAIN ts /\ Shut(ts, C)
    BY <1>3 DEF Shut
<1>4. ASSUME u \in Upstream(us, t)
      PROVE  u \in Upstream(ts, t)
    BY <1>1, <1>4 DEF Upstream
<1>5. ASSUME u \in Upstream(ts, t)
      PROVE  u \in Upstream(us, t)
    <2> SUFFICES ASSUME NEW C \in SUBSET DOMAIN us, t \in C, Shut(us, C)
                 PROVE  u \in C
        BY <1>5 DEF Upstream
    <2>1. CASE \E v \in C : ts[v].after = r
        <3>1. u \in C \cup {r}
            BY <1>2, <1>5, <2>1 DEF Upstream
        <3> QED
            BY <3>1
    <2>2. CASE ~ \E v \in C : ts[v].after = r
        BY <1>3, <1>5, <2>2 DEF Upstream
    <2> QED
        BY <2>1, <2>2
<1> QED
    BY <1>4, <1>5

\* A new task is the youngest, and may only name one that is there.
LEMMA AddInductive ==
    ASSUME Inductive, NEW after \in DOMAIN tasks \cup {NoTask}, AddTask(after)
    PROVE  Inductive' /\ KeepsOrder
<1>1. after \in Nat /\ after < next_id /\ next_id \in Nat /\ next_id # 0
    BY DEF Inductive, TypeOK, Ordered, TaskId, NoTask
<1>2. Registered(after) \in Task /\ Registered(after).after = after
    BY <1>1, RegisteredTask
<1> DEFINE held == DOMAIN tasks \cup {next_id}
<1>3. tasks' = [t \in held |-> IF t = next_id THEN Registered(after) ELSE tasks[t]]
    BY DEF AddTask, Add
<1>4. next_id' = next_id + 1
    BY DEF AddTask
<1>5. DOMAIN tasks' = held /\ held \subseteq TaskId
    BY <1>1, <1>3 DEF Inductive, TypeOK, TaskId, NoTask
<1>6. ASSUME NEW t \in held
      PROVE  /\ tasks'[t] \in Task
             /\ t < next_id'
             /\ tasks'[t].after < t
             /\ tasks'[t].after \in held \cup {NoTask}
    <2>1. CASE t = next_id
        BY <1>1, <1>2, <1>3, <1>4, <2>1
    <2>2. CASE t # next_id
        <3>1. t \in DOMAIN tasks /\ tasks'[t] = tasks[t] /\ t \in Nat
            BY <1>3, <2>2 DEF Inductive, TypeOK, TaskId
        <3>2. t < next_id /\ tasks[t].after < t /\ tasks[t].after \in held \cup {NoTask}
            BY <3>1 DEF Inductive, Ordered
        <3>3. tasks[t] \in Task
            BY <3>1 DEF Inductive, TypeOK
        <3> QED
            BY <1>1, <1>4, <3>1, <3>2, <3>3
    <2> QED
        BY <2>1, <2>2
<1>7. next_id' \in TaskId
    BY <1>1, <1>4 DEF TaskId, NoTask
<1>8. tasks' \in [held -> Task]
    BY <1>3, <1>5, <1>6
<1>9. KeepsOrder
    <2>1. next_id \notin DOMAIN tasks
        BY DEF Inductive, TypeOK, Ordered, TaskId
    <2>2. \A t \in DOMAIN tasks : /\ tasks'[t] = tasks[t]
                                  /\ tasks[t].after \in DOMAIN tasks \cup {NoTask}
        BY <1>3, <2>1 DEF Inductive, Ordered
    <2> QED
        BY <1>5, <2>1, <2>2, UpstreamOfMore DEF KeepsOrder
<1> QED
    BY <1>5, <1>6, <1>7, <1>8, <1>9 DEF Inductive, TypeOK, Ordered

\* Whoever waited for the task taken out waits for one older still.
LEMMA RemoveInductive ==
    ASSUME Inductive, NEW r \in DOMAIN tasks, RemoveTask(r)
    PROVE  Inductive' /\ KeepsOrder
<1> DEFINE held == DOMAIN tasks \ {r}
           up == tasks[r].after
<1>1. /\ r \in Nat
      /\ tasks[r] \in Task
      /\ up \in Nat
      /\ up < r
      /\ up \in held \cup {NoTask}
    <2>1. r \in Nat /\ tasks[r] \in Task /\ up < r /\ up \in DOMAIN tasks \cup {NoTask}
        BY DEF Inductive, TypeOK, Ordered, TaskId
    <2>2. up \in Nat
        BY <2>1 DEF Task
    <2> QED
        BY <2>1, <2>2
<1>2. tasks' = [t \in held |-> IF tasks[t].after = r
                               THEN [tasks[t] EXCEPT !.after = up] ELSE tasks[t]]
    BY DEF RemoveTask, Remove
<1>3. next_id' = next_id
    BY DEF RemoveTask
<1>4. DOMAIN tasks' = held /\ held \subseteq TaskId
    BY <1>2 DEF Inductive, TypeOK
<1>5. ASSUME NEW t \in held
      PROVE  /\ tasks'[t] \in Task
             /\ t < next_id
             /\ tasks'[t].after < t
             /\ tasks'[t].after \in held \cup {NoTask}
    <2>1. /\ t \in Nat
          /\ tasks[t] \in Task
          /\ t < next_id
          /\ tasks[t].after < t
          /\ tasks[t].after \in DOMAIN tasks \cup {NoTask}
        BY DEF Inductive, TypeOK, Ordered, TaskId
    <2>2. CASE tasks[t].after = r
        <3>1. tasks'[t] = [tasks[t] EXCEPT !.after = up]
            BY <1>2, <2>2
        <3>2. tasks'[t] \in Task /\ tasks'[t].after = up
            BY <1>1, <2>1, <3>1 DEF Task
        <3>3. up < t
            BY <1>1, <2>1, <2>2
        <3> QED
            BY <1>1, <2>1, <3>2, <3>3
    <2>3. CASE tasks[t].after # r
        BY <1>2, <2>1, <2>3
    <2> QED
        BY <2>2, <2>3
<1>6. tasks' \in [held -> Task]
    BY <1>2, <1>4, <1>5
<1>7. KeepsOrder
    <2>2. \A t \in held : tasks'[t].after = IF tasks[t].after = r THEN up ELSE tasks[t].after
        <3>1. \A t \in held : tasks[t] \in Task
            BY DEF Inductive, TypeOK
        <3> QED
            BY <1>2, <3>1 DEF Task
    <2>3. up # r /\ r # NoTask
        BY <1>1 DEF NoTask
    <2>4. /\ DOMAIN tasks' = DOMAIN tasks \ {r}
          /\ \A v \in DOMAIN tasks' :
                tasks'[v].after = IF tasks[v].after = r THEN tasks[r].after ELSE tasks[v].after
        BY <1>4, <2>2
    <2>5. \A t, u \in DOMAIN tasks' : u \in Upstream(tasks', t) <=> u \in Upstream(tasks, t)
        BY <2>3, <2>4, UpstreamOfFewer
    <2>6. DOMAIN tasks \cap DOMAIN tasks' = DOMAIN tasks'
        BY <2>4
    <2> QED
        BY <2>5, <2>6 DEF KeepsOrder
<1> QED
    BY <1>3, <1>4, <1>5, <1>6, <1>7 DEF Inductive, TypeOK, Ordered

\* A task that is assigned waits for what it waited for.
LEMMA AssignInductive ==
    ASSUME Inductive, NEW s \in Session, NEW S \in SUBSET Waiting(tasks),
           NEW allowed \in [S -> Ceiling], AssignAll(s, allowed)
    PROVE  Inductive' /\ KeepsOrder
<1>1. /\ DOMAIN tasks' = DOMAIN tasks
      /\ next_id' = next_id
      /\ \A t \in DOMAIN tasks :
            tasks'[t] = IF t \in S THEN Assigned(tasks[t], s, allowed[t]) ELSE tasks[t]
    BY DEF AssignAll
<1>2. ASSUME NEW t \in DOMAIN tasks
      PROVE  tasks'[t] \in Task /\ tasks'[t].after = tasks[t].after
    <2>1. tasks[t] \in Task
        BY DEF Inductive, TypeOK
    <2>2. CASE t \in S
        <3>1. s \in Nat
            BY SessionAssumption DEF SessionId
        <3>2. allowed[t] \in Ceiling
            BY <2>2
        <3>3. allowed[t] \in Nat
            BY <3>2, CeilingAssumption DEF NoCeiling
        <3>4. /\ Assigned(tasks[t], s, allowed[t]) \in Task
              /\ Assigned(tasks[t], s, allowed[t]).after = tasks[t].after
            <4> DEFINE k == tasks[t]
                       c == allowed[t]
            <4>1. k \in Task /\ c \in Nat
                BY <2>1, <3>3
            <4> HIDE DEF k, c
            <4>2. Assigned(k, s, c) \in Task /\ Assigned(k, s, c).after = k.after
                BY <3>1, <4>1, AssignedTask
            <4> QED
                BY <4>2 DEF k, c
        <3>5. tasks'[t] = Assigned(tasks[t], s, allowed[t])
            BY <1>1, <2>2
        <3> QED
            BY <3>4, <3>5, Zenon
    <2>3. CASE t \notin S
        BY <1>1, <2>1, <2>3
    <2> QED
        BY <2>2, <2>3
<1>3. tasks' \in [DOMAIN tasks -> Task]
    BY <1>1, <1>2 DEF AssignAll
<1> QED
    BY <1>1, <1>2, <1>3, SameOrder

\* What a worker's run comes to leaves the order as it is.
LEMMA CarryInductive ==
    ASSUME Inductive, NEW t \in DOMAIN tasks, Carry(t)
    PROVE  Inductive' /\ KeepsOrder
<1>1. tasks[t] \in Task
    BY DEF Inductive, TypeOK
<1>2. CASE WorkArea(t)
    <2> DEFINE new == [tasks[t] EXCEPT !.worktree = TRUE]
    <2>1. new \in Task /\ new.after = tasks[t].after
        BY <1>1 DEF Task
    <2>2. tasks' = [tasks EXCEPT ![t] = new] /\ next_id' = next_id
        BY <1>2 DEF WorkArea
    <2> HIDE DEF new
    <2> QED
        BY <2>1, <2>2, OneTask
<1>3. ASSUME NEW end \in Ended, NEW consumed \in Observed \cup {NotYet},
             NEW conversed \in BOOLEAN, RunEnded(t, end, consumed, conversed)
      PROVE  Inductive' /\ KeepsOrder
    <2> DEFINE new == [Finished(tasks[t], end) EXCEPT !.consumed = consumed,
                                                      !.conversation = conversed]
    <2>1. consumed \in Observation
        BY ObservedAssumption DEF NotYet, Observation
    <2>2. Finished(tasks[t], end) \in Task /\ Finished(tasks[t], end).after = tasks[t].after
        BY <1>1, FinishedTask
    <2>3. new \in Task /\ new.after = tasks[t].after
        BY <2>1, <2>2 DEF Task
    <2>4. tasks' = [tasks EXCEPT ![t] = new] /\ next_id' = next_id
        BY <1>3 DEF RunEnded
    <2> HIDE DEF new
    <2> QED
        BY <2>3, <2>4, OneTask
<1>4. ASSUME NEW consumed \in Observed, RunTurnedAway(t, consumed)
      PROVE  Inductive' /\ KeepsOrder
    <2> DEFINE new == [TurnedAway(tasks[t]) EXCEPT !.consumed = consumed]
    <2>1. consumed \in Observation
        BY ObservedAssumption
    <2>2. TurnedAway(tasks[t]) \in Task /\ TurnedAway(tasks[t]).after = tasks[t].after
        BY <1>1, TurnedAwayTask
    <2>3. new \in Task /\ new.after = tasks[t].after
        BY <2>1, <2>2 DEF Task
    <2>4. tasks' = [tasks EXCEPT ![t] = new] /\ next_id' = next_id
        BY <1>4 DEF RunTurnedAway
    <2> HIDE DEF new
    <2> QED
        BY <2>3, <2>4, OneTask
<1> QED
    BY <1>2, <1>3, <1>4 DEF Carry

\* Of what a person asks for, only removing touches the order.
LEMMA AskInductive ==
    ASSUME Inductive, NEW t \in DOMAIN tasks, Ask(t)
    PROVE  Inductive' /\ KeepsOrder
<1>1. tasks[t] \in Task
    BY DEF Inductive, TypeOK
<1>2. CASE RemoveTask(t)
    BY <1>2, RemoveInductive
<1>3. ASSUME NEW what \in Disposition \ {"None"}, Dispose(t, what)
      PROVE  Inductive' /\ KeepsOrder
    <2>1. Disposed(tasks[t], what) \in Task /\ Disposed(tasks[t], what).after = tasks[t].after
        BY <1>1, DisposedTask
    <2> QED
        BY <1>3, <2>1, OneTask DEF Dispose
<1>4. ASSUME NEW keeping \in BOOLEAN, WaitAgain(t, keeping)
      PROVE  Inductive' /\ KeepsOrder
    <2>1. /\ WaitsAgain(tasks[t], keeping) \in Task
          /\ WaitsAgain(tasks[t], keeping).after = tasks[t].after
        BY <1>1, WaitsAgainTask
    <2> QED
        BY <1>4, <2>1, OneTask DEF WaitAgain
<1> QED
    BY <1>2, <1>3, <1>4 DEF Ask

\* Forgetting work areas touches no order.
LEMMA WorkAreasGoneInductive ==
    ASSUME Inductive, NEW S \in SUBSET DOMAIN tasks, WorkAreasGone(S)
    PROVE  Inductive' /\ KeepsOrder
<1>1. /\ DOMAIN tasks' = DOMAIN tasks
      /\ next_id' = next_id
      /\ \A t \in DOMAIN tasks :
            tasks'[t] = IF t \in S THEN [tasks[t] EXCEPT !.worktree = FALSE] ELSE tasks[t]
    BY DEF WorkAreasGone
<1>2. ASSUME NEW t \in DOMAIN tasks
      PROVE  tasks'[t] \in Task /\ tasks'[t].after = tasks[t].after
    <2>1. tasks[t] \in Task
        BY DEF Inductive, TypeOK
    <2> QED
        BY <1>1, <2>1 DEF Task
<1>3. tasks' \in [DOMAIN tasks -> Task]
    BY <1>1, <1>2 DEF WorkAreasGone
<1> QED
    BY <1>1, <1>2, <1>3, SameOrder

\* Ending a session's runs touches no order.
LEMMA InterruptInductive ==
    ASSUME Inductive, NEW s \in Session, Interrupt(s)
    PROVE  Inductive' /\ KeepsOrder
<1>1. /\ DOMAIN tasks' = DOMAIN tasks
      /\ next_id' = next_id
      /\ \A t \in DOMAIN tasks :
            \/ tasks'[t] = tasks[t]
            \/ tasks'[t] = [tasks[t] EXCEPT !.state = "Interrupted"]
    BY DEF Interrupt, InterruptAll
<1>2. ASSUME NEW t \in DOMAIN tasks
      PROVE  tasks'[t] \in Task /\ tasks'[t].after = tasks[t].after
    <2>1. tasks[t] \in Task
        BY DEF Inductive, TypeOK
    <2> QED
        BY <1>1, <2>1 DEF Task, TaskState
<1>3. tasks' \in [DOMAIN tasks -> Task]
    BY <1>1, <1>2 DEF Interrupt, InterruptAll
<1> QED
    BY <1>1, <1>2, <1>3, SameOrder

\* Every change keeps the order.
LEMMA StepInductive == Inductive /\ [Next]_vars => Inductive' /\ KeepsOrder
<1> SUFFICES ASSUME Inductive, [Next]_vars PROVE Inductive' /\ KeepsOrder
    OBVIOUS
<1>1. ASSUME NEW after \in DOMAIN tasks \cup {NoTask}, AddTask(after) PROVE Inductive' /\ KeepsOrder
    BY <1>1, AddInductive
<1>2. ASSUME NEW t \in DOMAIN tasks, Carry(t) PROVE Inductive' /\ KeepsOrder
    BY <1>2, CarryInductive
<1>3. ASSUME NEW t \in DOMAIN tasks, Ask(t) PROVE Inductive' /\ KeepsOrder
    BY <1>3, AskInductive
<1>4. ASSUME NEW S \in SUBSET DOMAIN tasks, WorkAreasGone(S) PROVE Inductive' /\ KeepsOrder
    BY <1>4, WorkAreasGoneInductive
<1>5. ASSUME NEW s \in Session, Interrupt(s) PROVE Inductive' /\ KeepsOrder
    BY <1>5, InterruptInductive
<1>6. ASSUME NEW s \in Session, NEW S \in SUBSET Waiting(tasks),
             NEW allowed \in [S -> Ceiling], AssignAll(s, allowed)
      PROVE  Inductive' /\ KeepsOrder
    BY <1>6, AssignInductive
<1>7. CASE UNCHANGED vars
    BY <1>7 DEF vars, Inductive, TypeOK, Ordered, KeepsOrder
<1> QED
    BY <1>1, <1>2, <1>3, <1>4, <1>5, <1>6, <1>7 DEF Next

----------------------------------------------------------------------------
(* The endings: what a step makes of a task that ended. *)

KeepsEndings ==
    \A t \in DOMAIN tasks \cap DOMAIN tasks' :
        IsEnded(tasks[t]) /\ IsEnded(tasks'[t]) => tasks'[t].state = tasks[t].state

\* A change to one task, which puts no other ending on one that ended.
LEMMA OneEnding ==
    ASSUME Inductive,
           NEW t \in DOMAIN tasks, NEW new,
           IsEnded(tasks[t]) => new.state = tasks[t].state \/ ~ IsEnded(new),
           tasks' = [tasks EXCEPT ![t] = new]
    PROVE  KeepsEndings
<1>1. \A u \in DOMAIN tasks : tasks'[u] = IF u = t THEN new ELSE tasks[u]
    BY DEF Inductive, TypeOK
<1> QED
    BY <1>1 DEF KeepsEndings

\* A worker that answers late finds the ending there and leaves it.
LEMMA CarryKeepsEndings ==
    ASSUME Inductive, NEW t \in DOMAIN tasks, Carry(t)
    PROVE  KeepsEndings
<1>1. tasks[t] \in Task
    BY DEF Inductive, TypeOK
<1>2. CASE WorkArea(t)
    <2> DEFINE new == [tasks[t] EXCEPT !.worktree = TRUE]
    <2>1. new.state = tasks[t].state
        BY <1>1 DEF Task
    <2>2. tasks' = [tasks EXCEPT ![t] = new]
        BY <1>2 DEF WorkArea
    <2> HIDE DEF new
    <2> QED
        BY <2>1, <2>2, OneEnding
<1>3. ASSUME NEW end \in Ended, NEW consumed \in Observed \cup {NotYet},
             NEW conversed \in BOOLEAN, RunEnded(t, end, consumed, conversed)
      PROVE  KeepsEndings
    <2> DEFINE new == [Finished(tasks[t], end) EXCEPT !.consumed = consumed,
                                                      !.conversation = conversed]
    <2>1. /\ Finished(tasks[t], end) \in Task
          /\ IsEnded(tasks[t]) => Finished(tasks[t], end).state = tasks[t].state
        BY <1>1, FinishedTask
    <2>2. new.state = Finished(tasks[t], end).state
        BY <2>1 DEF Task
    <2>3. tasks' = [tasks EXCEPT ![t] = new]
        BY <1>3 DEF RunEnded
    <2> HIDE DEF new
    <2> QED
        BY <2>1, <2>2, <2>3, OneEnding
<1>4. ASSUME NEW consumed \in Observed, RunTurnedAway(t, consumed)
      PROVE  KeepsEndings
    <2> DEFINE new == [TurnedAway(tasks[t]) EXCEPT !.consumed = consumed]
    <2>1. TurnedAway(tasks[t]) \in Task /\ TurnedAway(tasks[t]).state = "Pending"
        BY <1>1, TurnedAwayTask
    <2>2. new.state = "Pending"
        BY <2>1 DEF Task
    <2>3. ~ IsEnded(new)
        BY <2>2 DEF IsEnded, Ended
    <2>4. tasks' = [tasks EXCEPT ![t] = new]
        BY <1>4 DEF RunTurnedAway
    <2> HIDE DEF new
    <2> QED
        BY <2>3, <2>4, OneEnding
<1> QED
    BY <1>2, <1>3, <1>4 DEF Carry

\* A person decides about an ending, or has the task wait again.
LEMMA AskKeepsEndings ==
    ASSUME Inductive, NEW t \in DOMAIN tasks, Ask(t)
    PROVE  KeepsEndings
<1>1. tasks[t] \in Task
    BY DEF Inductive, TypeOK
<1>2. CASE RemoveTask(t)
    <2>1. \A u \in DOMAIN tasks \ {t} : tasks[u] \in Task
        BY DEF Inductive, TypeOK
    <2>2. DOMAIN tasks' = DOMAIN tasks \ {t}
        BY <1>2 DEF RemoveTask, Remove
    <2>3. \A u \in DOMAIN tasks \ {t} : tasks'[u].state = tasks[u].state
        BY <1>2, <2>1 DEF RemoveTask, Remove, Task
    <2> QED
        BY <2>2, <2>3 DEF KeepsEndings
<1>3. ASSUME NEW what \in Disposition \ {"None"}, Dispose(t, what)
      PROVE  KeepsEndings
    <2>1. Disposed(tasks[t], what).state = tasks[t].state
        BY <1>1, DisposedTask
    <2> QED
        BY <1>3, <2>1, OneEnding DEF Dispose
<1>4. ASSUME NEW keeping \in BOOLEAN, WaitAgain(t, keeping)
      PROVE  KeepsEndings
    <2>1. WaitsAgain(tasks[t], keeping).state = "Pending"
        BY <1>1, WaitsAgainTask
    <2>2. ~ IsEnded(WaitsAgain(tasks[t], keeping))
        BY <2>1 DEF IsEnded, Ended
    <2> QED
        BY <1>4, <2>2, OneEnding DEF WaitAgain
<1> QED
    BY <1>2, <1>3, <1>4 DEF Ask

\* What is assigned was waiting, and what is interrupted was running.
LEMMA StepKeepsEndings == Inductive /\ [Next]_vars => KeepsEndings
<1> SUFFICES ASSUME Inductive, [Next]_vars PROVE KeepsEndings
    OBVIOUS
<1>1. ASSUME NEW after \in DOMAIN tasks \cup {NoTask}, AddTask(after) PROVE KeepsEndings
    <2>1. next_id \notin DOMAIN tasks
        BY DEF Inductive, TypeOK, Ordered, TaskId
    <2>2. \A u \in DOMAIN tasks : tasks'[u] = tasks[u]
        BY <1>1, <2>1 DEF AddTask, Add
    <2> QED
        BY <2>2 DEF KeepsEndings
<1>2. ASSUME NEW t \in DOMAIN tasks, Carry(t) PROVE KeepsEndings
    BY <1>2, CarryKeepsEndings
<1>3. ASSUME NEW t \in DOMAIN tasks, Ask(t) PROVE KeepsEndings
    BY <1>3, AskKeepsEndings
<1>4. ASSUME NEW S \in SUBSET DOMAIN tasks, WorkAreasGone(S) PROVE KeepsEndings
    <2>1. \A u \in DOMAIN tasks : tasks[u] \in Task
        BY DEF Inductive, TypeOK
    <2>2. \A u \in DOMAIN tasks : tasks'[u].state = tasks[u].state
        BY <1>4, <2>1 DEF WorkAreasGone, Task
    <2> QED
        BY <2>2 DEF KeepsEndings
<1>5. ASSUME NEW s \in Session, Interrupt(s) PROVE KeepsEndings
    <2>1. \A u \in DOMAIN tasks : tasks[u].state # "Running" => tasks'[u] = tasks[u]
        BY <1>5 DEF Interrupt, InterruptAll
    <2> QED
        BY <2>1 DEF KeepsEndings, IsEnded, Ended
<1>6. ASSUME NEW s \in Session, NEW S \in SUBSET Waiting(tasks),
             NEW allowed \in [S -> Ceiling], AssignAll(s, allowed)
      PROVE  KeepsEndings
    <2>1. \A u \in S : tasks[u].state = "Pending"
        BY DEF Waiting, Pending
    <2>2. \A u \in DOMAIN tasks \ S : tasks'[u] = tasks[u]
        BY <1>6 DEF AssignAll
    <2> QED
        BY <2>1, <2>2 DEF KeepsEndings, IsEnded, Ended
<1>7. CASE UNCHANGED vars
    BY <1>7 DEF vars, KeepsEndings
<1> QED
    BY <1>1, <1>2, <1>3, <1>4, <1>5, <1>6, <1>7 DEF Next

----------------------------------------------------------------------------
(* The theorems. *)

\* Whatever order the changes come in, the store holds tasks, each younger
\* than the one it waits for, under numbers that have been given out.
THEOREM BacklogInductive == Spec => []Inductive
BY InitInductive, StepInductive, PTL DEF Spec

\* The type of the store, which every other reader of it relies on.
THEOREM BacklogTypeOK == Spec => []TypeOK
<1>1. Inductive => TypeOK
    BY DEF Inductive
<1> QED
    BY <1>1, BacklogInductive, PTL

\* No order of commands and late answers leaves a store `restore` refuses
\* (task.rs:821-894).
THEOREM BacklogStaysRestorable == Spec => []StaysRestorable
BY OrderedIsRestorable, BacklogInductive, PTL

\* However late and however often workers answer, and whatever a person asks
\* in between, one ending is never replaced by another (task.rs:592-606).
THEOREM BacklogFirstAnswerStands == Spec => FirstAnswerStands
<1>1. Inductive /\ [Next]_vars =>
        [\A t \in DOMAIN tasks \cap DOMAIN tasks' :
            IsEnded(tasks[t]) /\ IsEnded(tasks'[t]) => tasks'[t].state = tasks[t].state]_vars
    BY StepKeepsEndings DEF KeepsEndings
<1> QED
    BY <1>1, BacklogInductive, PTL DEF Spec, FirstAnswerStands

\* Whatever else is added and taken out, two tasks that stay are in the order
\* they were in (task.rs:468-494).
THEOREM BacklogOrderKept == Spec => OrderKept
<1>1. Inductive /\ [Next]_vars =>
        [\A t, u \in DOMAIN tasks \cap DOMAIN tasks' :
            u \in Upstream(tasks', t) <=> u \in Upstream(tasks, t)]_vars
    BY StepInductive DEF KeepsOrder
<1> QED
    BY <1>1, BacklogInductive, PTL DEF Spec, OrderKept

\* A session told that it is blocked has a task that did not complete to
\* blame (cli.md:77).
THEOREM BacklogBlockedForAReason == Spec => []BlockedForAReason
BY OrderedIsBlockedForAReason, BacklogInductive, PTL

----------------------------------------------------------------------------
(* The loops that ask of a stored list whether it is a backlog. *)

LEMMA ElementsOf == ASSUME NEW S, NEW s \in Seq(S) PROVE \A j \in DOMAIN s : s[j] \in S
OBVIOUS

LEMMA SoMany == ASSUME NEW n \in Nat PROVE IsFiniteSet(1..n) /\ Cardinality(1..n) = n
BY FS_Interval

\* Each task the list has is there under its number, with what it waits for.
LEMMA StoredIs ==
    ASSUME RestoreTypeOK, Distinct
    PROVE  /\ DOMAIN Stored = {list[j].id : j \in DOMAIN list}
           /\ NoTask \notin DOMAIN Stored
           /\ \A j \in DOMAIN list :
                 /\ list[j].id \in DOMAIN Stored
                 /\ After(list[j].id) = list[j].after
                 /\ Stored[list[j].id].after = list[j].after
           /\ IsFiniteSet(DOMAIN Stored)
           /\ Cardinality(DOMAIN Stored) <= Len(list)
<1>1. list \in Seq([id : TaskId, after : Nat])
    BY ListsAssumption DEF RestoreTypeOK
<1>2. DOMAIN list = 1..Len(list) /\ Len(list) \in Nat
    BY <1>1
<1>3. \A j \in DOMAIN list : list[j].id \in TaskId
    <2>1. \A j \in DOMAIN list : list[j] \in [id : TaskId, after : Nat]
        BY <1>1, ElementsOf
    <2> QED
        BY <2>1
<1>4. DOMAIN Stored = {list[j].id : j \in DOMAIN list}
    BY DEF Stored
<1>5. ASSUME NEW j \in DOMAIN list
      PROVE  After(list[j].id) = list[j].after /\ Stored[list[j].id].after = list[j].after
    <2>1. Found(list[j].id) = {j}
        BY DEF Found, Distinct
    <2>2. j \in Nat
        BY <1>2
    <2>3. (CHOOSE m \in {j} : \A k \in {j} : m <= k) = j
        BY <2>2
    <2>4. After(list[j].id) = list[j].after
        BY <2>1, <2>3 DEF After
    <2>5. Stored[list[j].id] = Registered(After(list[j].id))
        BY <1>4 DEF Stored
    <2> QED
        BY <2>4, <2>5 DEF Registered
<1>6. IsFiniteSet(DOMAIN Stored) /\ Cardinality(DOMAIN Stored) <= Len(list)
    <2> DEFINE numbers == [j \in 1..Len(list) |-> list[j].id]
    <2>1. numbers \in Surjection(1..Len(list), DOMAIN Stored)
        BY <1>2, <1>4 DEF Surjection
    <2>2. IsFiniteSet(1..Len(list)) /\ Cardinality(1..Len(list)) = Len(list)
        BY <1>2, SoMany
    <2> HIDE DEF numbers
    <2> QED
        BY <2>1, <2>2, FS_Surjection
<1> QED
    BY <1>3, <1>4, <1>5, <1>6 DEF TaskId

\* Where every task is on no cycle there is none: of the least sets that do
\* not lead out of themselves, one would hold a smaller one.
LEMMA NoneIsOnACycle ==
    ASSUME IsFiniteSet(DOMAIN Stored), NoTask \notin DOMAIN Stored,
           \A t \in DOMAIN Stored : OnNoCycle(t)
    PROVE  NoCycle(Stored)
<1> DEFINE Rings == {C \in SUBSET DOMAIN Stored :
                        C # {} /\ \A t \in C : Stored[t].after \in C}
           sizes == {Cardinality(C) : C \in Rings}
<1> SUFFICES ASSUME Rings # {} PROVE FALSE
    BY DEF NoCycle
<1>1. \A C \in SUBSET DOMAIN Stored : IsFiniteSet(C) /\ Cardinality(C) \in Nat
    BY FS_Subset, FS_CardinalityType
<1>2. sizes \in SUBSET Nat /\ sizes # {}
    BY <1>1
<1>3. PICK least \in sizes : \A n \in sizes : least <= n
    BY <1>2, LeastNumber
<1>4. PICK C \in Rings : Cardinality(C) = least
    BY <1>3
<1>5. PICK t \in C : TRUE
    BY <1>4
<1>6. PICK V \in SUBSET DOMAIN Stored :
          t \notin V /\ \A v \in V \cup {t} : Stored[v].after \in V \cup {NoTask}
    BY <1>4, <1>5 DEF OnNoCycle
<1>7. \A v \in C : Stored[v].after \in C /\ Stored[v].after # NoTask
    BY <1>4
<1>8. C \cap V \in Rings
    <2>1. Stored[t].after \in C \cap V
        BY <1>5, <1>6, <1>7
    <2>2. \A v \in C \cap V : Stored[v].after \in C \cap V
        BY <1>6, <1>7
    <2> QED
        BY <2>1, <2>2, <1>4
<1>9. Cardinality(C \cap V) <= Cardinality(C) /\ Cardinality(C \cap V) # Cardinality(C)
    <2>1. IsFiniteSet(C) /\ C \cap V \in SUBSET C /\ C # C \cap V
        BY <1>1, <1>4, <1>5, <1>6
    <2> QED
        BY <2>1, FS_Subset
<1>10. least <= Cardinality(C \cap V)
    BY <1>3, <1>8
<1>11. Cardinality(C \cap V) \in Nat /\ Cardinality(C) \in Nat
    BY <1>1, <1>4, <1>8
<1> QED
    BY <1>4, <1>9, <1>10, <1>11

\* A way is a row of tasks, each waiting for the next.
LEMMA WayIs ==
    ASSUME NEW n \in Nat, NEW from, NEW to, NEW way, Walked(way, from, to, n)
    PROVE  /\ \A k \in 0..n : way[k] \in DOMAIN Stored
           /\ \A k \in 0..n : k # n => Stored[way[k]].after = way[k + 1] /\ k + 1 \in 1..n
           /\ \A k \in 1..n : way[k] # from
           /\ way[0] = from /\ way[n] = to
<1>1. ASSUME NEW k \in 0..n, k # n
      PROVE  Stored[way[k]].after = way[k + 1] /\ k + 1 \in 1..n
    <2>1. k + 1 \in 1..n /\ (k + 1) - 1 = k
        BY <1>1
    <2> QED
        BY <2>1 DEF Walked
<1> QED
    BY <1>1 DEF Walked

\* One that comes to a task that waits for none began on no cycle.
LEMMA EndedOnNoCycle ==
    ASSUME NEW n \in Nat, NEW from, NEW to, NEW way, Walked(way, from, to, n),
           Stored[to].after = NoTask
    PROVE  OnNoCycle(from)
<1> DEFINE V == {way[k] : k \in 1..n}
<1>1. V \in SUBSET DOMAIN Stored /\ from \notin V
    BY WayIs
<1>2. ASSUME NEW k \in 0..n PROVE Stored[way[k]].after \in V \cup {NoTask}
    BY <1>2, WayIs
<1>3. \A v \in V \cup {from} : \E k \in 0..n : v = way[k]
    BY WayIs
<1> HIDE DEF V
<1> QED
    BY <1>1, <1>2, <1>3 DEF OnNoCycle

\* One that takes as many steps as there are tasks has been somewhere twice,
\* and from there on only goes where it was.
LEMMA LongOnNoCycle ==
    ASSUME NEW n \in Nat, NEW from, NEW to, NEW way, Walked(way, from, to, n),
           IsFiniteSet(DOMAIN Stored), Cardinality(DOMAIN Stored) <= n
    PROVE  OnNoCycle(from)
<1>1. from \in DOMAIN Stored
    BY WayIs
<1>2. /\ IsFiniteSet(DOMAIN Stored \ {from})
      /\ Cardinality(DOMAIN Stored \ {from}) = Cardinality(DOMAIN Stored) - 1
    BY <1>1, FS_RemoveElement
<1>3. Cardinality(DOMAIN Stored) \in Nat
    BY FS_CardinalityType
<1>4. IsFiniteSet(1..n) /\ Cardinality(1..n) = n
    BY SoMany
<1>5. Cardinality(DOMAIN Stored \ {from}) < Cardinality(1..n)
    BY <1>2, <1>3, <1>4
<1> DEFINE on == [k \in 1..n |-> way[k]]
<1>6. on \in [1..n -> DOMAIN Stored \ {from}]
    BY WayIs
<1>7. \E x, y \in 1..n : x # y /\ on[x] = on[y]
    <2> HIDE DEF on
    <2> QED
        BY <1>2, <1>4, <1>5, <1>6, FS_PigeonHole
<1>8. PICK x, y \in 1..n : x < y /\ way[x] = way[y]
    <2>1. PICK a, b \in 1..n : a # b /\ way[a] = way[b]
        BY <1>7
    <2>2. a < b \/ b < a
        BY <2>1
    <2> QED
        BY <2>1, <2>2
<1> DEFINE V == {way[k] : k \in 1..y}
<1>9. V \in SUBSET DOMAIN Stored /\ from \notin V
    BY WayIs
<1>10. ASSUME NEW k \in 0..y PROVE Stored[way[k]].after \in V
    <2>1. CASE k < y
        <3>1. k \in 0..n /\ k # n /\ k + 1 \in 1..y
            BY <2>1
        <3> QED
            BY <3>1, WayIs
    <2>2. CASE k = y
        <3>1. x \in 0..n /\ x # n /\ x + 1 \in 1..y
            BY <1>8
        <3>2. Stored[way[x]].after = way[x + 1]
            BY <3>1, WayIs
        <3> QED
            BY <2>2, <3>1, <3>2, <1>8
    <2> QED
        BY <2>1, <2>2
<1>11. \A v \in V \cup {from} : \E k \in 0..y : v = way[k]
    BY WayIs
<1> HIDE DEF V
<1> QED
    BY <1>9, <1>10, <1>11 DEF OnNoCycle

\* One that comes back has gone round a cycle.
LEMMA BackIsACycle ==
    ASSUME NEW n \in Nat, NEW from, NEW to, NEW way, Walked(way, from, to, n),
           Stored[to].after = from
    PROVE  ~ NoCycle(Stored)
<1> DEFINE C == {way[k] : k \in 0..n}
<1>1. C \in SUBSET DOMAIN Stored /\ from \in C
    BY WayIs
<1>2. ASSUME NEW k \in 0..n PROVE Stored[way[k]].after \in C
    <2>1. CASE k = n
        BY <1>1, <2>1, WayIs
    <2>2. CASE k # n
        <3>1. k + 1 \in 0..n /\ Stored[way[k]].after = way[k + 1]
            BY <2>2, WayIs
        <3> QED
            BY <3>1
    <2> QED
        BY <2>1, <2>2
<1> QED
    BY <1>1, <1>2 DEF NoCycle

\* One step more.
LEMMA WalkedOn ==
    ASSUME NEW n \in Nat, NEW from, NEW to, NEW way, Walked(way, from, to, n),
           Stored[to].after \in DOMAIN Stored, Stored[to].after # from
    PROVE  \E on \in [0..(n + 1) -> DOMAIN Stored] : Walked(on, from, Stored[to].after, n + 1)
<1> DEFINE on == [k \in 0..(n + 1) |-> IF k = n + 1 THEN Stored[to].after ELSE way[k]]
<1>1. on \in [0..(n + 1) -> DOMAIN Stored]
    BY WayIs
<1>2. on[0] = from /\ on[n + 1] = Stored[to].after
    BY WayIs
<1>3. ASSUME NEW k \in 1..(n + 1)
      PROVE  on[k] = Stored[on[k - 1]].after /\ on[k] # from
    <2>1. CASE k = n + 1
        <3>1. on[k] = Stored[to].after /\ on[k - 1] = way[n] /\ way[n] = to
            BY <2>1, WayIs
        <3> QED
            BY <3>1
    <2>2. CASE k # n + 1
        <3>1. k \in 1..n /\ k - 1 \in 0..n
            BY <2>2
        <3>2. on[k] = way[k] /\ on[k - 1] = way[k - 1]
            BY <3>1
        <3> QED
            BY <3>1, <3>2 DEF Walked
    <2> QED
        BY <2>1, <2>2
<1> HIDE DEF on
<1> QED
    BY <1>1, <1>2, <1>3 DEF Walked

\* The list is never written to, so what is said of it stays.
LEMMA SameList ==
    ASSUME UNCHANGED list
    PROVE  /\ Stored' = Stored
           /\ Distinct' <=> Distinct
           /\ NoCycle(Stored)' <=> NoCycle(Stored)
           /\ PredecessorsExist(Stored)' <=> PredecessorsExist(Stored)
<1>1. Stored' = Stored
    BY DEF Stored, After, Found
<1> QED
    BY <1>1 DEF Distinct, NoCycle, PredecessorsExist

LEMMA SameTypes ==
    ASSUME RestoreTypeOK, UNCHANGED <<list, i>>, steps' \in Nat,
           asking' \in {"repeated", "predecessor", "cycle", "ok"} \cup Refusals
    PROVE  RestoreTypeOK'
BY DEF RestoreTypeOK

\* A question is asked of the next task, or all have been asked it and the
\* next question is asked of the first.
LEMMA MovedOn ==
    ASSUME RestoreTypeOK, NEW next \in {"predecessor", "cycle", "ok"}, MovesOn(next)
    PROVE  /\ RestoreTypeOK'
           /\ UNCHANGED list
           /\ steps' = 0
           /\ asking' = "cycle" /\ i' \in DOMAIN list => at' = list[i'].id
           /\ \/ asking' = next /\ Asked' = {} /\ DOMAIN list \subseteq Asked \cup {i}
              \/ asking' = asking /\ i \in DOMAIN list /\ Asked' = Asked \cup {i}
<1>1. list \in Seq([id : TaskId, after : Nat])
    BY ListsAssumption DEF RestoreTypeOK
<1>2. DOMAIN list = 1..Len(list) /\ Len(list) \in Nat
    BY <1>1
<1>3. i \in Nat /\ i >= 1 /\ (i \in 1..Len(list) \/ (list = <<>> /\ i = 1))
    BY <1>2 DEF RestoreTypeOK
<1>4. list' = list /\ steps' = 0
    BY DEF MovesOn
<1>5. asking' = "cycle" /\ i' \in DOMAIN list => at' = list[i'].id
    BY DEF MovesOn
<1>6. CASE i >= Len(list)
    <2>1. asking' = next /\ i' = 1
        BY <1>6 DEF MovesOn
    <2>2. Asked' = {}
        BY <1>2, <1>4, <2>1 DEF Asked
    <2>3. DOMAIN list \subseteq Asked \cup {i}
        BY <1>2, <1>3, <1>6 DEF Asked
    <2>4. 1 \in DOMAIN list \/ list = <<>>
        BY <1>2, <1>3
    <2>5. RestoreTypeOK'
        BY <1>4, <2>1, <2>4 DEF RestoreTypeOK
    <2> QED
        BY <1>4, <1>5, <2>1, <2>2, <2>3, <2>5
<1>7. CASE ~ (i >= Len(list))
    <2>1. asking' = asking /\ i' = i + 1
        BY <1>7 DEF MovesOn
    <2>2. i \in DOMAIN list /\ i + 1 \in DOMAIN list
        BY <1>2, <1>3, <1>7
    <2>3. Asked' = Asked \cup {i}
        BY <1>2, <1>3, <1>4, <2>1, <2>2 DEF Asked
    <2>4. RestoreTypeOK'
        BY <1>4, <2>1, <2>2 DEF RestoreTypeOK
    <2> QED
        BY <1>4, <1>5, <2>1, <2>2, <2>3, <2>4
<1> QED
    BY <1>6, <1>7

\* A walk that has not begun is where it starts.
LEMMA WalkBegins ==
    ASSUME NEW t \in DOMAIN Stored
    PROVE  \E way \in [0..0 -> DOMAIN Stored] : Walked(way, t, t, 0)
<1> DEFINE way == [k \in 0..0 |-> t]
<1>1. way \in [0..0 -> DOMAIN Stored] /\ way[0] = t /\ 1..0 = {}
    OBVIOUS
<1> HIDE DEF way
<1> QED
    BY <1>1 DEF Walked

LEMMA RepeatedKeeps ==
    ASSUME RestoreInductive, NoRepeatedId
    PROVE  RestoreInductive'
<1>1. RestoreTypeOK /\ asking = "repeated"
      /\ \A j, k \in Asked : list[j].id = list[k].id => j = k
    BY DEF RestoreInductive, NoRepeatedId
<1>2. CASE i \in DOMAIN list /\ \E j \in 1..(i - 1) : list[j].id = list[i].id
    <2>1. asking' = "RepeatedId" /\ UNCHANGED <<list, i, at, steps>>
        BY <1>2 DEF NoRepeatedId, Answers
    <2>2. RestoreTypeOK'
        BY <1>1, <2>1, SameTypes DEF RestoreTypeOK, Refusals
    <2>3. PICK j \in 1..(i - 1) : list[j].id = list[i].id
        BY <1>2
    <2>4. list \in Seq([id : TaskId, after : Nat])
        BY <1>1, ListsAssumption DEF RestoreTypeOK
    <2>5. DOMAIN list = 1..Len(list) /\ Len(list) \in Nat
        BY <2>4
    <2>6. j \in DOMAIN list /\ j # i
        BY <1>2, <2>5
    <2>7. ~ Distinct
        BY <1>2, <2>3, <2>6 DEF Distinct
    <2> QED
        BY <2>1, <2>2, <2>7, SameList DEF RestoreInductive
<1>3. CASE ~ (i \in DOMAIN list /\ \E j \in 1..(i - 1) : list[j].id = list[i].id)
    <2>1. MovesOn("predecessor")
        BY <1>3 DEF NoRepeatedId
    <2>2. /\ RestoreTypeOK'
          /\ UNCHANGED list
          /\ \/ asking' = "predecessor" /\ Asked' = {} /\ DOMAIN list \subseteq Asked \cup {i}
             \/ asking' = "repeated" /\ i \in DOMAIN list /\ Asked' = Asked \cup {i}
        BY <1>1, <2>1, MovedOn
    <2>3. list \in Seq([id : TaskId, after : Nat])
        BY <1>1, ListsAssumption DEF RestoreTypeOK
    <2>4. DOMAIN list = 1..Len(list) /\ Len(list) \in Nat
        BY <2>3
    <2>5. i \in DOMAIN list => \A j \in Asked : list[j].id # list[i].id
        <3> SUFFICES ASSUME i \in DOMAIN list, NEW j \in Asked, list[j].id = list[i].id
                     PROVE  FALSE
            OBVIOUS
        <3>1. j \in 1..(i - 1)
            BY <2>4 DEF Asked
        <3> QED
            BY <1>3, <3>1
    <2>6. \A j, k \in DOMAIN list : j \in Asked \cup {i} /\ k \in Asked \cup {i} /\ list[j].id = list[k].id => j = k
        BY <1>1, <2>5
    <2>7. CASE asking' = "predecessor" /\ Asked' = {} /\ DOMAIN list \subseteq Asked \cup {i}
        <3>1. Distinct
            BY <2>6, <2>7 DEF Distinct
        <3> QED
            BY <2>2, <2>7, <3>1, SameList DEF RestoreInductive
    <2>8. CASE asking' = "repeated" /\ i \in DOMAIN list /\ Asked' = Asked \cup {i}
        <3>1. \A j \in Asked' : j \in DOMAIN list
            BY <2>8 DEF Asked
        <3>2. \A j, k \in Asked' : list[j].id = list[k].id => j = k
            BY <2>6, <2>8, <3>1
        <3> QED
            BY <2>2, <2>8, <3>2 DEF RestoreInductive
    <2> QED
        BY <2>2, <2>7, <2>8
<1> QED
    BY <1>2, <1>3

\* The next question, once the numbers are known to be distinct.
LEMMA PredecessorKeeps ==
    ASSUME RestoreInductive, EveryPredecessorExists
    PROVE  RestoreInductive'
<1>1. /\ RestoreTypeOK /\ Distinct /\ asking = "predecessor"
      /\ \A j \in Asked : list[j].after \in DOMAIN Stored \cup {NoTask}
    BY DEF RestoreInductive, EveryPredecessorExists
<1>2. /\ DOMAIN Stored = {list[j].id : j \in DOMAIN list}
      /\ \A j \in DOMAIN list :
            list[j].id \in DOMAIN Stored /\ Stored[list[j].id].after = list[j].after
    BY <1>1, StoredIs
<1>3. CASE i \in DOMAIN list /\ list[i].after # NoTask /\ Found(list[i].after) = {}
    <2>1. asking' = "NoSuchPredecessor" /\ UNCHANGED <<list, i, at, steps>>
        BY <1>3 DEF EveryPredecessorExists, Answers
    <2>2. RestoreTypeOK'
        BY <1>1, <2>1, SameTypes DEF RestoreTypeOK, Refusals
    <2>3. list[i].after \notin DOMAIN Stored
        BY <1>2, <1>3 DEF Found
    <2>4. ~ PredecessorsExist(Stored)
        BY <1>2, <1>3, <2>3 DEF PredecessorsExist
    <2> QED
        BY <1>1, <2>1, <2>2, <2>4, SameList DEF RestoreInductive
<1>4. CASE ~ (i \in DOMAIN list /\ list[i].after # NoTask /\ Found(list[i].after) = {})
    <2>1. MovesOn("cycle")
        BY <1>4 DEF EveryPredecessorExists
    <2>2. /\ RestoreTypeOK'
          /\ UNCHANGED list
          /\ steps' = 0
          /\ asking' = "cycle" /\ i' \in DOMAIN list => at' = list[i'].id
          /\ \/ asking' = "cycle" /\ Asked' = {} /\ DOMAIN list \subseteq Asked \cup {i}
             \/ asking' = "predecessor" /\ i \in DOMAIN list /\ Asked' = Asked \cup {i}
        BY <1>1, <2>1, MovedOn
    <2>3. i \in DOMAIN list => list[i].after \in DOMAIN Stored \cup {NoTask}
        BY <1>2, <1>4 DEF Found
    <2>4. Stored' = Stored /\ Distinct'
        BY <1>1, <2>2, SameList
    <2>5. CASE asking' = "cycle" /\ Asked' = {} /\ DOMAIN list \subseteq Asked \cup {i}
        <3>1. \A j \in DOMAIN list : list[j].after \in DOMAIN Stored \cup {NoTask}
            BY <1>1, <2>3, <2>5
        <3>2. PredecessorsExist(Stored)
            BY <1>2, <3>1 DEF PredecessorsExist
        <3>3. PredecessorsExist(Stored)'
            BY <2>2, <3>2, SameList
        <3>4. ASSUME i' \in DOMAIN list
              PROVE  \E way \in [0..0 -> DOMAIN Stored] : Walked(way, list[i'].id, list[i'].id, 0)
            BY <1>2, <3>4, WalkBegins
        <3>5. (i \in DOMAIN list =>
                  \E way \in [0..steps -> DOMAIN Stored] : Walked(way, list[i].id, at, steps))'
            BY <2>2, <2>4, <2>5, <3>4 DEF Walked
        <3>6. (\A j \in Asked : OnNoCycle(list[j].id))'
            BY <2>5
        <3> QED
            BY <2>2, <2>4, <2>5, <3>3, <3>5, <3>6 DEF RestoreInductive
    <2>6. CASE asking' = "predecessor" /\ i \in DOMAIN list /\ Asked' = Asked \cup {i}
        <3>1. \A j \in Asked' : list[j].after \in DOMAIN Stored \cup {NoTask}
            BY <1>1, <2>3, <2>6
        <3> QED
            BY <2>2, <2>4, <2>6, <3>1 DEF RestoreInductive
    <2> QED
        BY <2>2, <2>5, <2>6
<1> QED
    BY <1>3, <1>4

\* The walk that leaves the task it is asked of where it is.
LEMMA WalkKeeps ==
    ASSUME RestoreInductive, asking = "cycle", i \in DOMAIN list, Leads, StepOn
    PROVE  RestoreInductive'
<1>1. RestoreTypeOK /\ Distinct /\ PredecessorsExist(Stored)
    BY DEF RestoreInductive
<1>2. PICK way \in [0..steps -> DOMAIN Stored] : Walked(way, list[i].id, at, steps)
    BY DEF RestoreInductive
<1>3. steps \in Nat
    BY <1>1 DEF RestoreTypeOK
<1>4. at \in DOMAIN Stored
    BY <1>2, <1>3, WayIs
<1>5. PICK j \in DOMAIN list : at = list[j].id
    BY <1>1, <1>4, StoredIs
<1>6. After(at) = Stored[at].after
    BY <1>1, <1>5, StoredIs
<1>7. After(at) \in DOMAIN Stored
    BY <1>1, <1>4, <1>6 DEF PredecessorsExist, Leads
<1>8. CASE After(at) = list[i].id
    <2>1. asking' = "Cycle" /\ UNCHANGED <<list, i, at, steps>>
        BY <1>8 DEF StepOn, Answers
    <2>2. RestoreTypeOK'
        BY <1>1, <2>1, SameTypes DEF RestoreTypeOK, Refusals
    <2>3. ~ NoCycle(Stored)
        BY <1>2, <1>3, <1>6, <1>8, BackIsACycle
    <2> QED
        BY <1>1, <2>1, <2>2, <2>3, SameList DEF RestoreInductive
<1>9. CASE After(at) # list[i].id
    <2>1. at' = After(at) /\ steps' = steps + 1 /\ UNCHANGED <<list, asking, i>>
        BY <1>9 DEF StepOn
    <2>2. RestoreTypeOK'
        BY <1>1, <1>3, <2>1 DEF RestoreTypeOK
    <2>3. \E on \in [0..(steps + 1) -> DOMAIN Stored] : Walked(on, list[i].id, Stored[at].after, steps + 1)
        BY <1>2, <1>3, <1>6, <1>7, <1>9, WalkedOn
    <2>4. Stored' = Stored
        BY <2>1, SameList
    <2>5. (\E on \in [0..steps -> DOMAIN Stored] : Walked(on, list[i].id, at, steps))'
        BY <1>6, <2>1, <2>3, <2>4 DEF Walked
    <2>6. (\A k \in Asked : OnNoCycle(list[k].id))'
        BY <2>1, <2>4 DEF RestoreInductive, Asked, OnNoCycle
    <2>7. Distinct' /\ PredecessorsExist(Stored)'
        BY <1>1, <2>1, SameList
    <2> QED
        BY <2>1, <2>2, <2>5, <2>6, <2>7 DEF RestoreInductive
<1> QED
    BY <1>8, <1>9

\* A task whose walk comes to an end, or goes on for as many steps as there
\* are tasks, is on no cycle.
LEMMA CycleKeeps ==
    ASSUME RestoreInductive, NoCycleFound
    PROVE  RestoreInductive'
<1>1. RestoreTypeOK /\ Distinct /\ PredecessorsExist(Stored) /\ asking = "cycle"
    BY DEF RestoreInductive, NoCycleFound
<1>2. CASE i \in DOMAIN list /\ steps < Len(list) /\ Leads
    BY <1>1, <1>2, WalkKeeps DEF NoCycleFound
<1>3. CASE ~ (i \in DOMAIN list /\ steps < Len(list) /\ Leads)
    <2>1. MovesOn("ok")
        BY <1>3 DEF NoCycleFound
    <2>2. /\ RestoreTypeOK'
          /\ UNCHANGED list
          /\ steps' = 0
          /\ asking' = "cycle" /\ i' \in DOMAIN list => at' = list[i'].id
          /\ \/ asking' = "ok" /\ Asked' = {} /\ DOMAIN list \subseteq Asked \cup {i}
             \/ asking' = "cycle" /\ i \in DOMAIN list /\ Asked' = Asked \cup {i}
        BY <1>1, <2>1, MovedOn
    <2>3. i \in DOMAIN list => OnNoCycle(list[i].id)
        <3> SUFFICES ASSUME i \in DOMAIN list PROVE OnNoCycle(list[i].id)
            OBVIOUS
        <3>1. PICK way \in [0..steps -> DOMAIN Stored] : Walked(way, list[i].id, at, steps)
            BY <1>1 DEF RestoreInductive
        <3>2. steps \in Nat
            BY <1>1 DEF RestoreTypeOK
        <3>3. at \in DOMAIN Stored
            BY <3>1, <3>2, WayIs
        <3>4. PICK j \in DOMAIN list : at = list[j].id
            BY <1>1, <3>3, StoredIs
        <3>5. After(at) = Stored[at].after /\ at # NoTask
            BY <1>1, <3>3, <3>4, StoredIs
        <3>6. CASE ~ Leads
            BY <3>1, <3>2, <3>5, <3>6, EndedOnNoCycle DEF Leads
        <3>7. CASE steps >= Len(list)
            <4>1. list \in Seq([id : TaskId, after : Nat])
                BY <1>1, ListsAssumption DEF RestoreTypeOK
            <4>2. Len(list) \in Nat
                BY <4>1
            <4>3. IsFiniteSet(DOMAIN Stored) /\ Cardinality(DOMAIN Stored) <= Len(list)
                BY <1>1, StoredIs
            <4>4. Cardinality(DOMAIN Stored) \in Nat
                BY <4>3, FS_CardinalityType
            <4>5. Cardinality(DOMAIN Stored) <= steps
                BY <3>2, <3>7, <4>2, <4>3, <4>4
            <4> QED
                BY <3>1, <3>2, <4>3, <4>5, LongOnNoCycle
        <3>8. Len(list) \in Nat
            <4>1. list \in Seq([id : TaskId, after : Nat])
                BY <1>1, ListsAssumption DEF RestoreTypeOK
            <4> QED
                BY <4>1
        <3> QED
            BY <1>3, <3>2, <3>6, <3>7, <3>8
    <2>4. Stored' = Stored /\ Distinct' /\ PredecessorsExist(Stored)'
        BY <1>1, <2>2, SameList
    <2>5. \A j \in Asked : OnNoCycle(list[j].id)
        BY <1>1 DEF RestoreInductive
    <2>6. CASE asking' = "ok" /\ Asked' = {} /\ DOMAIN list \subseteq Asked \cup {i}
        <3>1. \A t \in DOMAIN Stored : OnNoCycle(t)
            <4>1. \A j \in DOMAIN list : OnNoCycle(list[j].id)
                BY <2>3, <2>5, <2>6
            <4> QED
                BY <1>1, <4>1, StoredIs
        <3>2. NoCycle(Stored)
            BY <1>1, <3>1, StoredIs, NoneIsOnACycle
        <3>3. NoCycle(Stored)'
            BY <2>2, <3>2, SameList
        <3> QED
            BY <2>2, <2>4, <2>6, <3>3 DEF RestoreInductive
    <2>7. CASE asking' = "cycle" /\ i \in DOMAIN list /\ Asked' = Asked \cup {i}
        <3>1. \A j \in Asked' : OnNoCycle(list[j].id)
            BY <2>3, <2>5, <2>7
        <3>2. (\A j \in Asked : OnNoCycle(list[j].id))'
            BY <2>2, <2>4, <3>1 DEF OnNoCycle
        <3>3. ASSUME i' \in DOMAIN list
              PROVE  \E way \in [0..0 -> DOMAIN Stored] : Walked(way, list[i'].id, list[i'].id, 0)
            <4>1. list[i'].id \in DOMAIN Stored
                BY <1>1, <3>3, StoredIs
            <4> QED
                BY <4>1, WalkBegins
        <3>4. (i \in DOMAIN list =>
                  \E way \in [0..steps -> DOMAIN Stored] : Walked(way, list[i].id, at, steps))'
            BY <2>2, <2>4, <2>7, <3>3 DEF Walked
        <3> QED
            BY <2>2, <2>4, <2>7, <3>2, <3>4 DEF RestoreInductive
    <2> QED
        BY <2>2, <2>6, <2>7
<1> QED
    BY <1>2, <1>3

\* Reading a store back: what each loop of `restore` has found out of the list
\* it walks (task.rs:848-894), for lists of any length.
THEOREM RestoringInductive == RestoreSpec => []RestoreInductive
<1>1. RestoreInit => RestoreInductive
    <2> SUFFICES ASSUME RestoreInit PROVE RestoreInductive
        OBVIOUS
    <2>1. list \in Seq([id : TaskId, after : Nat])
        BY ListsAssumption DEF RestoreInit
    <2>2. DOMAIN list = 1..Len(list) /\ Len(list) \in Nat /\ (Len(list) = 0 => list = <<>>)
        BY <2>1
    <2>3. 1 \in DOMAIN list \/ list = <<>>
        BY <2>2
    <2>4. RestoreTypeOK
        BY <2>3 DEF RestoreInit, RestoreTypeOK
    <2>5. Asked = {}
        BY <2>2 DEF RestoreInit, Asked
    <2> QED
        BY <2>4, <2>5 DEF RestoreInit, RestoreInductive
<1>2. RestoreInductive /\ [RestoreNext]_restoreVars => RestoreInductive'
    <2> SUFFICES ASSUME RestoreInductive, [RestoreNext]_restoreVars PROVE RestoreInductive'
        OBVIOUS
    <2>1. CASE RestoreNext
        BY <2>1, RepeatedKeeps, PredecessorKeeps, CycleKeeps DEF RestoreNext
    <2>2. CASE UNCHANGED restoreVars
        <3>1. UNCHANGED <<list, asking, i, at, steps>>
            BY <2>2 DEF restoreVars
        <3>2. RestoreTypeOK'
            BY <3>1 DEF RestoreInductive, RestoreTypeOK
        <3>3. Stored' = Stored /\ Asked' = Asked
            BY <3>1, SameList DEF Asked
        <3> QED
            BY <3>1, <3>2, <3>3, SameList DEF RestoreInductive, OnNoCycle, Walked
    <2> QED
        BY <2>1, <2>2
<1> QED
    BY <1>1, <1>2, PTL DEF RestoreSpec

\* The loops of `restore` take back exactly the lists that are backlogs, and
\* give the reason that is true of the others, whatever a person wrote into
\* the file: walking as many steps as there are tasks is enough
\* (task.rs:877-879).
THEOREM RestoringAcceptsExactly == RestoreSpec => []AcceptsExactly
<1>1. RestoreInductive => AcceptsExactly
    BY DEF RestoreInductive, AcceptsExactly, Restorable
<1> QED
    BY <1>1, RestoringInductive, PTL
============================================================================
