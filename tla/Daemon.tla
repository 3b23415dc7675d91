------------------------------- MODULE Daemon -------------------------------
(***************************************************************************)
(* The threads of cisternd, step by step: the workers that carry a task    *)
(* from the queue to its end (core/service/work.rs), the handlers that     *)
(* answer `run` and `interrupt` (core/service/execution.rs), the thread    *)
(* that watches the deadline (main.rs), and the two procedures all three   *)
(* share, `settle` and `stop` (core/service/supervision.rs).               *)
(*                                                                         *)
(* One step is one hold of a lock (the backlog store's, the session        *)
(* store's, the queue's, the agent's map of groups) or one call outside;   *)
(* between two steps of a thread any other thread, and any person, may     *)
(* step.  What a thread holds between steps is its frame.                  *)
(*                                                                         *)
(* Sessions here declare a count of tokens; what is measured for a share   *)
(* is module Sessions'.  What is known of past runs is a figure chosen at  *)
(* each decision, the same for every task, and no pace: the ledger it      *)
(* comes from is not modelled, and module Allowing asks every figure.      *)
(***************************************************************************)
EXTENDS Tasks, Deciding

S == INSTANCE SessionSet

CONSTANTS Workers, Handlers, Clock,  \* the threads
          Commands,      \* what people ask for here
          Failing,       \* the calls that may fail here
          Declared,      \* what a session may declare
          Costs,         \* what runs may be known to cost, or NoFigure
          Observed,      \* what may be known of what a run consumed
          Talks,         \* whether a run that did not finish left a conversation
          LastTask, LastSession, MostAttempts, MostCrashes   \* bounds

ASSUME ThreadAssumption ==
    /\ IsFiniteSet(Workers) /\ Workers # {} /\ Clock \notin Workers \cup Handlers
    /\ Workers \cap Handlers = {}
ASSUME InputAssumption ==
    /\ Commands \subseteq {"add", "rm", "run", "interrupt", "retry", "resume", "discard"}
    /\ Failing \subseteq {"store", "area", "trace", "spawn", "append", "ledger", "record"}
    /\ Declared \subseteq Nat \ {0}
    /\ \A cost \in Costs : cost \in Seq(Nat) /\ Len(cost) \in {0, 2}
    /\ Observed \subseteq Observation \ {NotYet}
    /\ Talks \subseteq BOOLEAN
ASSUME BoundAssumption ==
    /\ LastTask \in Nat /\ LastSession \in Nat
    /\ MostAttempts \in Nat /\ MostCrashes \in Nat

VARIABLES tasks, next_id,           \* the backlog store
          sessions, next_session,   \* the session store
          late,      \* the sessions that have had the time they declared
          queue,     \* tasks waiting for a worker
          running,   \* the agent's map: which group works on a task
          alive,     \* the groups that are alive, each named for its worker
          orphans,   \* tasks whose agents a core that died left running
          th,        \* each thread's frame
          crashes    \* how many times the core has died

store == <<tasks, next_id>>
held == <<sessions, next_session>>
agents == <<running, alive, orphans>>
vars == <<tasks, next_id, sessions, next_session, late, queue, running, alive,
          orphans, th, crashes>>

Thread == Workers \cup Handlers \cup {Clock}
AtOnce == Cardinality(Workers)
Nobody == "nobody"

\* A frame: where the thread is, and what it holds there.
Idle == [at |-> "idle", task |-> NoTask, attempt |-> 0, session |-> NoSession,
         late |-> FALSE, spent |-> 0, why |-> S!NoReason, todo |-> <<>>,
         end |-> "Error", consumed |-> NotYet, talked |-> FALSE]

Frame(x) == th[x]
Goes(x, frame) == th' = [th EXCEPT ![x] = frame]
At(x, label) == [th[x] EXCEPT !.at = label]
Rests(x) == Goes(x, Idle)

Init ==
    /\ tasks = [t \in {} |-> Registered(NoTask)]
    /\ next_id = 1
    /\ sessions = [s \in {} |-> S!Opened("Tokens", 1, 0)]
    /\ next_session = 1
    /\ late = {}
    /\ queue = <<>>
    /\ running = [t \in 1..LastTask |-> Nobody]
    /\ alive = {}
    /\ orphans = {}
    /\ th = [x \in Thread |-> Idle]
    /\ crashes = 0

\* A call that may fail gives up what the thread was doing, and nobody is told.
Fails(call, x) == call \in Failing /\ Rests(x) /\ UNCHANGED <<store, held, queue, agents>>

----------------------------------------------------------------------------
(* A worker carries a task: `carrying`. *)

Take(w) ==
    /\ Frame(w).at = "idle"
    /\ queue # <<>>
    /\ Goes(w, [Idle EXCEPT !.at = "read", !.task = Head(queue)])
    /\ queue' = Tail(queue)
    /\ UNCHANGED <<store, held, agents>>

\* A task queued before its session stopped is still on the queue when a
\* worker reaches it.
ReadTask(w) ==
    LET t == Frame(w).task
    IN  /\ Frame(w).at = "read"
        /\ IF t \in DOMAIN tasks /\ tasks[t].state = "Running"
           THEN Goes(w, [Frame(w) EXCEPT !.at = "prepare", !.attempt = tasks[t].attempts])
           ELSE Rests(w)
        /\ UNCHANGED <<store, held, queue, agents>>

\* The task ends with nothing having run.
NothingRan(w) ==
    Goes(w, [Frame(w) EXCEPT !.at = "end", !.end = "Error", !.consumed = NotYet,
                             !.talked = FALSE])

\* `prepare`: cutting a work area, which git may refuse.
Prepare(w) ==
    /\ Frame(w).at = "prepare"
    /\ \/ Goes(w, At(w, "note"))
       \/ "area" \in Failing /\ NothingRan(w)
    /\ UNCHANGED <<store, held, queue, agents>>

\* `work_area`
NoteArea(w) ==
    LET t == Frame(w).task
    IN  /\ Frame(w).at = "note"
        /\ tasks' = IF t \in DOMAIN tasks THEN [tasks EXCEPT ![t].worktree = TRUE] ELSE tasks
        /\ Goes(w, At(w, "spawn"))
        /\ UNCHANGED <<next_id, held, queue, agents>>

\* The agent is started, and only then is its group put on the map.
Spawn(w) ==
    /\ Frame(w).at = "spawn"
    /\ \/ alive' = alive \cup {w} /\ Goes(w, At(w, "register"))
       \/ "spawn" \in Failing /\ NothingRan(w) /\ UNCHANGED alive
    /\ UNCHANGED <<store, held, queue, running, orphans>>

\* `went`
Register(w) ==
    /\ Frame(w).at = "register"
    /\ running' = [running EXCEPT ![Frame(w).task] = w]
    /\ Goes(w, At(w, "wait"))
    /\ UNCHANGED <<store, held, queue, alive, orphans>>

CameTo(w, end, consumed, talked) ==
    Goes(w, [Frame(w) EXCEPT !.at = "end", !.end = end, !.consumed = consumed,
                             !.talked = talked])

\* What a run comes to is read from what the agent left, which an agent that was
\* ended while it was coming to its own end may have left all of.
Outcome(w) ==
    \E consumed \in Observed :
        \/ CameTo(w, "Completed", consumed, FALSE)
        \/ \E talked \in Talks, end \in {"Interrupted", "Error"} :
              CameTo(w, end, consumed, talked)
        \/ Goes(w, [Frame(w) EXCEPT !.at = "turn", !.consumed = consumed])

\* `gone` takes off the map whatever group is on it under the task's name.
Gone(w) == running' = [running EXCEPT ![Frame(w).task] = Nobody]

\* The agent comes to an end by itself.
AgentEnds(w) ==
    /\ Frame(w).at = "wait"
    /\ w \in alive
    /\ alive' = alive \ {w}
    /\ Gone(w)
    /\ Outcome(w)
    /\ UNCHANGED <<store, held, queue, orphans>>

\* The agent was ended by whoever stopped the session.
KilledReturns(w) ==
    /\ Frame(w).at = "wait"
    /\ w \notin alive
    /\ Gone(w)
    /\ Outcome(w)
    /\ UNCHANGED <<store, held, queue, alive, orphans>>

\* Where a worker goes once the run is written down, for the session that
\* holds the task by then.
Onward(w, label) ==
    LET t == Frame(w).task
        s == IF t \in DOMAIN tasks THEN tasks[t].session ELSE NoSession
    IN  \/ s # NoSession /\ Goes(w, [Idle EXCEPT !.at = label, !.session = s,
                                        !.why = IF label = "stopread" THEN "vendor limit"
                                                ELSE S!NoReason])
        \/ (s = NoSession \/ "append" \in Failing) /\ Rests(w)

\* A slip of the next: the task is not looked at again once its agent ended,
\* so whatever became of it meanwhile, it is a run that ended.
EndTask_Unasked(w) ==
    LET t == Frame(w).task
    IN  /\ Frame(w).at = "end"
        /\ tasks' = IF t \notin DOMAIN tasks THEN tasks
                    ELSE [tasks EXCEPT ![t] =
                            [@ EXCEPT !.state = Frame(w).end,
                                      !.consumed = Frame(w).consumed,
                                      !.conversation = Frame(w).talked]]
        /\ Onward(w, "held")
        /\ UNCHANGED <<next_id, held, queue, agents>>

\* `ended`
EndTask(w) ==
    LET t == Frame(w).task
    IN  /\ Frame(w).at = "end"
        /\ tasks' = IF t \notin DOMAIN tasks THEN tasks
                    ELSE [tasks EXCEPT ![t] =
                            [Finished(@, Frame(w).end) EXCEPT
                                !.consumed = Frame(w).consumed,
                                !.conversation = Frame(w).talked]]
        /\ Onward(w, "held")
        /\ UNCHANGED <<next_id, held, queue, agents>>

\* A slip of the next: the task waits again and the session is not stopped.
TurnAway_CarriesOn(w) ==
    LET t == Frame(w).task
    IN  /\ Frame(w).at = "turn"
        /\ tasks' = IF t \notin DOMAIN tasks THEN tasks
                    ELSE [tasks EXCEPT ![t] =
                            [TurnedAway(@) EXCEPT !.consumed = Frame(w).consumed]]
        /\ Rests(w)
        /\ UNCHANGED <<next_id, held, queue, agents>>

\* `turned_away`; the window it notes is module Sessions'.
TurnAway(w) ==
    LET t == Frame(w).task
    IN  /\ Frame(w).at = "turn"
        /\ tasks' = IF t \notin DOMAIN tasks THEN tasks
                    ELSE [tasks EXCEPT ![t] =
                            [TurnedAway(@) EXCEPT !.consumed = Frame(w).consumed]]
        /\ Onward(w, "stopread")
        /\ UNCHANGED <<next_id, held, queue, agents>>

----------------------------------------------------------------------------
(* One decision: `settle`.  Its caller goes on with what it assigned.      *)

\* The tasks of a set in the order they were registered.
InOrder(T) ==
    CHOOSE order \in [1..Cardinality(T) -> T] :
        /\ \A t \in T : \E i \in DOMAIN order : order[i] = t
        /\ \A i, j \in DOMAIN order : i < j => order[i] < order[j]

\* The session is read, and the ledger, and the clock.
SettleRead(x) ==
    LET s == Frame(x).session
    IN  /\ Frame(x).at = "held"
        /\ \/ s \in S!Running(sessions) /\ Goes(x, [At(x, "decide") EXCEPT !.late = s \in late])
           \/ (s \notin S!Running(sessions) \/ "ledger" \in Failing) /\ Rests(x)
        /\ UNCHANGED <<store, held, queue, agents>>

\* A slip of the next: what the runs going may yet take is not held against
\* the budget.
Standing_Unbooked(s, isLate, cost) ==
    [declared |-> sessions[s].declared,
     spent |-> Counted(tasks, s),
     booked |-> 0,
     elapsed |-> 0,
     time_left |-> IF isLate THEN 0 ELSE 1,
     pending |-> [i \in 1..Cardinality(Waiting(tasks)) |->
                    [cost |-> cost, lasts |-> NoFigure]],
     running |-> Cardinality(RunningIn(tasks, s)),
     blocked |-> Blocked(tasks),
     unreadable |-> CannotBeMeasured(tasks, s),
     under |-> Ships]

\* How the session stands, from the backlog as it is held.
Standing(s, isLate, cost) ==
    [declared |-> sessions[s].declared,
     spent |-> Counted(tasks, s),
     booked |-> Booked(tasks, s),
     elapsed |-> 0,
     time_left |-> IF isLate THEN 0 ELSE 1,
     pending |-> [i \in 1..Cardinality(Waiting(tasks)) |->
                    [cost |-> cost, lasts |-> NoFigure]],
     running |-> Cardinality(RunningIn(tasks, s)),
     blocked |-> Blocked(tasks),
     unreadable |-> CannotBeMeasured(tasks, s),
     under |-> Ships]

\* Which of the waiting tasks start, each with its ceiling: as many as the
\* machine has hands for.
Chosen(s, allowed) ==
    LET waiting == InOrder(Waiting(tasks))
        room == Less(AtOnce, Cardinality(RunningIn(tasks, s)))
        first == {i \in Starts(allowed) :
                    Cardinality({j \in Starts(allowed) : j < i}) < room}
    IN  [t \in {waiting[i] : i \in first} |->
            allowed[CHOOSE i \in first : waiting[i] = t]]

\* The decision and the assignment, under one hold of the backlog.
DecideNow(x) ==
    LET s == Frame(x).session
    IN  /\ Frame(x).at = "decide"
        /\ \E cost \in Costs :
           \E decision \in {Decide(Standing(s, Frame(x).late, cost))} :
           \E chosen \in {Chosen(s, decision.allowed)} :
              /\ tasks' = [t \in DOMAIN tasks |->
                              IF t \in DOMAIN chosen
                              THEN Assigned(tasks[t], s, chosen[t]) ELSE tasks[t]]
              /\ Goes(x, [At(x, "record") EXCEPT
                            !.spent = Counted(tasks, s),
                            !.why = IF decision.kind = "stop" THEN decision.why
                                    ELSE S!NoReason,
                            !.todo = InOrder(DOMAIN chosen)])
        /\ UNCHANGED <<next_id, held, queue, agents>>

\* What follows the recording.
AfterRecord(x) ==
    IF Frame(x).why # S!NoReason THEN Goes(x, At(x, "stopread"))
    ELSE IF Frame(x).todo = <<>> THEN Rests(x)
    ELSE Goes(x, At(x, "enqueue"))

Recorded(x) ==
    sessions' = [sessions EXCEPT ![Frame(x).session] = S!Recorded(@, Frame(x).spent)]

\* A slip of the next: a store that would not take the figure ends it all.
Record_OrNothing(x) ==
    /\ Frame(x).at = "record"
    /\ \/ Recorded(x) /\ AfterRecord(x)
       \/ "record" \in Failing /\ Rests(x) /\ UNCHANGED sessions
    /\ UNCHANGED <<store, next_session, queue, agents>>

\* A store that would not take the figure does not undo the assignment; a
\* stopping that it would not take the figure of is not gone on with.
Record(x) ==
    /\ Frame(x).at = "record"
    /\ \/ Recorded(x) /\ AfterRecord(x)
       \/ /\ "record" \in Failing
          /\ IF Frame(x).why # S!NoReason THEN Rests(x) ELSE AfterRecord(x)
          /\ UNCHANGED sessions
    /\ UNCHANGED <<store, next_session, queue, agents>>

\* A slip of the next: only the first is put on it.
Enqueue_TheFirst(x) ==
    /\ Frame(x).at = "enqueue"
    /\ queue' = Append(queue, Head(Frame(x).todo))
    /\ Rests(x)
    /\ UNCHANGED <<store, held, agents>>

\* What was assigned is put on the queue, one task at a time.
Enqueue(x) ==
    LET rest == Tail(Frame(x).todo)
    IN  /\ Frame(x).at = "enqueue"
        /\ queue' = Append(queue, Head(Frame(x).todo))
        /\ IF rest = <<>> THEN Rests(x) ELSE Goes(x, [Frame(x) EXCEPT !.todo = rest])
        /\ UNCHANGED <<store, held, agents>>

----------------------------------------------------------------------------
(* Stopping a session: `stop`. *)

StopRead(x) ==
    /\ Frame(x).at = "stopread"
    /\ Goes(x, [At(x, "kill") EXCEPT !.todo = InOrder(RunningIn(tasks, Frame(x).session))])
    /\ UNCHANGED <<store, held, queue, agents>>

\* The agent adapter's `stop`: the group on the map under the task's name is
\* taken off it and ended; nothing is done where there is none.
Kill(x) ==
    LET t == Head(Frame(x).todo)
    IN  /\ Frame(x).at = "kill"
        /\ Frame(x).todo # <<>>
        /\ alive' = alive \ {running[t]}
        /\ running' = [running EXCEPT ![t] = Nobody]
        /\ Goes(x, [Frame(x) EXCEPT !.todo = Tail(@)])
        /\ UNCHANGED <<store, held, queue, orphans>>

StopSession(x) ==
    LET s == Frame(x).session
    IN  /\ Frame(x).at = "kill"
        /\ Frame(x).todo = <<>>
        /\ sessions' = [sessions EXCEPT ![s] = S!Stopped(@, Frame(x).why)]
        /\ Goes(x, At(x, "interrupt"))
        /\ UNCHANGED <<store, next_session, queue, agents>>

InterruptTasks(x) ==
    /\ Frame(x).at = "interrupt"
    /\ tasks' = InterruptAll(tasks, Frame(x).session)
    /\ Rests(x)
    /\ UNCHANGED <<next_id, held, queue, agents>>

\* A store that cannot be read or written ends whatever was being done.
StoreFails(x) ==
    /\ Frame(x).at \in {"read", "note", "end", "turn", "held", "decide", "stopread",
                        "kill", "interrupt", "open", "clock"}
    /\ Frame(x).at = "kill" => Frame(x).todo = <<>>
    /\ Fails("store", x)

\* A trace that cannot be opened, before the agent is started.
TraceFails(w) == Frame(w).at = "spawn" /\ Fails("trace", w)

----------------------------------------------------------------------------
(* The commands that are more than one step. *)

\* `run` asks whether there is anything to start before it opens a session.
AskRun(h) ==
    /\ "run" \in Commands
    /\ next_session <= LastSession
    /\ Frame(h).at = "idle"
    /\ Waiting(tasks) # {}
    /\ Goes(h, [Idle EXCEPT !.at = "open"])
    /\ UNCHANGED <<store, held, queue, agents>>

Open(h) ==
    /\ Frame(h).at = "open"
    /\ \/ /\ S!Running(sessions) = {}
          /\ next_session <= LastSession
          /\ \E declared \in Declared :
                sessions' = [s \in DOMAIN sessions \cup {next_session} |->
                                IF s = next_session THEN S!Opened("Tokens", declared, 0)
                                ELSE sessions[s]]
          /\ next_session' = next_session + 1
          /\ Goes(h, [Idle EXCEPT !.at = "held", !.session = next_session])
       \/ /\ S!Running(sessions) # {} \/ next_session > LastSession
          /\ Rests(h)
          /\ UNCHANGED held
    /\ UNCHANGED <<store, queue, agents>>

\* `interrupt`
AskInterrupt(h) ==
    /\ "interrupt" \in Commands
    /\ Frame(h).at = "idle"
    /\ \E s \in S!Running(sessions) :
          Goes(h, [Idle EXCEPT !.at = "stopread", !.session = s, !.why = "interrupted"])
    /\ UNCHANGED <<store, held, queue, agents>>

----------------------------------------------------------------------------
(* The deadline: `stop_if_out_of_time`. *)

ClockLooks ==
    /\ Frame(Clock).at = "idle"
    /\ \E s \in S!Running(sessions) \cap late :
          Goes(Clock, [Idle EXCEPT !.at = "clock", !.session = s])
    /\ UNCHANGED <<store, held, queue, agents>>

ClockReads ==
    LET s == Frame(Clock).session
    IN  /\ Frame(Clock).at = "clock"
        /\ IF DoneWaiting(0, Cardinality(RunningIn(tasks, s)))
           THEN Goes(Clock, [At(Clock, "stopread") EXCEPT
                        !.why = NothingMore(Waiting(tasks) # {}, Blocked(tasks), TRUE)])
           ELSE Rests(Clock)
        /\ UNCHANGED <<store, held, queue, agents>>

----------------------------------------------------------------------------
(* The commands that are one change to the backlog. *)

OneChange == UNCHANGED <<held, queue, agents, th>>

TaskAdd ==
    /\ "add" \in Commands
    /\ next_id <= LastTask
    /\ \E after \in DOMAIN tasks \cup {NoTask} : tasks' = Add(tasks, next_id, after)
    /\ next_id' = next_id + 1

TaskRm(t) ==
    /\ "rm" \in Commands
    /\ t \in Pending(tasks)
    /\ tasks' = Remove(tasks, t)
    /\ UNCHANGED next_id

Discard(t) ==
    /\ "discard" \in Commands
    /\ IsEnded(tasks[t])
    /\ tasks' = [tasks EXCEPT ![t] = Disposed(@, "Discarded")]
    /\ UNCHANGED next_id

Requeue(t) ==
    /\ IsEnded(tasks[t])
    /\ tasks[t].attempts < MostAttempts
    /\ \/ "retry" \in Commands /\ tasks' = [tasks EXCEPT ![t] = WaitsAgain(@, FALSE)]
       \/ "resume" \in Commands /\ tasks' = [tasks EXCEPT ![t] = WaitsAgain(@, TRUE)]
    /\ UNCHANGED next_id

Ask ==
    /\ TaskAdd \/ \E t \in DOMAIN tasks : TaskRm(t) \/ Discard(t) \/ Requeue(t)
    /\ OneChange

----------------------------------------------------------------------------
(* What happens to the machine. *)

TimeRunsOut ==
    /\ \E s \in S!Running(sessions) : s \notin late /\ late' = late \cup {s}
    /\ UNCHANGED <<store, held, queue, agents, th>>

\* The core dies and another takes its place: what was in memory is gone, and
\* an agent, in a group of its own, works on.
Crash ==
    /\ crashes < MostCrashes
    /\ crashes' = crashes + 1
    /\ th' = [x \in Thread |-> Idle]
    /\ queue' = <<>>
    /\ running' = [t \in 1..LastTask |-> Nobody]
    /\ alive' = {}
    /\ orphans' = orphans \cup {th[w].task : w \in alive}
    /\ UNCHANGED <<store, held, late>>

OrphanEnds(t) ==
    /\ orphans' = orphans \ {t}
    /\ UNCHANGED <<store, held, queue, running, alive, th>>

----------------------------------------------------------------------------

Settling(x) == SettleRead(x) \/ DecideNow(x) \/ Record(x) \/ Enqueue(x)
Stopping(x) == StopRead(x) \/ Kill(x) \/ StopSession(x) \/ InterruptTasks(x)

Carrying(w) ==
    \/ Take(w) \/ ReadTask(w) \/ Prepare(w) \/ NoteArea(w) \/ Spawn(w) \/ Register(w)
    \/ KilledReturns(w) \/ AgentEnds(w) \/ EndTask(w) \/ TurnAway(w) \/ TraceFails(w)

\* What a thread does once it has something to do.
Worker(w) == Carrying(w) \/ Settling(w) \/ Stopping(w) \/ StoreFails(w)
Handler(h) == Open(h) \/ Settling(h) \/ Stopping(h) \/ StoreFails(h)
Deadline == ClockLooks \/ ClockReads \/ Stopping(Clock) \/ StoreFails(Clock)

Threads ==
    /\ \/ \E w \in Workers : Worker(w)
       \/ \E h \in Handlers : AskRun(h) \/ AskInterrupt(h) \/ Handler(h)
       \/ Deadline
    /\ UNCHANGED <<late, crashes>>

Next ==
    \/ Threads
    \/ Ask /\ UNCHANGED <<late, crashes>>
    \/ TimeRunsOut /\ UNCHANGED crashes
    \/ Crash
    \/ \E t \in orphans : OrphanEnds(t) /\ UNCHANGED <<late, crashes>>

Spec == Init /\ [][Next]_vars

\* A thread that can step does, in the end; an agent comes to an end, since a
\* run is held to a number of turns.  Nobody need ask for anything, and time
\* need not run out.
Fairness ==
    /\ \A w \in Workers : WF_vars(Worker(w) /\ UNCHANGED <<late, crashes>>)
    /\ \A h \in Handlers : WF_vars(Handler(h) /\ UNCHANGED <<late, crashes>>)
    /\ WF_vars(Deadline /\ UNCHANGED <<late, crashes>>)

FairSpec == Spec /\ Fairness

----------------------------------------------------------------------------

Label == {"idle", "read", "prepare", "note", "spawn", "register", "wait", "end", "turn",
          "open", "held", "decide", "record", "enqueue", "stopread", "kill", "interrupt",
          "clock"}

FrameType ==
    [at : Label, task : 0..LastTask, attempt : Nat, session : 0..LastSession,
     late : BOOLEAN, spent : Nat, why : S!Reason \cup {S!NoReason},
     todo : Seq(1..LastTask), end : Ended, consumed : Observation, talked : BOOLEAN]

TypeOK ==
    /\ next_id \in TaskId
    /\ tasks \in [DOMAIN tasks -> Task] /\ DOMAIN tasks \subseteq 1..LastTask
    /\ next_session \in SessionId
    /\ sessions \in [1..(next_session - 1) -> S!Session]
    /\ late \subseteq DOMAIN sessions
    /\ queue \in Seq(1..LastTask)
    /\ running \in [1..LastTask -> Workers \cup {Nobody}]
    /\ alive \subseteq Workers
    /\ orphans \subseteq 1..LastTask
    /\ crashes \in 0..MostCrashes
    /\ th \in [Thread -> FrameType]

\* Where a worker has a task in hand, and where a thread is about a session.
InHands == {"read", "prepare", "note", "spawn", "register", "wait", "end", "turn"}
OnSession == {"held", "decide", "record", "enqueue", "stopread", "kill", "interrupt",
              "clock"}

\* Numbers are given out in order, to what is there.
StoreSound ==
    \A t \in DOMAIN tasks :
        /\ t < next_id
        /\ tasks[t].session < next_session
        /\ tasks[t].state # "Pending" => tasks[t].attempts > 0
HeldSound ==
    /\ next_session <= LastSession + 1
    /\ \A s \in DOMAIN sessions : sessions[s].declared \in Declared
QueueSound == \A i \in DOMAIN queue : queue[i] < next_id
AgentsSound == \A w \in alive : th[w].at \in {"register", "wait"}

\* What a thread holds: a task that was assigned and whose number nothing else
\* will get, a session that is there, and what the step it is at needs.
FrameSound(f) ==
    /\ f.task < next_id
    /\ \A i \in DOMAIN f.todo : f.todo[i] < next_id
    /\ f.at \in InHands => f.task # NoTask
    /\ f.at \in InHands \ {"read"} /\ f.task \in DOMAIN tasks => tasks[f.task].attempts > 0
    /\ f.at = "end" => f.consumed \in Observed \cup {NotYet}
    /\ f.at = "turn" => f.consumed \in Observed
    /\ f.at \in OnSession => f.session \in DOMAIN sessions
    /\ f.at = "record" /\ f.why # S!NoReason => f.todo = <<>>
    /\ f.at = "enqueue" => f.todo # <<>>
    /\ f.at = "interrupt" => f.session \notin S!Running(sessions)

\* Inductive: every step keeps it.
Inductive ==
    /\ TypeOK /\ StoreSound /\ HeldSound /\ QueueSound /\ AgentsSound
    /\ \A x \in Thread : FrameSound(th[x])

\* The threads change the backlog in no way module Backlog does not allow, so
\* what is proved of it is true here.
Changes == INSTANCE Backlog WITH
    Session <- 1..LastSession, Ceiling <- UNION {1..d : d \in Declared},
    LastId <- LastTask

IsStored == Changes!Spec

\* Whether a worker has the task in hand and will answer for it.
InHand(t) ==
    \E w \in Workers :
        /\ th[w].task = t
        /\ th[w].at \in InHands

\* Whether a thread has assigned the task and has yet to queue it.
AboutToQueue(t) ==
    \E x \in Thread : /\ th[x].at \in {"record", "enqueue"}
                      /\ \E i \in DOMAIN th[x].todo : th[x].todo[i] = t

\* A task written down as running is one somebody will answer for: it is on
\* the queue, about to be, or in a worker's hands.  What loses the numbers
\* "leaves tasks nobody picks up and nothing to pick them up with"
\* (core/service/supervision.rs:247-249).
NothingLost ==
    \A t \in DOMAIN tasks :
        tasks[t].state = "Running" =>
            \/ \E i \in DOMAIN queue : queue[i] = t
            \/ AboutToQueue(t)
            \/ InHand(t)

\* Whether a thread is on its way to deciding about the session or stopping it.
Attended(s) ==
    \E x \in Thread :
        /\ th[x].session = s
        /\ th[x].at \in {"held", "decide", "record", "enqueue", "stopread", "kill"}

\* A session that runs has a run going, or a thread that is about to decide
\* about it: only a run's ending brings the next decision, so one with
\* neither would sit open until its time ran out with nobody looking.
NeverUnattended ==
    \A s \in S!Running(sessions) : RunningIn(tasks, s) # {} \/ Attended(s)

\* What keeps it so: a thread that is to go on looks again or stops the session.
SeenTo(s) ==
    \E x \in Thread :
        /\ th[x].session = s
        /\ \/ th[x].at \in {"held", "decide", "stopread", "kill"}
           \/ th[x].at = "record" /\ th[x].why # S!NoReason

AlwaysSeenTo ==
    \A s \in S!Running(sessions) : RunningIn(tasks, s) # {} \/ SeenTo(s)

\* Whenever a run is added, its session has no more runs than the machine has
\* hands (core/service/supervision.rs:213-216), and what it has spent and what
\* its runs may yet take is within what it declared, whatever other threads
\* record between its reading the session and its deciding (149-152).  What it
\* has spent is what it had spent before: what a task it takes cost the session
\* that ran it first comes with the task, counts against it from then on
\* (core/domain/task/tests.rs:361), and is not asked about.
AddsWithinMeans ==
    [][\A s \in DOMAIN sessions :
          RunningIn(tasks', s) \ RunningIn(tasks, s) # {} =>
              /\ Cardinality(RunningIn(tasks', s)) <= AtOnce
              /\ Counted(tasks, s) + Booked(tasks', s) <= sessions[s].declared]_vars

\* A session comes to a stop, without anybody asking for it.
SessionEnds ==
    \A s \in 1..LastSession :
        (s \in S!Running(sessions)) ~> (s \in DOMAIN sessions /\ ~ S!IsRunning(sessions[s]))

\* A task that was started comes to an end or waits again, whatever becomes of
\* its session.
RunEnds ==
    \A t \in 1..LastTask :
        (t \in DOMAIN tasks /\ tasks[t].state = "Running")
            ~> (t \notin DOMAIN tasks \/ tasks[t].state # "Running")

----------------------------------------------------------------------------
(* What the repository says of the threads and they do not keep. *)

\* "Starting it would spend against a session that has already reported what
\* it spent, and nothing would stop the run afterwards"
\* (core/service/work.rs:119-121): no agent is started for a stopped session.
NoRunForAStoppedSession ==
    [][\A w \in alive' \ alive :
          LET t == th[w].task
          IN  t \in DOMAIN tasks => S!IsRunning(sessions[tasks[t].session])]_vars

\* The agents at work on a task.
Works(t) == {w \in alive : th[w].task = t}

\* "The process group each running task was given", which the thread that
\* takes the command and the one that waits on the run "both have to reach"
\* (adapter/outbound/program/agent.rs:41-44): an agent a worker waits for is on
\* the map, so a stopping can end it.
EveryAgentReachable ==
    \A w \in alive : th[w].at = "wait" => running[th[w].task] = w

\* "The runs end before the tasks do, so nothing is recorded as ended while
\* its agent is still working" (core/service/supervision.rs:281-282).
NothingEndedWhileWorking ==
    \A t \in DOMAIN tasks : IsEnded(tasks[t]) => Works(t) = {}

\* "The first answer is the true one" (core/domain/task.rs:597): what a worker
\* says of one attempt ends no other.
AnswersForItsOwnAttempt ==
    [][\A w \in Workers :
          LET t == th[w].task
          IN  /\ th[w].at = "end"
              /\ th'[w].at # "end"
              /\ t \in DOMAIN tasks \cap DOMAIN tasks'
              /\ tasks'[t].state # tasks[t].state
              => tasks[t].attempts = th[w].attempt]_vars

\* "A task queued before its session stopped is still on the queue when a worker
\* reaches it" (core/service/work.rs:119-120) and is to start nothing: one
\* attempt is in one worker's hands.
OneHandPerAttempt ==
    \A w, v \in Workers :
        /\ w # v
        /\ {th[w].at, th[v].at} \subseteq InHands \ {"read"}
        /\ th[w].task = th[v].task
        => th[w].attempt # th[v].attempt

\* "Terminal states all leave a branch and enter the review queue"
\* (docs/cli.md:62).
EndedIsReviewed ==
    [][\A t \in DOMAIN tasks \cap DOMAIN tasks' :
          tasks[t].state = "Running" /\ IsEnded(tasks'[t]) =>
              t \in AwaitingReview(tasks')]_vars

\* "Nobody carries on a conversation about work that has been decided"
\* (core/domain/task.rs:643).
NoConversationOnceDecided ==
    \A t \in DOMAIN tasks : tasks[t].disposition # "None" => ~ tasks[t].conversation

\* "A session only ever spends more" (core/domain/session.rs:441-442): what a
\* decision reads as spent is never less than what one before it read.
SpendingOnlyGrows ==
    [][\A s \in S!Running(sessions) : Counted(tasks', s) >= Counted(tasks, s)]_vars

\* "Neither ends a run that is going" (docs/cli.md:77), of the two ways a
\* session comes to `budget hardlock`.
HardlockEndsNoRun ==
    [][\A t \in DOMAIN tasks \cap DOMAIN tasks' :
          /\ tasks[t].state = "Running"
          /\ tasks'[t].state = "Interrupted"
          /\ \E x \in Thread : th[x].at = "interrupt" /\ th'[x].at = "idle"
          => sessions[tasks[t].session].reason # "budget hardlock"]_vars
============================================================================
