------------------------------ MODULE Tidying ------------------------------
(***************************************************************************)
(* The work areas: the directory each task is worked in, from the worker   *)
(* that prepares it (core/service/work.rs) to the tidying that takes it    *)
(* away (core/service/review.rs), and what a person asks for in between.   *)
(*                                                                         *)
(* A work area is on the disk, and the backlog has it written down for its *)
(* task; nothing makes the two change together.  A run is three steps here *)
(* -- prepare, note, work -- and a session may be stopped before any of    *)
(* them: its tasks are interrupted then, and the workers that have them go *)
(* on to what they do next.                                                *)
(*                                                                         *)
(* `again`, `stillAt` and `remade` are not in the code: the promises of a  *)
(* tidying are made of them.                                               *)
(***************************************************************************)
EXTENDS Tasks

CONSTANTS Ids,           \* the tasks registered
          Workers,       \* the threads that carry tasks on
          Runs,          \* the sessions
          Tidiers,       \* the threads that may be asked to tidy
          Nobody,
          MostAttempts,  \* bound: how often tasks are assigned
          MostDeaths     \* bound: how often the core dies

ASSUME IdsAssumption == Ids \subseteq TaskId /\ IsFiniteSet(Ids)
ASSUME RunsAssumption == Runs \subseteq SessionId
ASSUME TidierAssumption == Nobody \notin Tidiers
ASSUME BoundAssumption == MostAttempts \in Nat /\ MostDeaths \in Nat

VARIABLES tasks,         \* the backlog
          areas,         \* the tasks whose work areas are on the disk
          queue,         \* how often each task is on the queue
          hands,         \* what each worker has in hand
          lock,          \* who holds `tidying`
          asked,         \* what each tidying has yet to take away
          went,          \* what each has taken away
          again,         \* the tasks asked for again since that list was made
          stillAt,       \* those a worker had in hand when it was made
          remade,        \* those whose areas were made anew since they went
          deaths

since == <<again, stillAt, remade>>
tidying == <<lock, asked, went>>
vars == <<tasks, areas, queue, hands, tidying, since, deaths>>

Free == [task |-> NoTask, step |-> "none"]

InHand(t) == \E w \in Workers : hands[w].task = t

Init ==
    /\ tasks = [t \in Ids |-> Registered(NoTask)]
    /\ areas = {}
    /\ queue = [t \in Ids |-> 0]
    /\ hands = [w \in Workers |-> Free]
    /\ lock = Nobody
    /\ asked = [x \in Tidiers |-> {}]
    /\ went = [x \in Tidiers |-> {}]
    /\ again = {} /\ stillAt = {} /\ remade = {}
    /\ deaths = 0

----------------------------------------------------------------------------
(* A run. *)

Goes(w, t, to) == hands' = [hands EXCEPT ![w] = [task |-> t, step |-> to]]

LetsGo(w) == hands' = [hands EXCEPT ![w] = Free]

Has(w, t, where) == hands[w] = [task |-> t, step |-> where]

\* Assigned to a session, and put on the queue.
Assign(t) ==
    /\ t \in Waiting(tasks)
    /\ SumOver([u \in Ids |-> tasks[u].attempts], Ids) < MostAttempts
    /\ \E s \in Runs : tasks' = [tasks EXCEPT ![t] = Assigned(@, s, 1)]
    /\ queue' = [queue EXCEPT ![t] = @ + 1]
    /\ UNCHANGED <<areas, hands, tidying, since, deaths>>

\* A task that is no longer running, or that cannot be read, is left.
Take(w, t) ==
    /\ hands[w] = Free
    /\ queue[t] > 0
    /\ queue' = [queue EXCEPT ![t] = @ - 1]
    /\ \/ tasks[t].state = "Running" /\ Goes(w, t, "prepare")
       \/ UNCHANGED hands
    /\ UNCHANGED <<tasks, areas, tidying, since, deaths>>

\* `prepare`: a work area that is there already is the one the run is given.
\* Where git makes none, the run has ended.
Prepare(w, t) ==
    /\ Has(w, t, "prepare")
    /\ \/ /\ areas' = areas \cup {t}
          /\ remade' = IF t \notin areas /\ (\E x \in Tidiers : lock = x /\ t \in went[x])
                         THEN remade \cup {t} ELSE remade
          /\ Goes(w, t, "note")
          /\ UNCHANGED tasks
       \/ /\ tasks' = [tasks EXCEPT ![t] = Finished(@, "Error")]
          /\ LetsGo(w)
          /\ UNCHANGED <<areas, remade>>
    /\ UNCHANGED <<queue, tidying, again, stillAt, deaths>>

\* `work_area`, for a task in whatever state.
Note(w, t) ==
    /\ Has(w, t, "note")
    /\ tasks' = [tasks EXCEPT ![t].worktree = TRUE]
    /\ Goes(w, t, "work")
    /\ UNCHANGED <<areas, queue, tidying, since, deaths>>

\* The agent is done, or was stopped.  The vendor may have turned it away: then
\* its task waits again, whatever became of it meanwhile.
Answer(w, t) ==
    /\ Has(w, t, "work")
    /\ \E new \in {Finished(tasks[t], end) : end \in Ended} \cup {TurnedAway(tasks[t])} :
          tasks' = [tasks EXCEPT ![t] = new]
    /\ LetsGo(w)
    /\ UNCHANGED <<areas, queue, tidying, since, deaths>>

\* A worker whose store, or whose trace, fails lets the task go as it is.
GiveUp(w) ==
    /\ hands[w] # Free
    /\ LetsGo(w)
    /\ UNCHANGED <<tasks, areas, queue, tidying, since, deaths>>

\* `stop`, wherever the workers are.
Interrupt(s) ==
    /\ RunningIn(tasks, s) # {}
    /\ tasks' = InterruptAll(tasks, s)
    /\ UNCHANGED <<areas, queue, hands, tidying, since, deaths>>

----------------------------------------------------------------------------
(* What is asked of a task that ended. *)

\* `apply` and `discard`
Dispose(t) ==
    /\ IsEnded(tasks[t])
    /\ \E what \in Disposition \ {"None"} : tasks' = [tasks EXCEPT ![t] = Disposed(@, what)]
    /\ UNCHANGED <<areas, queue, hands, tidying, since, deaths>>

\* `retry` and `resume`, which do not take the hold a tidying has.
WaitAgain(t) ==
    /\ IsEnded(tasks[t])
    /\ \E keeping \in BOOLEAN : tasks' = [tasks EXCEPT ![t] = WaitsAgain(@, keeping)]
    /\ again' = IF lock = Nobody THEN again ELSE again \cup {t}
    /\ UNCHANGED <<areas, queue, hands, tidying, stillAt, remade, deaths>>

----------------------------------------------------------------------------
(* `tidy`. *)

\* A slip of the next: every work area of a task that ended may go.
List_AllEnded(x) ==
    /\ lock = Nobody
    /\ lock' = x
    /\ asked' = [asked EXCEPT ![x] = {t \in Ids : IsEnded(tasks[t]) /\ tasks[t].worktree}]
    /\ went' = [went EXCEPT ![x] = {}]
    /\ stillAt' = {t \in Ids : InHand(t)}
    /\ again' = {} /\ remade' = {}
    /\ UNCHANGED <<tasks, areas, queue, hands, deaths>>

List(x) ==
    /\ lock = Nobody
    /\ lock' = x
    /\ asked' = [asked EXCEPT ![x] = Tidyable(tasks)]
    /\ went' = [went EXCEPT ![x] = {}]
    /\ stillAt' = {t \in Ids : InHand(t)}
    /\ again' = {} /\ remade' = {}
    /\ UNCHANGED <<tasks, areas, queue, hands, deaths>>

\* What a tidying does next, in the order the tasks were registered.
IsNext(x, t) ==
    /\ lock = x
    /\ t \in asked[x]
    /\ \A u \in asked[x] : t <= u
    /\ asked' = [asked EXCEPT ![x] = @ \ {t}]

\* A slip of the next: what git would not remove is forgotten too.
TakeAway_Whatever(x, t) ==
    /\ IsNext(x, t)
    /\ areas' \in {areas, areas \ {t}}
    /\ went' = [went EXCEPT ![x] = @ \cup {t}]
    /\ UNCHANGED <<tasks, queue, hands, lock, since, deaths>>

\* `remove`: a directory that is not there is one that went; git may refuse
\* any other, one that holds what nobody committed above all.
TakeAway(x, t) ==
    /\ IsNext(x, t)
    /\ \/ areas' = areas \ {t} /\ went' = [went EXCEPT ![x] = @ \cup {t}]
       \/ t \in areas /\ UNCHANGED <<areas, went>>
    /\ UNCHANGED <<tasks, queue, hands, lock, since, deaths>>

\* What a tidying was keeping in mind is over with it.
IsOver ==
    /\ lock' = Nobody
    /\ asked' = [x \in Tidiers |-> {}]
    /\ went' = [x \in Tidiers |-> {}]
    /\ again' = {} /\ stillAt' = {} /\ remade' = {}

\* One change forgets what went, or the store fails and it is all still there.
Forget(x) ==
    /\ lock = x
    /\ asked[x] = {}
    /\ \/ tasks' = [t \in Ids |-> IF t \in went[x] THEN [tasks[t] EXCEPT !.worktree = FALSE]
                                                   ELSE tasks[t]]
       \/ UNCHANGED tasks
    /\ IsOver
    /\ UNCHANGED <<areas, queue, hands, deaths>>

----------------------------------------------------------------------------

\* The core is killed: what was in memory is gone, the hold with it.
Die ==
    /\ deaths < MostDeaths
    /\ deaths' = deaths + 1
    /\ queue' = [t \in Ids |-> 0]
    /\ hands' = [w \in Workers |-> Free]
    /\ IsOver
    /\ UNCHANGED <<tasks, areas>>

Next ==
    \/ \E t \in Ids : \/ Assign(t) \/ Dispose(t) \/ WaitAgain(t)
                      \/ \E w \in Workers : Take(w, t) \/ Prepare(w, t) \/ Note(w, t) \/ Answer(w, t)
                      \/ \E x \in Tidiers : TakeAway(x, t)
    \/ \E w \in Workers : GiveUp(w)
    \/ \E s \in Runs : Interrupt(s)
    \/ \E x \in Tidiers : List(x) \/ Forget(x)
    \/ Die

Spec == Init /\ [][Next]_vars

----------------------------------------------------------------------------

\* The backlog, the disk, the workers and the tidyings, as the code has them.
TypeOK ==
    /\ tasks \in [Ids -> Task]
    /\ areas \subseteq Ids
    /\ queue \in [Ids -> Nat]
    /\ hands \in [Workers -> [task : Ids \cup {NoTask}, step : {"none", "prepare", "note", "work"}]]
    /\ lock \in Tidiers \cup {Nobody}
    /\ asked \in [Tidiers -> SUBSET Ids]
    /\ went \in [Tidiers -> SUBSET Ids]
    /\ again \subseteq Ids /\ stillAt \subseteq Ids /\ remade \subseteq Ids
    /\ deaths \in 0..MostDeaths

FinishedWith(t) == IsEnded(tasks[t]) /\ tasks[t].disposition # "None"

\* What a tidying cannot count on to stay as it was listed: a task that is asked
\* for again, and one that has ended while a worker was still at it.
Unsettled == again \cup stillAt

Forgotten(t) == tasks[t].worktree /\ ~ tasks'[t].worktree

\* "Only what actually went is forgotten" (core/service/review.rs:242): a work
\* area forgotten while it is on the disk is "claimed by nobody and never
\* looked at again" (core/domain/task.rs:568-570), whether git refused it, the
\* store failed or the core died.  It happens to one that went and that a
\* worker made anew before the change, and to no other; the worker is one that
\* was at the task when it was listed, or was given it when it was asked for
\* again since.
ForgetsOnlyWhatWent ==
    [][\A t \in Ids : Forgotten(t) /\ t \in areas' => t \in remade /\ t \in Unsettled]_vars

\* A work area that goes is one of a task that ended and was disposed of when
\* it goes, not only when it was listed: "one nobody has disposed of keeps it"
\* (docs/cli.md:669).  It is so of every task but those that are asked for
\* again meanwhile, and those an interrupt ended under a worker's hands: the
\* worker may come back to say the vendor turned it away.
GoesOnlyWhenFinishedWith ==
    [][\A t \in (areas \ areas') \ Unsettled : FinishedWith(t)]_vars

----------------------------------------------------------------------------
(* Why a tidying is safe but for what is unsettled: what it listed, and    *)
(* what it has taken away, stays finished with and in nobody's hands until *)
(* it is done.                                                             *)

\* Whoever has the hold listed tasks that are finished with still, and what it
\* took away is back only where a worker made it anew.
Held ==
    \A x \in Tidiers : lock = x =>
        /\ \A t \in (asked[x] \cup went[x]) \ Unsettled : FinishedWith(t) /\ ~ InHand(t)
        /\ went[x] \cap areas \subseteq remade \cap Unsettled

Inductive == TypeOK /\ Held

----------------------------------------------------------------------------
(* What the repository says of a work area and the code does not keep.     *)

\* "A `retry` arriving meanwhile is not handed a directory about to go"
\* (core/service/review.rs:216-217): of the tasks that nobody was at when they
\* were listed and that were asked for again since, none has its work area go
\* while it is running and a worker was handed it.
GoesUnderNoRun ==
    [][\A t \in ((areas \ areas') \cap again) \ stillAt :
          tasks[t].state = "Running" =>
              \A w \in Workers : ~ Has(w, t, "note") /\ ~ Has(w, t, "work")]_vars

\* "This removes those a person is finished with: the task has ended, and
\* `apply` or `discard` has taken it out of the review queue" (docs/cli.md:669).
FinishedWithIsTidyable ==
    \A t \in areas : FinishedWith(t) /\ ~ InHand(t) => t \in Tidyable(tasks)

\* "Only what actually went is forgotten" (core/service/review.rs:242), of every
\* task, those a worker is still at among them.
ForgetsNothingThere == [][\A t \in Ids \ again : Forgotten(t) => t \notin areas']_vars

\* "One nobody has disposed of keeps it because that is where a person looks at
\* what was done and where a task waiting again carries on" (docs/cli.md:669),
\* of every task nobody asked for again.
WaitingKeepsItsArea == [][\A t \in (areas \ areas') \ again : FinishedWith(t)]_vars
============================================================================
