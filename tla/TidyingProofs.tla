--------------------------- MODULE TidyingProofs ---------------------------
(***************************************************************************)
(* A tidying takes away only what is finished with and forgets only what   *)
(* it took away, but for a task that is asked for again meanwhile and one  *)
(* a worker was still at: for every number of tasks and of threads,        *)
(* wherever the core dies, a session is stopped or a call fails.  So what  *)
(* is missing is a hold that retry takes too, and a word from the worker.  *)
(*                                                                         *)
(* And a result that is recorded as applied went in as its runs made it,   *)
(* as far as that is text: for any number of results and files, whatever a *)
(* person does to them in between.                                         *)
(***************************************************************************)
EXTENDS Tidying, Applying, TasksProofs

\* What a step may never do, without the subscript.
ForgetsGone ==
    \A t \in Ids : Forgotten(t) /\ t \in areas' => t \in remade /\ t \in Unsettled
GoesFinished == \A t \in (areas \ areas') \ Unsettled : FinishedWith(t)

Safe == ForgetsGone /\ GoesFinished

Quiet(t) == FinishedWith(t) /\ ~ InHand(t)

----------------------------------------------------------------------------
(* What of the invariant a step leaves alone. *)

LEMMA Parts ==
    ASSUME Inductive
    PROVE  /\ tasks \in [Ids -> Task] /\ areas \subseteq Ids /\ queue \in [Ids -> Nat]
           /\ hands \in [Workers -> [task : Ids \cup {NoTask},
                                     step : {"none", "prepare", "note", "work"}]]
           /\ asked \in [Tidiers -> SUBSET Ids] /\ went \in [Tidiers -> SUBSET Ids]
           /\ again \subseteq Ids /\ stillAt \subseteq Ids /\ remade \subseteq Ids
           /\ Nobody \notin Tidiers
           /\ Ids \subseteq Nat /\ NoTask \notin Ids
BY IdsAssumption, TidierAssumption DEF Inductive, TypeOK, TaskId

\* A step that neither tidies nor disturbs what is finished with and settled.
LEMMA Steady ==
    ASSUME Inductive, TypeOK', UNCHANGED tidying,
           lock \in Tidiers => Unsettled \subseteq Unsettled' /\ remade \subseteq remade',
           \A t \in Ids : lock \in Tidiers /\ Quiet(t) => Quiet(t)' \/ t \in Unsettled',
           areas \subseteq areas',
           \A x \in Tidiers : lock = x => (areas' \ areas) \cap went[x] \subseteq remade' \cap Unsettled',
           \A t \in Ids : tasks[t].worktree => tasks'[t].worktree
    PROVE  Inductive' /\ Safe
<1>1. ASSUME NEW x \in Tidiers, lock' = x
      PROVE  /\ \A t \in (asked'[x] \cup went'[x]) \ Unsettled' : FinishedWith(t)' /\ ~ InHand(t)'
             /\ went'[x] \cap areas' \subseteq remade' \cap Unsettled'
    <2>1. lock = x /\ asked' = asked /\ went' = went
        BY <1>1 DEF tidying
    <2>2. /\ \A t \in (asked[x] \cup went[x]) \ Unsettled : t \in Ids /\ Quiet(t)
          /\ went[x] \cap areas \subseteq remade \cap Unsettled
        BY <2>1, Parts DEF Inductive, Held, Quiet
    <2>3. Unsettled \subseteq Unsettled' /\ remade \subseteq remade'
        BY <2>1
    <2>4. \A t \in (asked[x] \cup went[x]) \ Unsettled' : Quiet(t)'
        BY <2>1, <2>2, <2>3
    <2>5. went[x] \cap areas' \subseteq remade' \cap Unsettled'
        BY <2>1, <2>2, <2>3
    <2> QED
        BY <2>1, <2>4, <2>5 DEF Quiet
<1>2. Held'
    BY <1>1 DEF Held
<1>3. Safe
    BY DEF Safe, ForgetsGone, GoesFinished, Forgotten
<1> QED
    BY <1>2, <1>3 DEF Inductive

\* Whoever takes something in hand, or lets go of it, takes nothing else.
LEMMA OneHand ==
    ASSUME Inductive, NEW w \in Workers, NEW one, one.task \in Ids \cup {NoTask},
           hands' = [hands EXCEPT ![w] = one]
    PROVE  \A u \in Ids : InHand(u)' => InHand(u) \/ u = one.task
BY Parts DEF InHand

LEMMA HandTyped ==
    ASSUME Inductive, NEW w \in Workers, NEW t \in Ids,
           \/ LetsGo(w)
           \/ \E to \in {"prepare", "note", "work"} : Goes(w, t, to)
    PROVE  /\ hands' \in [Workers -> [task : Ids \cup {NoTask},
                                      step : {"none", "prepare", "note", "work"}]]
           /\ \A u \in Ids : InHand(u)' => InHand(u) \/ u = t
<1>1. CASE LetsGo(w)
    <2>1. hands' = [hands EXCEPT ![w] = Free]
        BY <1>1 DEF LetsGo
    <2>2. Free \in [task : Ids \cup {NoTask}, step : {"none", "prepare", "note", "work"}]
          /\ Free.task = NoTask
        BY DEF Free
    <2>3. \A u \in Ids : InHand(u)' => InHand(u)
        BY <2>1, <2>2, OneHand, Parts
    <2> QED
        BY <2>1, <2>2, <2>3, Parts
<1>2. ASSUME NEW to \in {"prepare", "note", "work"}, Goes(w, t, to)
      PROVE  /\ hands' \in [Workers -> [task : Ids \cup {NoTask},
                                        step : {"none", "prepare", "note", "work"}]]
             /\ \A u \in Ids : InHand(u)' => InHand(u) \/ u = t
    <2> DEFINE one == [task |-> t, step |-> to]
    <2>1. hands' = [hands EXCEPT ![w] = one]
        BY <1>2 DEF Goes
    <2>2. one \in [task : Ids \cup {NoTask}, step : {"none", "prepare", "note", "work"}]
          /\ one.task = t
        OBVIOUS
    <2> HIDE DEF one
    <2>3. \A u \in Ids : InHand(u)' => InHand(u) \/ u = t
        BY <2>1, <2>2, OneHand
    <2> QED
        BY <2>1, <2>2, <2>3, Parts
<1> QED
    BY <1>1, <1>2

\* A step of one task, which is not finished with and settled when it begins.
LEMMA OneTask ==
    ASSUME Inductive, NEW t \in Ids, NEW new \in Task, tasks[t].worktree => new.worktree,
           tasks' = [tasks EXCEPT ![t] = new],
           lock \in Tidiers /\ Quiet(t) =>
               \/ t \in Unsettled'
               \/ ~ InHand(t)' /\ IsEnded(new) /\ new.disposition # "None",
           \A u \in Ids : InHand(u)' => InHand(u) \/ u = t,
           TypeOK /\ tasks' \in [Ids -> Task] => TypeOK',
           UNCHANGED tidying,
           lock \in Tidiers => Unsettled \subseteq Unsettled' /\ remade \subseteq remade',
           areas \subseteq areas',
           \A x \in Tidiers : lock = x => (areas' \ areas) \cap went[x] \subseteq remade' \cap Unsettled'
    PROVE  Inductive' /\ Safe
<1>1. tasks' \in [Ids -> Task] /\ tasks'[t] = new /\ \A u \in Ids \ {t} : tasks'[u] = tasks[u]
    BY Parts
<1>2. TypeOK'
    BY <1>1 DEF Inductive
<1>3. \A u \in Ids : lock \in Tidiers /\ Quiet(u) => Quiet(u)' \/ u \in Unsettled'
    BY <1>1 DEF Quiet, FinishedWith
<1>4. \A u \in Ids : tasks[u].worktree => tasks'[u].worktree
    BY <1>1
<1> QED
    BY <1>2, <1>3, <1>4, Steady

----------------------------------------------------------------------------
(* The steps. *)

\* Nothing is on the disk and nobody tidies.
LEMMA InitInductive == Init => Inductive
<1> SUFFICES ASSUME Init PROVE Inductive
    OBVIOUS
<1>1. Registered(NoTask) \in Task
    BY RegisteredTask DEF NoTask
<1>2. TypeOK
    BY <1>1, BoundAssumption DEF Init, TypeOK, Free
<1>3. Held
    BY DEF Init, Held
<1> QED
    BY <1>2, <1>3 DEF Inductive

\* A task that waits, or that runs, is not finished with.
LEMMA AssignStep ==
    ASSUME Inductive, NEW t \in Ids, Assign(t)
    PROVE  Inductive' /\ Safe
<1>1. PICK s \in Runs : tasks' = [tasks EXCEPT ![t] = Assigned(tasks[t], s, 1)]
    BY DEF Assign
<1> DEFINE new == Assigned(tasks[t], s, 1)
<1>2. tasks[t] \in Task /\ s \in Nat
    BY Parts, RunsAssumption DEF SessionId
<1>3. new \in Task
    BY <1>2, AssignedTask
<1>4. new.worktree = tasks[t].worktree
    BY <1>2 DEF Assigned, Task
<1>5. /\ tasks' = [tasks EXCEPT ![t] = new]
      /\ queue' = [queue EXCEPT ![t] = @ + 1]
      /\ UNCHANGED <<areas, hands, tidying, since, deaths>>
    BY <1>1 DEF Assign
<1>6. ~ Quiet(t)
    BY DEF Assign, Waiting, Pending, Quiet, FinishedWith, IsEnded, Ended
<1> HIDE DEF new
<1>7. TypeOK /\ tasks' \in [Ids -> Task] => TypeOK'
    BY <1>5 DEF TypeOK, tidying, since
<1>8. Unsettled' = Unsettled /\ remade' = remade /\ UNCHANGED tidying /\ areas' = areas
    BY <1>5 DEF Unsettled, since
<1>9. \A u \in Ids : InHand(u)' => InHand(u)
    BY <1>5 DEF InHand
<1> QED
    BY <1>3, <1>4, <1>5, <1>6, <1>7, <1>8, <1>9, OneTask

LEMMA TakeStep ==
    ASSUME Inductive, NEW t \in Ids, NEW w \in Workers, Take(w, t)
    PROVE  Inductive' /\ Safe
<1>1. /\ queue[t] > 0 /\ queue' = [queue EXCEPT ![t] = @ - 1]
      /\ UNCHANGED <<tasks, areas, tidying, since, deaths>>
      /\ UNCHANGED hands \/ (tasks[t].state = "Running" /\ Goes(w, t, "prepare"))
    BY DEF Take
<1>2. /\ hands' \in [Workers -> [task : Ids \cup {NoTask},
                                 step : {"none", "prepare", "note", "work"}]]
      /\ \A u \in Ids : InHand(u)' => InHand(u) \/ (u = t /\ tasks[t].state = "Running")
    <2>1. CASE UNCHANGED hands
        BY <2>1, Parts DEF InHand
    <2>2. CASE tasks[t].state = "Running" /\ Goes(w, t, "prepare")
        BY <2>2, HandTyped
    <2> QED
        BY <1>1, <2>1, <2>2
<1>3. queue' \in [Ids -> Nat]
    BY <1>1, Parts
<1>4. TypeOK'
    BY <1>1, <1>2, <1>3 DEF Inductive, TypeOK, tidying, since
<1>5. Unsettled' = Unsettled /\ remade' = remade /\ UNCHANGED tidying /\ areas' = areas
    BY <1>1 DEF Unsettled, since
<1>6. \A u \in Ids : Quiet(u) => Quiet(u)'
    BY <1>1, <1>2 DEF Quiet, FinishedWith, IsEnded, Ended
<1> QED
    BY <1>1, <1>4, <1>5, <1>6, Steady

\* A worker's other steps are about a task it has in hand.
LEMMA PrepareStep ==
    ASSUME Inductive, NEW t \in Ids, NEW w \in Workers, Prepare(w, t)
    PROVE  Inductive' /\ Safe
<1>1. InHand(t)
    BY DEF Prepare, Has, InHand
<1>2. ~ Quiet(t) /\ tasks[t] \in Task
    BY <1>1, Parts DEF Quiet
<1>3. UNCHANGED <<queue, tidying, again, stillAt, deaths>>
    BY DEF Prepare
<1>4. Unsettled' = Unsettled /\ UNCHANGED tidying
    BY <1>3 DEF Unsettled
<1>5. CASE /\ areas' = areas \cup {t}
           /\ remade' = IF t \notin areas /\ (\E x \in Tidiers : lock = x /\ t \in went[x])
                          THEN remade \cup {t} ELSE remade
           /\ Goes(w, t, "note")
           /\ UNCHANGED tasks
    <2>1. /\ hands' \in [Workers -> [task : Ids \cup {NoTask},
                                     step : {"none", "prepare", "note", "work"}]]
          /\ \A u \in Ids : InHand(u)' => InHand(u) \/ u = t
        BY <1>5, HandTyped
    <2>2. remade \subseteq remade' /\ remade' \subseteq remade \cup {t}
        BY <1>5
    <2>3. areas' \subseteq Ids /\ remade' \subseteq Ids
        BY <1>5, <2>2, Parts
    <2>4. TypeOK'
        BY <1>3, <1>5, <2>1, <2>3 DEF Inductive, TypeOK, tidying
    <2>5. \A u \in Ids : Quiet(u) => Quiet(u)'
        BY <1>2, <1>5, <2>1 DEF Quiet, FinishedWith
    <2>6. ASSUME NEW x \in Tidiers, lock = x
          PROVE  (areas' \ areas) \cap went[x] \subseteq remade' \cap Unsettled'
        <3>1. t \in went[x] => t \in Unsettled
            BY <1>2, <2>6 DEF Inductive, Held, Quiet
        <3>2. t \notin areas /\ t \in went[x] => t \in remade'
            BY <1>5, <2>6
        <3> QED
            BY <1>4, <1>5, <3>1, <3>2
    <2> QED
        BY <1>4, <1>5, <2>2, <2>4, <2>5, <2>6, Steady
<1>6. CASE /\ tasks' = [tasks EXCEPT ![t] = Finished(@, "Error")]
           /\ LetsGo(w)
           /\ UNCHANGED <<areas, remade>>
    <2> DEFINE new == Finished(tasks[t], "Error")
    <2>1. new \in Task
        BY <1>2, FinishedTask DEF Ended
    <2>2. new.worktree = tasks[t].worktree
        BY <1>2 DEF Finished, Task
    <2>3. tasks' = [tasks EXCEPT ![t] = new]
        BY <1>6
    <2> HIDE DEF new
    <2>4. /\ hands' \in [Workers -> [task : Ids \cup {NoTask},
                                     step : {"none", "prepare", "note", "work"}]]
          /\ \A u \in Ids : InHand(u)' => InHand(u) \/ u = t
        BY <1>6, HandTyped
    <2>5. TypeOK /\ tasks' \in [Ids -> Task] => TypeOK'
        BY <1>3, <1>6, <2>4 DEF TypeOK, tidying
    <2> QED
        BY <1>2, <1>4, <1>6, <2>1, <2>2, <2>3, <2>4, <2>5, OneTask
<1> QED
    BY <1>5, <1>6 DEF Prepare

LEMMA NoteStep ==
    ASSUME Inductive, NEW t \in Ids, NEW w \in Workers, Note(w, t)
    PROVE  Inductive' /\ Safe
<1>1. InHand(t)
    BY DEF Note, Has, InHand
<1>2. ~ Quiet(t) /\ tasks[t] \in Task
    BY <1>1, Parts DEF Quiet
<1> DEFINE new == [tasks[t] EXCEPT !.worktree = TRUE]
<1>3. new \in Task /\ new.worktree
    BY <1>2 DEF Task
<1>4. /\ tasks' = [tasks EXCEPT ![t] = new] /\ Goes(w, t, "work")
      /\ UNCHANGED <<areas, queue, tidying, since, deaths>>
    BY DEF Note
<1> HIDE DEF new
<1>5. /\ hands' \in [Workers -> [task : Ids \cup {NoTask},
                                 step : {"none", "prepare", "note", "work"}]]
      /\ \A u \in Ids : InHand(u)' => InHand(u) \/ u = t
    BY <1>4, HandTyped
<1>6. TypeOK /\ tasks' \in [Ids -> Task] => TypeOK'
    BY <1>4, <1>5 DEF TypeOK, tidying, since
<1>7. Unsettled' = Unsettled /\ remade' = remade /\ UNCHANGED tidying /\ areas' = areas
    BY <1>4 DEF Unsettled, since
<1> QED
    BY <1>2, <1>3, <1>4, <1>5, <1>6, <1>7, OneTask

\* Also where the vendor turned the task away that is finished with by now: it
\* was in hand all the while.
LEMMA AnswerStep ==
    ASSUME Inductive, NEW t \in Ids, NEW w \in Workers, Answer(w, t)
    PROVE  Inductive' /\ Safe
<1>1. InHand(t)
    BY DEF Answer, Has, InHand
<1>2. ~ Quiet(t) /\ tasks[t] \in Task
    BY <1>1, Parts DEF Quiet
<1>3. PICK new \in {Finished(tasks[t], end) : end \in Ended} \cup {TurnedAway(tasks[t])} :
          tasks' = [tasks EXCEPT ![t] = new]
    BY DEF Answer
<1>4. new \in Task /\ new.worktree = tasks[t].worktree
    <2>1. ASSUME NEW end \in Ended, new = Finished(tasks[t], end)
          PROVE  new \in Task /\ new.worktree = tasks[t].worktree
        <3>1. new \in Task
            BY <1>2, <2>1, FinishedTask
        <3> QED
            BY <1>2, <2>1, <3>1 DEF Finished, Task
    <2>2. CASE new = TurnedAway(tasks[t])
        <3>1. new \in Task
            BY <1>2, <2>2, TurnedAwayTask
        <3> QED
            BY <1>2, <2>2, <3>1 DEF TurnedAway, Task
    <2> QED
        BY <2>1, <2>2
<1>5. LetsGo(w) /\ UNCHANGED <<areas, queue, tidying, since, deaths>>
    BY DEF Answer
<1>6. /\ hands' \in [Workers -> [task : Ids \cup {NoTask},
                                 step : {"none", "prepare", "note", "work"}]]
      /\ \A u \in Ids : InHand(u)' => InHand(u) \/ u = t
    BY <1>5, HandTyped
<1>7. TypeOK /\ tasks' \in [Ids -> Task] => TypeOK'
    BY <1>5, <1>6 DEF TypeOK, tidying, since
<1>8. Unsettled' = Unsettled /\ remade' = remade /\ UNCHANGED tidying /\ areas' = areas
    BY <1>5 DEF Unsettled, since
<1> QED
    BY <1>2, <1>3, <1>4, <1>6, <1>7, <1>8, OneTask

LEMMA GiveUpStep ==
    ASSUME Inductive, NEW w \in Workers, GiveUp(w)
    PROVE  Inductive' /\ Safe
<1>1. hands' = [hands EXCEPT ![w] = Free] /\ UNCHANGED <<tasks, areas, queue, tidying, since, deaths>>
    BY DEF GiveUp, LetsGo
<1>2. Free \in [task : Ids \cup {NoTask}, step : {"none", "prepare", "note", "work"}]
      /\ Free.task = NoTask
    BY DEF Free
<1>3. \A u \in Ids : InHand(u)' => InHand(u)
    BY <1>1, <1>2, OneHand, Parts
<1>4. hands' \in [Workers -> [task : Ids \cup {NoTask}, step : {"none", "prepare", "note", "work"}]]
    BY <1>1, <1>2, Parts
<1>5. TypeOK'
    BY <1>1, <1>4 DEF Inductive, TypeOK, tidying, since
<1>6. Unsettled' = Unsettled /\ remade' = remade /\ UNCHANGED tidying /\ areas' = areas
    BY <1>1 DEF Unsettled, since
<1>7. \A u \in Ids : Quiet(u) => Quiet(u)'
    BY <1>1, <1>3 DEF Quiet, FinishedWith
<1> QED
    BY <1>1, <1>5, <1>6, <1>7, Steady

\* A stop ends what runs and nothing else, whoever is at it.
LEMMA InterruptStep ==
    ASSUME Inductive, NEW s \in Runs, Interrupt(s)
    PROVE  Inductive' /\ Safe
<1>1. tasks' = InterruptAll(tasks, s) /\ UNCHANGED <<areas, queue, hands, tidying, since, deaths>>
    BY DEF Interrupt
<1>2. ASSUME NEW t \in Ids
      PROVE  /\ tasks'[t] \in Task
             /\ tasks'[t].worktree = tasks[t].worktree
             /\ tasks'[t].disposition = tasks[t].disposition
             /\ IsEnded(tasks[t]) => IsEnded(tasks'[t])
    <2>1. tasks'[t] \in {tasks[t], [tasks[t] EXCEPT !.state = "Interrupted"]}
        BY <1>1, Parts DEF InterruptAll
    <2> QED
        BY <2>1, Parts DEF Task, TaskState, IsEnded, Ended
<1>3. tasks' \in [Ids -> Task]
    <2>1. DOMAIN tasks = Ids
        BY Parts
    <2>2. tasks' = [t \in Ids |-> tasks'[t]]
        BY <1>1, <2>1 DEF InterruptAll
    <2> QED
        BY <1>2, <2>2
<1>4. TypeOK'
    BY <1>1, <1>3 DEF Inductive, TypeOK, tidying, since
<1>5. Unsettled' = Unsettled /\ remade' = remade /\ UNCHANGED tidying /\ areas' = areas
    BY <1>1 DEF Unsettled, since
<1>6. \A u \in Ids : Quiet(u) => Quiet(u)'
    BY <1>1, <1>2 DEF Quiet, FinishedWith, InHand
<1> QED
    BY <1>2, <1>4, <1>5, <1>6, Steady

\* What is disposed of again is still finished with.
LEMMA DisposeStep ==
    ASSUME Inductive, NEW t \in Ids, Dispose(t)
    PROVE  Inductive' /\ Safe
<1>1. tasks[t] \in Task /\ IsEnded(tasks[t])
    BY Parts DEF Dispose
<1>2. PICK what \in Disposition \ {"None"} :
          tasks' = [tasks EXCEPT ![t] = Disposed(tasks[t], what)]
    BY DEF Dispose
<1> DEFINE new == Disposed(tasks[t], what)
<1>3. new \in Task /\ IsEnded(new) /\ new.disposition # "None"
    BY <1>1, DisposedTask DEF IsEnded
<1>4. new.worktree = tasks[t].worktree
    BY <1>1 DEF Disposed, Task
<1>5. tasks' = [tasks EXCEPT ![t] = new] /\ UNCHANGED <<areas, queue, hands, tidying, since, deaths>>
    BY <1>2 DEF Dispose
<1> HIDE DEF new
<1>6. TypeOK /\ tasks' \in [Ids -> Task] => TypeOK'
    BY <1>5 DEF TypeOK, tidying, since
<1>7. Unsettled' = Unsettled /\ remade' = remade /\ UNCHANGED tidying /\ areas' = areas
    BY <1>5 DEF Unsettled, since
<1>8. \A u \in Ids : InHand(u)' <=> InHand(u)
    BY <1>5 DEF InHand
<1> QED
    BY <1>3, <1>4, <1>5, <1>6, <1>7, <1>8, OneTask DEF Quiet

\* A task that is asked for again is unsettled from then on.
LEMMA AgainStep ==
    ASSUME Inductive, NEW t \in Ids, WaitAgain(t)
    PROVE  Inductive' /\ Safe
<1>1. tasks[t] \in Task
    BY Parts
<1>2. PICK keeping \in BOOLEAN : tasks' = [tasks EXCEPT ![t] = WaitsAgain(tasks[t], keeping)]
    BY DEF WaitAgain
<1> DEFINE new == WaitsAgain(tasks[t], keeping)
<1>3. new \in Task
    BY <1>1, WaitsAgainTask
<1>4. new.worktree = tasks[t].worktree
    BY <1>1 DEF WaitsAgain, Task
<1>5. /\ tasks' = [tasks EXCEPT ![t] = new]
      /\ again' = IF lock = Nobody THEN again ELSE again \cup {t}
      /\ UNCHANGED <<areas, queue, hands, tidying, stillAt, remade, deaths>>
    BY <1>2 DEF WaitAgain
<1> HIDE DEF new
<1>6. again' \subseteq Ids /\ again \subseteq again'
    BY <1>5, Parts
<1>7. TypeOK /\ tasks' \in [Ids -> Task] => TypeOK'
    BY <1>5, <1>6 DEF TypeOK, tidying
<1>8. /\ Unsettled \subseteq Unsettled' /\ remade' = remade /\ UNCHANGED tidying /\ areas' = areas
      /\ lock \in Tidiers => t \in Unsettled'
    BY <1>5, <1>6, Parts DEF Unsettled
<1>9. \A u \in Ids : InHand(u)' <=> InHand(u)
    BY <1>5 DEF InHand
<1> QED
    BY <1>3, <1>4, <1>5, <1>7, <1>8, <1>9, OneTask

\* A tidying lists what is finished with, takes away what it listed, and
\* forgets what it took away.
LEMMA ListStep ==
    ASSUME Inductive, NEW x \in Tidiers, List(x)
    PROVE  Inductive' /\ Safe
<1>1. /\ lock' = x
      /\ asked' = [asked EXCEPT ![x] = Tidyable(tasks)]
      /\ went' = [went EXCEPT ![x] = {}]
      /\ stillAt' = {t \in Ids : InHand(t)}
      /\ again' = {} /\ remade' = {}
      /\ UNCHANGED <<tasks, areas, queue, hands, deaths>>
    BY DEF List
<1>2. Tidyable(tasks) \subseteq Ids /\ \A t \in Tidyable(tasks) : FinishedWith(t)
    BY Parts DEF Tidyable, FinishedWith
<1>3. TypeOK'
    BY <1>1, <1>2, Parts DEF Inductive, TypeOK
<1>4. \A t : (FinishedWith(t)' <=> FinishedWith(t)) /\ (InHand(t)' <=> InHand(t))
    BY <1>1 DEF FinishedWith, IsEnded, InHand
<1>5. asked'[x] = Tidyable(tasks) /\ went'[x] = {}
    BY <1>1, Parts
<1>6. \A t \in Ids : InHand(t) => t \in Unsettled'
    BY <1>1 DEF Unsettled
<1>7. Held'
    BY <1>1, <1>2, <1>4, <1>5, <1>6 DEF Held
<1>8. Safe
    BY <1>1 DEF Safe, ForgetsGone, GoesFinished, Forgotten
<1> QED
    BY <1>3, <1>7, <1>8 DEF Inductive

LEMMA TakeAwayStep ==
    ASSUME Inductive, NEW x \in Tidiers, NEW t \in Ids, TakeAway(x, t)
    PROVE  Inductive' /\ Safe
<1>1. lock = x /\ t \in asked[x] /\ (FinishedWith(t) \/ t \in Unsettled)
    BY DEF TakeAway, IsNext, Inductive, Held
<1>2. /\ asked' = [asked EXCEPT ![x] = asked[x] \ {t}]
      /\ UNCHANGED <<tasks, queue, hands, lock, since, deaths>>
    BY DEF TakeAway, IsNext
<1>3. \/ areas' = areas \ {t} /\ went' = [went EXCEPT ![x] = went[x] \cup {t}]
      \/ areas' = areas /\ went' = went
    BY DEF TakeAway
<1>4. TypeOK'
    <2>1. asked' \in [Tidiers -> SUBSET Ids] /\ went' \in [Tidiers -> SUBSET Ids] /\ areas' \subseteq Ids
        BY <1>2, <1>3, Parts
    <2> QED
        BY <1>2, <2>1 DEF Inductive, TypeOK, since
<1>5. Unsettled' = Unsettled /\ remade' = remade
    BY <1>2 DEF Unsettled, since
<1>6. \A u : (FinishedWith(u)' <=> FinishedWith(u)) /\ (InHand(u)' <=> InHand(u))
    BY <1>2 DEF FinishedWith, IsEnded, InHand
<1>7. /\ asked'[x] \subseteq asked[x]
      /\ went'[x] \subseteq went[x] \cup {t}
      /\ went'[x] \cap areas' \subseteq remade \cap Unsettled
    <2>1. went[x] \cap areas \subseteq remade \cap Unsettled
        BY <1>1 DEF Inductive, Held
    <2> QED
        BY <1>2, <1>3, <2>1, Parts
<1>8. \A u \in (asked[x] \cup went[x]) \ Unsettled : FinishedWith(u) /\ ~ InHand(u)
    BY <1>1 DEF Inductive, Held
<1>9. lock' = x /\ t \in asked[x]
    BY <1>1, <1>2
<1>10. Held'
    BY <1>5, <1>6, <1>7, <1>8, <1>9 DEF Held
<1>11. Safe
    BY <1>1, <1>2, <1>3 DEF Safe, ForgetsGone, GoesFinished, Forgotten
<1> QED
    BY <1>4, <1>10, <1>11 DEF Inductive

LEMMA IsOverTyped ==
    ASSUME IsOver
    PROVE  /\ Held' /\ lock' = Nobody
           /\ asked' \in [Tidiers -> SUBSET Ids] /\ went' \in [Tidiers -> SUBSET Ids]
           /\ again' \subseteq Ids /\ stillAt' \subseteq Ids /\ remade' \subseteq Ids
BY TidierAssumption DEF IsOver, Held

LEMMA ForgetStep ==
    ASSUME Inductive, NEW x \in Tidiers, Forget(x)
    PROVE  Inductive' /\ Safe
<1>1. lock = x /\ IsOver /\ UNCHANGED <<areas, queue, hands, deaths>>
    BY DEF Forget
<1>2. /\ tasks' \in [Ids -> Task]
      /\ \A t \in Ids : t \notin went[x] => tasks'[t] = tasks[t]
    <2>1. CASE UNCHANGED tasks
        BY <2>1, Parts
    <2>2. CASE tasks' = [t \in Ids |-> IF t \in went[x]
                                       THEN [tasks[t] EXCEPT !.worktree = FALSE]
                                       ELSE tasks[t]]
        <3>1. ASSUME NEW t \in Ids
              PROVE  /\ tasks'[t] \in Task
                     /\ t \notin went[x] => tasks'[t] = tasks[t]
            <4>1. tasks'[t] = IF t \in went[x] THEN [tasks[t] EXCEPT !.worktree = FALSE]
                                               ELSE tasks[t]
                BY <2>2
            <4>2. tasks[t] \in Task
                BY Parts
            <4>3. [tasks[t] EXCEPT !.worktree = FALSE] \in Task
                BY <4>2 DEF Task
            <4> QED
                BY <4>1, <4>2, <4>3
        <3> QED
            BY <2>2, <3>1
    <2> QED
        BY <2>1, <2>2 DEF Forget
<1>3. TypeOK'
    BY <1>1, <1>2, IsOverTyped DEF Inductive, TypeOK
<1>4. went[x] \cap areas \subseteq remade \cap Unsettled
    BY <1>1 DEF Inductive, Held
<1>5. Safe
    BY <1>1, <1>2, <1>4 DEF Safe, ForgetsGone, GoesFinished, Forgotten
<1> QED
    BY <1>1, <1>3, <1>5, IsOverTyped DEF Inductive

\* A core that dies leaves the backlog and the disk as they were, and no hold.
LEMMA DieStep ==
    ASSUME Inductive, Die
    PROVE  Inductive' /\ Safe
<1>1. IsOver /\ UNCHANGED <<tasks, areas>>
    BY DEF Die
<1>2. /\ deaths' \in 0..MostDeaths
      /\ queue' \in [Ids -> Nat]
      /\ hands' \in [Workers -> [task : Ids \cup {NoTask},
                                 step : {"none", "prepare", "note", "work"}]]
    BY BoundAssumption DEF Inductive, TypeOK, Die, Free
<1>3. TypeOK'
    BY <1>1, <1>2, IsOverTyped DEF Inductive, TypeOK
<1>4. Safe
    BY <1>1 DEF Safe, ForgetsGone, GoesFinished, Forgotten
<1> QED
    BY <1>1, <1>3, <1>4, IsOverTyped DEF Inductive

\* Every step keeps the invariant, and the promises.
LEMMA StepSafe == Inductive /\ [Next]_vars => Inductive' /\ Safe
<1> SUFFICES ASSUME Inductive, [Next]_vars PROVE Inductive' /\ Safe
    OBVIOUS
<1>1. CASE UNCHANGED vars
    <2>1. TypeOK'
        BY <1>1 DEF vars, tidying, since, Inductive, TypeOK
    <2>2. Safe
        BY <1>1 DEF vars, Safe, ForgetsGone, GoesFinished, Forgotten
    <2>3. Held'
        BY <1>1 DEF vars, tidying, since, Inductive, Held, FinishedWith, IsEnded, InHand, Unsettled
    <2> QED
        BY <2>1, <2>2, <2>3 DEF Inductive
<1>2. ASSUME NEW t \in Ids, NEW w \in Workers,
             Take(w, t) \/ Prepare(w, t) \/ Note(w, t) \/ Answer(w, t)
      PROVE  Inductive' /\ Safe
    BY <1>2, TakeStep, PrepareStep, NoteStep, AnswerStep
<1>3. ASSUME NEW t \in Ids, Assign(t) \/ Dispose(t) \/ WaitAgain(t)
      PROVE  Inductive' /\ Safe
    BY <1>3, AssignStep, DisposeStep, AgainStep
<1>4. ASSUME NEW x \in Tidiers, List(x) \/ Forget(x) \/ \E t \in Ids : TakeAway(x, t)
      PROVE  Inductive' /\ Safe
    BY <1>4, ListStep, ForgetStep, TakeAwayStep
<1> QED
    BY <1>1, <1>2, <1>3, <1>4, GiveUpStep, InterruptStep, DieStep DEF Next

----------------------------------------------------------------------------
(* The theorems. *)

\* Whoever tidies holds a list of tasks that are finished with still and that
\* no worker has in hand, but for those asked for again since and those a
\* worker was still at then; what it took away is back only where a worker made
\* one of those anew.
THEOREM TidyingInductive == Spec => []Inductive
<1>1. Inductive /\ [Next]_vars => Inductive'
    BY StepSafe
<1> QED
    BY <1>1, InitInductive, PTL DEF Spec

\* No directory that is on the disk is forgotten, wherever sessions are stopped,
\* workers turned away and tasks asked for again, but one that a worker made
\* anew after it had gone (core/service/review.rs:242-252).
THEOREM TidyingForgetsOnlyWhatWent == Spec => ForgetsOnlyWhatWent
<1>1. Inductive /\ [Next]_vars => [ForgetsGone]_vars
    BY StepSafe DEF Safe
<1> QED
    BY <1>1, TidyingInductive, PTL DEF Spec, ForgetsOnlyWhatWent, ForgetsGone

\* Nor does one go that somebody may still look into, of any task that nobody
\* asked for again and no worker was at when it was listed (docs/cli.md:669).
THEOREM TidyingGoesOnlyWhenFinishedWith == Spec => GoesOnlyWhenFinishedWith
<1>1. Inductive /\ [Next]_vars => [GoesFinished]_vars
    BY StepSafe DEF Safe
<1> QED
    BY <1>1, TidyingInductive, PTL DEF Spec, GoesOnlyWhenFinishedWith, GoesFinished
----------------------------------------------------------------------------
(* Taking up a result. *)

LEMMA PatchParts ==
    ASSUME ApplyInductive
    PROVE  /\ point \in [Result -> Files] /\ tip \in [Result -> Files]
           /\ head \in [File -> Content] /\ tree \in [File -> Content]
           /\ touched \in [Result -> SUBSET File]
           /\ DOMAIN made = Result /\ DOMAIN put = Result /\ DOMAIN decided = Result
           /\ call.at # "idle" => call.task \in Result
           /\ call.patch \in Patch /\ DOMAIN call.patch \subseteq File
           /\ \A t \in Result : Diverged(t) \subseteq touched[t]
BY DEF ApplyInductive, ApplyTypeOK, WrittenByRuns, Patch, Files

\* Before anything was written a branch is the base it left.
LEMMA ApplyInitInductive == ApplyInit => ApplyInductive
<1> SUFFICES ASSUME ApplyInit PROVE ApplyInductive
    OBVIOUS
<1>1. head \in Files /\ tree \in Files
    BY ContentAssumption DEF ApplyInit, Files
<1>2. Idle.patch \in Patch
    <2>1. Idle.patch \in [{} -> [from : Lines, to : Lines]]
        BY DEF Idle
    <2> QED
        BY <2>1 DEF Patch
<1>3. call \in [at : {"idle", "asked", "clean", "read", "fits", "differs", "put"},
                task : Result \cup {Idle.task}, patch : Patch]
    <2>1. call = Idle
        BY DEF ApplyInit
    <2> QED
        BY <1>2, <2>1 DEF Idle
<1>4. call.at = "idle"
    BY DEF ApplyInit, Idle
<1>5. ApplyTypeOK
    BY <1>1, <1>3, <1>4 DEF ApplyInit, ApplyTypeOK
<1>6. WrittenByRuns
    BY DEF ApplyInit, WrittenByRuns, Diverged
<1> QED
    BY <1>4, <1>5, <1>6 DEF ApplyInductive, PatchIsMade

\* A call that is over, or that goes on with what it has.
LEMMA IdleCall ==
    ASSUME ApplyInductive, call' = Idle
    PROVE  /\ call' \in [at : {"idle", "asked", "clean", "read", "fits", "differs", "put"},
                         task : Result \cup {Idle.task}, patch : Patch]
           /\ call'.at = "idle"
<1>1. Idle.patch \in [{} -> [from : Lines, to : Lines]]
    BY DEF Idle
<1>2. Idle.patch \in Patch
    BY <1>1 DEF Patch
<1> QED
    BY <1>2 DEF Idle

\* A step of anybody else's, which leaves the call and what it read alone.
LEMMA BesideCall ==
    ASSUME ApplyInductive, UNCHANGED <<call, made, put>>,
           point' \in [Result -> Files], tip' \in [Result -> Files],
           head' \in Files, tree' \in Files, touched' \in [Result -> SUBSET File],
           DOMAIN decided' = Result, DOMAIN ran' = Result, DOMAIN tries' = Result,
           \A t \in Result : Diverged(t)' \subseteq touched'[t]
    PROVE  ApplyInductive'
<1>1. ApplyTypeOK'
    BY DEF ApplyInductive, ApplyTypeOK
<1>2. PatchIsMade'
    BY DEF ApplyInductive, PatchIsMade, PutAsItReads, AsItReads, AsText
<1> QED
    BY <1>1, <1>2 DEF ApplyInductive, WrittenByRuns

\* A step of the call's that leaves the branches alone.
LEMMA BesideBranches ==
    ASSUME ApplyInductive, UNCHANGED <<point, tip, head, touched, ran, tries>>,
           tree' \in Files, DOMAIN decided' = Result,
           DOMAIN made' = Result, DOMAIN put' = Result,
           call' \in [at : {"idle", "asked", "clean", "read", "fits", "differs", "put"},
                      task : Result \cup {Idle.task}, patch : Patch],
           call'.at # "idle" => call'.task \in Result,
           PatchIsMade'
    PROVE  ApplyInductive'
<1>1. ApplyTypeOK'
    BY DEF ApplyInductive, ApplyTypeOK
<1>2. WrittenByRuns'
    BY DEF ApplyInductive, WrittenByRuns, Diverged
<1> QED
    BY <1>1, <1>2 DEF ApplyInductive

LEMMA RunsKeepPatch ==
    ASSUME ApplyInductive, NEW t \in Result,
           \/ RunStarts(t) \/ RunEnds(t) \/ DecideElse(t)
           \/ \E f \in File, c \in Content : RunCommits(t, f, c)
    PROVE  ApplyInductive'
<1>1. CASE RunStarts(t)
    <2>1. CASE t \in branches
        BY <1>1, <2>1, BesideCall, PatchParts
           DEF RunStarts, Files, ApplyInductive, ApplyTypeOK, Diverged
    <2>2. CASE t \notin branches
        <3>1. /\ point' = [point EXCEPT ![t] = head] /\ tip' = [tip EXCEPT ![t] = head]
              /\ touched' = [touched EXCEPT ![t] = {}]
              /\ ran' = [ran EXCEPT ![t] = "running"] /\ tries' = [tries EXCEPT ![t] = @ + 1]
              /\ UNCHANGED <<decided, head, tree, call, made, put>>
            BY <1>1, <2>2 DEF RunStarts
        <3>2. ASSUME NEW u \in Result PROVE Diverged(u)' \subseteq touched'[u]
            <4>1. CASE u = t
                BY <3>1, <4>1, PatchParts DEF Diverged
            <4>2. CASE u # t
                BY <3>1, <4>2, PatchParts DEF Diverged
            <4> QED
                BY <4>1, <4>2
        <3>3. /\ point' \in [Result -> Files] /\ tip' \in [Result -> Files]
              /\ head' \in Files /\ tree' \in Files /\ touched' \in [Result -> SUBSET File]
            BY <3>1, PatchParts DEF Files
        <3>4. DOMAIN decided' = Result /\ DOMAIN ran' = Result /\ DOMAIN tries' = Result
            BY <3>1 DEF ApplyInductive, ApplyTypeOK
        <3> QED
            BY <3>1, <3>2, <3>3, <3>4, BesideCall
    <2> QED
        BY <2>1, <2>2
<1>2. CASE RunEnds(t) \/ DecideElse(t)
    <2>1. /\ UNCHANGED <<point, tip, head, tree, touched, call, made, put>>
          /\ DOMAIN decided' = Result /\ DOMAIN ran' = Result /\ DOMAIN tries' = Result
        BY <1>2 DEF RunEnds, DecideElse, repository_, witness, ApplyInductive, ApplyTypeOK
    <2> QED
        BY <2>1, BesideCall, PatchParts DEF Diverged, Files
<1>3. ASSUME NEW f \in File, NEW c \in Content, RunCommits(t, f, c) PROVE ApplyInductive'
    <2>1. /\ tip' = [tip EXCEPT ![t][f] = c] /\ touched' = [touched EXCEPT ![t] = @ \cup {f}]
          /\ UNCHANGED <<point, head, tree, call, made, put, ran, tries, decided>>
        BY <1>3 DEF RunCommits, backlog_
    <2>2. tip' \in [Result -> Files] /\ touched' \in [Result -> SUBSET File]
        BY <2>1, PatchParts DEF Files
    <2>3. ASSUME NEW u \in Result PROVE Diverged(u)' \subseteq touched'[u]
        <3>1. \A g \in File : tip'[u][g] = tip[u][g] \/ (u = t /\ g = f)
            BY <2>1, PatchParts DEF Files
        <3>2. touched[u] \subseteq touched'[u] /\ (u = t => f \in touched'[u])
            BY <2>1, PatchParts
        <3> QED
            BY <2>1, <3>1, <3>2, PatchParts DEF Diverged
    <2> QED
        BY <2>1, <2>2, <2>3, BesideCall, PatchParts DEF ApplyInductive, ApplyTypeOK
<1> QED
    BY <1>1, <1>2, <1>3

\* What a person does leaves what the runs made alone: a branch that is merged
\* left the base where it ends.
LEMMA PersonKeepsPatch ==
    ASSUME ApplyInductive, PersonWorks
    PROVE  ApplyInductive'
<1>1. UNCHANGED <<tip, call, made, put, ran, tries, decided>>
    BY DEF PersonWorks, CommitTree, DropEdits, EditFile, DeleteBranch, MergeBranch, Person, backlog_
<1>2. DOMAIN decided' = Result /\ DOMAIN ran' = Result /\ DOMAIN tries' = Result
    BY <1>1 DEF ApplyInductive, ApplyTypeOK
<1>3. ASSUME UNCHANGED <<point, touched>>, head' \in Files, tree' \in Files
      PROVE  ApplyInductive'
    BY <1>1, <1>2, <1>3, BesideCall, PatchParts DEF Diverged
<1>4. CASE CommitTree \/ DropEdits
    BY <1>3, <1>4, PatchParts DEF CommitTree, DropEdits, Person, Files
<1>5. ASSUME NEW f \in File, NEW c \in Content, EditFile(f, c) PROVE ApplyInductive'
    BY <1>3, <1>5, PatchParts DEF EditFile, Person, Files
<1>6. ASSUME NEW t \in Result, DeleteBranch(t) PROVE ApplyInductive'
    BY <1>3, <1>6, PatchParts DEF DeleteBranch, Person, Files
<1>7. ASSUME NEW t \in Result, MergeBranch(t) PROVE ApplyInductive'
    <2> DEFINE merged == [f \in File |-> IF f \in Diverged(t) THEN tip[t][f] ELSE head[f]]
    <2>1. /\ point' = [point EXCEPT ![t] = tip[t]] /\ touched' = [touched EXCEPT ![t] = {}]
          /\ head' = merged /\ tree' = merged
        BY <1>7 DEF MergeBranch, Person
    <2>2. merged \in Files
        BY PatchParts DEF Files
    <2>3. point' \in [Result -> Files] /\ touched' \in [Result -> SUBSET File]
        BY <2>1, PatchParts
    <2>4. ASSUME NEW u \in Result PROVE Diverged(u)' \subseteq touched'[u]
        BY <1>1, <2>1, PatchParts DEF Diverged
    <2> HIDE DEF merged
    <2> QED
        BY <1>1, <1>2, <2>1, <2>2, <2>3, <2>4, BesideCall, PatchParts
<1> QED
    BY <1>4, <1>5, <1>6, <1>7 DEF PersonWorks

\* What each step of a call does to the rest.
LEMMA CallAlone ==
    ASSUME ApplyInductive, UNCHANGED <<backlog_, repository_>>, UNCHANGED touched,
           DOMAIN made' = Result, DOMAIN put' = Result,
           call' \in [at : {"idle", "asked", "clean", "read", "fits", "differs", "put"},
                      task : Result \cup {Idle.task}, patch : Patch],
           call'.at # "idle" => call'.task \in Result,
           PatchIsMade'
    PROVE  ApplyInductive'
BY BesideBranches, PatchParts DEF backlog_, repository_, Files, ApplyInductive, ApplyTypeOK

LEMMA RefusesKeeps ==
    ASSUME ApplyInductive, NEW why, Refuses(why)
    PROVE  ApplyInductive'
<1>1. PatchIsMade'
    BY IdleCall DEF Refuses, PatchIsMade, PutAsItReads, AsItReads, AsText
<1> QED
    BY <1>1, IdleCall, CallAlone, PatchParts DEF Refuses

LEMMA GoesOnKeeps ==
    ASSUME ApplyInductive, call.at # "idle",
           NEW to \in {"clean", "fits", "differs"}, GoesOn(to),
           to # "clean" => call.at = "read"
    PROVE  ApplyInductive'
<1>1. call' = [call EXCEPT !.at = to] /\ UNCHANGED <<made, put>>
    BY DEF GoesOn
<1>2. call \in [at : {"idle", "asked", "clean", "read", "fits", "differs", "put"},
                task : Result \cup {Idle.task}, patch : Patch]
    BY DEF ApplyInductive, ApplyTypeOK
<1>3. /\ call' \in [at : {"idle", "asked", "clean", "read", "fits", "differs", "put"},
                    task : Result \cup {Idle.task}, patch : Patch]
      /\ call'.at = to /\ call'.task = call.task /\ call'.patch = call.patch
    BY <1>1, <1>2
<1>4. PatchIsMade'
    BY <1>1, <1>3 DEF ApplyInductive, PatchIsMade, PutAsItReads, AsItReads, AsText
<1> QED
    BY <1>1, <1>3, <1>4, CallAlone, PatchParts DEF GoesOn

LEMMA AsksKeepPatch ==
    ASSUME ApplyInductive,
           \/ \E t \in Result : BeginApply(t)
           \/ AskClean \/ AskWhether \/ AskBackwards
    PROVE  ApplyInductive'
<1>1. ASSUME NEW t \in Result, BeginApply(t) PROVE ApplyInductive'
    <2>1. CASE ran[t] # "ended"
        BY <1>1, <2>1, RefusesKeeps DEF BeginApply
    <2>2. CASE ran[t] = "ended"
        <3>1. call' = [Idle EXCEPT !.at = "asked", !.task = t]
              /\ UNCHANGED <<backlog_, repository_, witness>>
            BY <1>1, <2>2 DEF BeginApply
        <3>2. Idle.patch \in Patch
            <4>1. Idle.patch \in [{} -> [from : Lines, to : Lines]]
                BY DEF Idle
            <4> QED
                BY <4>1 DEF Patch
        <3>3. call' = [at |-> "asked", task |-> t, patch |-> Idle.patch]
            BY <3>1 DEF Idle
        <3>4. PatchIsMade'
            BY <3>3 DEF PatchIsMade, PutAsItReads, AsItReads, AsText
        <3>5. UNCHANGED <<touched, made, put>> /\ UNCHANGED <<backlog_, repository_>>
            BY <3>1 DEF witness
        <3> QED
            BY <3>2, <3>3, <3>4, <3>5, CallAlone, PatchParts
    <2> QED
        BY <2>1, <2>2
<1>2. CASE AskClean
    BY <1>2, RefusesKeeps, GoesOnKeeps DEF AskClean, At
<1>3. CASE AskWhether
    BY <1>3, GoesOnKeeps DEF AskWhether, At
<1>4. CASE AskBackwards
    BY <1>4, RefusesKeeps DEF AskBackwards
<1> QED
    BY <1>1, <1>2, <1>3, <1>4

\* A file a patch has nothing of goes in nowhere; of any other it has the text.
LEMMA HunkReads ==
    ASSUME NEW from \in Content, NEW to \in Content
    PROVE  /\ Hunk(from, to) \in [from : Lines, to : Lines]
           /\ Hunk(from, to).from # NoLines =>
                  Hunk(from, to).to = AsText(to) /\ to \in Content \ Binary
<1>1. AsText(from) \in Content /\ AsText(to) \in Content
    BY LossyAssumption DEF AsText
<1>2. CASE from \in Binary \/ to \in Binary
    BY <1>2 DEF Hunk, Lines
<1>3. CASE ~ (from \in Binary \/ to \in Binary)
    BY <1>1, <1>3 DEF Hunk, Lines
<1> QED
    BY <1>2, <1>3

\* The patch that is read is what the runs made as it reads, file by file.
LEMMA ReadKeepsPatch ==
    ASSUME ApplyInductive, ReadPatch
    PROVE  ApplyInductive'
<1> DEFINE t == call.task
<1>1. call.at = "clean" /\ t \in Result
    BY PatchParts DEF ReadPatch, At
<1>2. ASSUME NEW why, Refuses(why) PROVE ApplyInductive'
    BY <1>2, RefusesKeeps
<1> DEFINE patch == [f \in Diverged(t) |-> Hunk(point[t][f], tip[t][f])]
<1>3. CASE /\ call' = [call EXCEPT !.at = "read", !.patch = patch]
           /\ made' = [made EXCEPT ![t] =
                           [f \in {g \in touched[t] : tip[t][g] # point[t][g]} |-> tip[t][f]]]
           /\ put' = [put EXCEPT ![t] = Idle.patch]
           /\ UNCHANGED touched /\ UNCHANGED <<backlog_, repository_>>
    <2>0. \A f \in Diverged(t) : f \in File /\ point[t][f] \in Content /\ tip[t][f] \in Content
        BY <1>1, PatchParts DEF Diverged, Files
    <2>1. patch \in [Diverged(t) -> [from : Lines, to : Lines]] /\ Diverged(t) \subseteq File
        BY <2>0, HunkReads
    <2>2. patch \in Patch
        BY <2>1 DEF Patch
    <2>3. {g \in touched[t] : tip[t][g] # point[t][g]} = Diverged(t)
        BY <1>1, PatchParts DEF Diverged
    <2>4. call \in [at : {"idle", "asked", "clean", "read", "fits", "differs", "put"},
                    task : Result \cup {Idle.task}, patch : Patch]
        BY DEF ApplyInductive, ApplyTypeOK
    <2>5. /\ call' \in [at : {"idle", "asked", "clean", "read", "fits", "differs", "put"},
                        task : Result \cup {Idle.task}, patch : Patch]
          /\ call'.at = "read" /\ call'.task = t /\ call'.patch = patch
        BY <1>3, <2>2, <2>4
    <2>6. made'[t] = [f \in Diverged(t) |-> tip[t][f]]
        BY <1>1, <1>3, <2>3, PatchParts
    <2>7. DOMAIN patch = DOMAIN made'[t]
        BY <2>6
    <2>8. \A f \in DOMAIN patch : patch[f].from # NoLines =>
              patch[f].to = AsText(made'[t][f]) /\ made'[t][f] \in Content \ Binary
        BY <2>0, <2>6, HunkReads
    <2>9. DOMAIN made' = Result /\ DOMAIN put' = Result
        BY <1>3, PatchParts
    <2> HIDE DEF patch
    <2>10. PatchIsMade'
        BY <2>5, <2>7, <2>8 DEF PatchIsMade, AsText
    <2> QED
        BY <1>1, <1>3, <2>5, <2>9, <2>10, CallAlone
<1>4. \/ Refuses("NoResult") \/ Refuses("NoChange")
      \/ /\ call' = [call EXCEPT !.at = "read", !.patch = patch]
         /\ made' = [made EXCEPT ![t] =
                         [f \in {g \in touched[t] : tip[t][g] # point[t][g]} |-> tip[t][f]]]
         /\ put' = [put EXCEPT ![t] = Idle.patch]
         /\ UNCHANGED touched /\ UNCHANGED <<backlog_, repository_>>
    BY DEF ReadPatch
<1> QED
    BY <1>2, <1>3, <1>4

\* git puts in the whole of the patch where every file of it is as the patch
\* has it.
LEMMA PutKeepsPatch ==
    ASSUME ApplyInductive, PutIn
    PROVE  ApplyInductive'
<1> DEFINE t == call.task
<1>1. call.at = "fits" /\ t \in Result
    BY PatchParts DEF PutIn, At
<1>2. CASE Forwards /\ Write
    <2>1. /\ tree' = [f \in File |-> IF f \in DOMAIN call.patch THEN call.patch[f].to ELSE tree[f]]
          /\ put' = [put EXCEPT ![t] =
                        [f \in DOMAIN call.patch \cup {g \in File : tree'[g] # tree[g]} |-> tree'[f]]]
          /\ call' = [call EXCEPT !.at = "put"]
          /\ UNCHANGED <<point, tip, head, touched, made, ran, tries, decided>>
        BY <1>2 DEF Write, backlog_
    <2>2. \A f \in DOMAIN call.patch : f \in File /\ call.patch[f].from # NoLines
        BY <1>2, ContentAssumption, PatchParts DEF Forwards
    <2>3. /\ DOMAIN call.patch = DOMAIN made[t]
          /\ \A f \in DOMAIN call.patch :
                call.patch[f].to = AsText(made[t][f]) /\ made[t][f] \in Content \ Binary
        BY <1>1, <2>2 DEF ApplyInductive, PatchIsMade
    <2>4. DOMAIN call.patch \cup {g \in File : tree'[g] # tree[g]} = DOMAIN made[t]
        BY <2>1, <2>3, PatchParts
    <2>5. put'[t] = [f \in DOMAIN made[t] |-> tree'[f]]
        BY <1>1, <2>1, <2>4, PatchParts
    <2>6. \A f \in DOMAIN made[t] : tree'[f] = AsText(made[t][f])
        BY <2>1, <2>2, <2>3
    <2>7. put'[t] = [f \in DOMAIN made[t] |-> AsText(made[t][f])]
        BY <2>5, <2>6
    <2>8. PutAsItReads(t)'
        BY <2>1, <2>3, <2>7 DEF PutAsItReads, AsItReads, AsText
    <2>9. call \in [at : {"idle", "asked", "clean", "read", "fits", "differs", "put"},
                    task : Result \cup {Idle.task}, patch : Patch]
        BY DEF ApplyInductive, ApplyTypeOK
    <2>10. /\ call' \in [at : {"idle", "asked", "clean", "read", "fits", "differs", "put"},
                         task : Result \cup {Idle.task}, patch : Patch]
           /\ call'.at = "put" /\ call'.task = t
        BY <2>1, <2>9
    <2>11. PatchIsMade'
        BY <2>8, <2>10 DEF PatchIsMade, PutAsItReads, AsItReads
    <2>12. tree' \in Files
        <3>1. \A f \in DOMAIN call.patch : call.patch[f].to \in Content
            BY <2>3, LossyAssumption DEF AsText
        <3> QED
            BY <2>1, <3>1, PatchParts DEF Files
    <2>13. DOMAIN made' = Result /\ DOMAIN put' = Result /\ DOMAIN decided' = Result
        BY <2>1, PatchParts
    <2> QED
        BY <1>1, <2>1, <2>10, <2>11, <2>12, <2>13, BesideBranches
<1>3. CASE Refuses("Conflicts")
    BY <1>3, RefusesKeeps
<1> QED
    BY <1>2, <1>3 DEF PutIn

\* A save, and a death.
LEMMA EndsKeepPatch ==
    ASSUME ApplyInductive, SaveApplied \/ ApplyDies
    PROVE  ApplyInductive'
<1>1. /\ call' = Idle /\ DOMAIN decided' = Result
      /\ UNCHANGED <<point, tip, head, tree, touched, made, put, ran, tries>>
    BY PatchParts DEF SaveApplied, ApplyDies, repository_, witness, backlog_
<1>2. PatchIsMade'
    BY <1>1, IdleCall DEF PatchIsMade, PutAsItReads, AsItReads, AsText
<1>3. tree' \in Files
    BY <1>1, PatchParts DEF Files
<1> QED
    BY <1>1, <1>2, <1>3, IdleCall, BesideBranches, PatchParts

\* The patch a call holds is what the task's runs made when it was read, file
\* by file and as it reads, and stays that until it is in.
THEOREM ApplyingInductive == ApplySpec => []ApplyInductive
<1>1. ApplyInductive /\ [ApplyNext]_applyVars => ApplyInductive'
    <2> SUFFICES ASSUME ApplyInductive, [ApplyNext]_applyVars PROVE ApplyInductive'
        OBVIOUS
    <2>1. CASE UNCHANGED applyVars
        BY <2>1 DEF applyVars, backlog_, repository_, witness, ApplyInductive, ApplyTypeOK,
                    WrittenByRuns, Diverged, PatchIsMade, PutAsItReads, AsItReads, AsText
    <2> QED
        BY <2>1, RunsKeepPatch, PersonKeepsPatch, AsksKeepPatch, ReadKeepsPatch, PutKeepsPatch,
           EndsKeepPatch DEF ApplyNext
<1> QED
    BY <1>1, ApplyInitInductive, PTL DEF ApplySpec

\* Without the subscript.
RecordedAsMade ==
    \A t \in Result : decided[t] # "applied" /\ decided'[t] = "applied" => PutAsItReads(t)

\* A result is recorded as taken up by a call that put in what its runs made, as
\* it reads, and no more, whatever a person did to the files between one
\* question of git's and the next, for any number of tasks and files
\* (core/service/review.rs:161-190).  Of files that are all text that is what
\* they made; one that is binary keeps the whole of it out.
THEOREM ApplyingTakesAsMade == ApplySpec => TakenAsMade
<1>1. ApplyInductive /\ [ApplyNext]_applyVars => [RecordedAsMade]_applyVars
    <2> SUFFICES ASSUME ApplyInductive, ApplyNext PROVE RecordedAsMade
        OBVIOUS
    <2>1. CASE SaveApplied
        <3>1. call.at = "put" /\ call.task \in Result
            BY <2>1, PatchParts DEF SaveApplied, At
        <3>2. \A t \in Result : t # call.task => decided'[t] = decided[t]
            BY <2>1, PatchParts DEF SaveApplied
        <3>3. PutAsItReads(call.task)
            BY <3>1 DEF ApplyInductive, PatchIsMade
        <3> QED
            BY <3>2, <3>3 DEF RecordedAsMade
    <2>2. ASSUME NEW t \in Result, DecideElse(t) PROVE RecordedAsMade
        BY <2>2, PatchParts DEF DecideElse, RecordedAsMade
    <2>3. CASE \/ \E t \in Result :
                     \/ RunStarts(t) \/ RunEnds(t) \/ BeginApply(t)
                     \/ \E f \in File, c \in Content : RunCommits(t, f, c)
               \/ AskClean \/ ReadPatch \/ AskWhether \/ AskBackwards \/ PutIn
               \/ ApplyDies \/ PersonWorks
        <3>1. UNCHANGED decided
            BY <2>3 DEF RunStarts, RunEnds, BeginApply, RunCommits, AskClean, ReadPatch, AskWhether,
                        AskBackwards, PutIn, Write, ApplyDies, PersonWorks, CommitTree, DropEdits,
                        EditFile, DeleteBranch, MergeBranch, Person, Refuses, GoesOn, backlog_
        <3> QED
            BY <3>1 DEF RecordedAsMade
    <2> QED
        BY <2>1, <2>2, <2>3 DEF ApplyNext
<1> QED
    BY <1>1, ApplyingInductive, PTL DEF ApplySpec, TakenAsMade, RecordedAsMade
============================================================================
