# A verification of cistern's core

Cistern runs coding agents unattended: a person registers tasks, opens a
session with a budget, and a background program, `cisternd`, decides which
tasks to start, runs an agent for each, and stops when the budget, the time or
the work is used up. A command line program, `cistern`, talks to it over a
socket. This directory holds TLA+ models of `cisternd`
(`crates/cisternd/src`, called `src` below), the TLC runs that check them, and
proofs checked by TLAPS.

Contents: [the system](#the-system), [the modules](#the-modules),
[the runs](#the-runs), [bounds](#bounds), [fairness](#fairness),
[what is proved](#what-is-proved), [where code and words differ](#where-code-and-words-differ),
[what is not modelled](#what-is-not-modelled), [the plan](#the-plan).

## The system

| Part | Source | State | Operations | What is hard |
| --- | --- | --- | --- | --- |
| Backlog | `core/domain/task.rs` | the tasks, the next number | add, remove, assign, finish, record, conversed, dispose, wait again, turned away, interrupt, work area | answers that come late or twice; removing from a chain; a task in four states seen by five kinds of thread |
| Sessions | `core/domain/session.rs`, `core/service/sessions.rs` | the sessions, the next number | open, stop, record, measured, resets_at | readings taken outside the lock, arriving in any order, over a limit that begins again |
| Decision | `core/domain/supervision.rs` | none | decide, allow, set aside, fits | handing one room to several tasks; every reason a session may stop |
| Supervisor | `core/service/supervision.rs` | none of its own | settle, stop, the deadline | three holds of two locks and calls to agents in between |
| Workers | `core/service/work.rs`, `main.rs`, `platform/work.rs` | the queue | carry a task from the queue to its end | everything a worker read may be stale when it acts |
| Agent | `adapter/outbound/program/agent.rs` | the process group of each running task | work, stop | a process exists before its group is written down |
| Review | `core/service/review.rs` | the `tidying` lock | apply, discard, retry, resume, tidy | tidying reads, removes and forgets in three steps |
| Work areas, results | `adapter/outbound/git/` | directories, branches | prepare, remove, apply | the disk and the backlog do not change together; what git prints is read as text |
| Stores | `adapter/outbound/file/` (`kept.rs`) | the files | read, change and write under the file's lock; the configuration without it | a call that fails or a death part way; two writers of one copy |
| Ledger | `adapter/outbound/file/run.rs` | a file of lines | append, read | a death part way through a line; two writers |
| Traces | `adapter/outbound/file/trace.rs` | a file per task | write, follow by cursor | a reader and a writer at once, two runs of a task at once, lines that take several writes |
| Sizing | `core/domain/sizing.rs` | none | what runs of a model come to, per unit | figures from few runs, between two of them; a run stopped half way |
| Policy, configuration, definitions | `core/domain/policy.rs`, `core/service/configuration.rs`, `definition.rs` | a file of keys, a file per vendor | set, get, read at start | what `set` takes and what the next start takes are two things, with a person's editor in between |
| Limit reader | `adapter/outbound/program/limit.rs` | one directory with one file | a look | two looks at once, a program that answers late or never |
| Drafting, grounding | `core/domain/spec.rs`, `decisions.rs`, `drafter.rs`, `service/backlog.rs` | none: what a surface hands back is text | ask, draft, settle, check again, register | a repository that moves between the rounds; a second answer that undoes a first; marks of a document that are part of a name |
| Requests | `cistern-contract/src/exchange.rs`, `adapter/inbound/` | one connection's time | read a line, read a request, ask a use case, answer | a surface that sends a piece at a time; what a field of another type is read as |
| Command line | `cistern/src/` | none | every command, its request and its code; the rounds of `task add`; following a trace | an answer lost after the command was carried out |
| One core | `cistern-contract/src/address.rs`, `cistern/src/daemon.rs` | the lock, the socket | listen, connect, start a core | two starting at once; what a killed one leaves |

How they interact. Each request is answered on a thread of its own. The
handlers change the backlog and the session store, each under its own lock, and
hand the numbers of tasks they assigned to a queue. Twenty workers take numbers
from the queue, run an agent for each and, when it ends, write down how, measure
what the session spent, and let the supervisor decide what starts next. One more
thread looks at the deadline. Nothing holds two locks at once, except that
`settle` reads the session before it holds the backlog; every sequence of holds
may therefore be interleaved with every other, and that is where the difficult
behaviour is. The stores are files; a core that dies leaves what they hold.

What makes each part correct, in a sentence: the *backlog* is always one the
core can read back, and an ending is final; a *session's* figure only grows,
is no more than was spent but for looks that come a window late, and is
charged once; a *decision* hands out no more than there is, strands nobody,
and never waits for nothing; a *worker* loses no task, runs nothing for a
session that stopped, and answers for its own run; *tidying* removes what is
finished with and forgets only what it removed, but where a worker is still at
a task it lists or is given it again; a change to a *store* happened or did
not; a line of the *ledger* stays and stays alone; a *trace* is shown in its
order, once and to its end; *one core* at a time opens the socket and serves,
and a command that finds none gets an answer from whichever core wins; a
*command* reaches a use case once at most and as it was typed; what is
*registered* is what the person saw; the *sizes* say what the runs took; what
may be *set* lets a core start again, unless two set at once; a *look* alone
reads what the limit is now; a *result* is taken up as the runs made it, as it
reads as text.

## The modules

| Module | Models | State and actions |
| --- | --- | --- |
| `Tasks` | a backlog as a value: what a task holds and what each operation of `Backlog` makes of one | no variables; `Assigned`, `Finished`, `Disposed`, `WaitsAgain`, `TurnedAway`, `Remove`, `Waiting`, `Blocked`, `Restorable`, ... keep the names of the code |
| `Backlog` | the backlog store (`core/service/backlog.rs`): every change made to it, each one hold of its lock | `tasks`, `next_id`; one action per use of `change`: `AddTask`, `RemoveTask`, `AssignAll`, `RunEnded`, `RunTurnedAway`, `Dispose`, `WaitAgain`, `Interrupt`, `WorkArea`, `WorkAreasGone` |
| `SessionSet` | sessions as a value | `Opened`, `Stopped`, `Recorded`, `Measured`, `Charge`, `ResetsAt` |
| `Sessions` | the session store and the vendor's limit, with looks and figures in flight | a look is taken (`LookToOpen`, `LookToMeasure`, `LookWhenTurnedAway`) and arrives later (`Arrive`: `Open`, `Measure`, `NoteWindow`); `Record`, `Stop`; the limit moves by itself (`Spend`, `BeginAgain`); `heard` counts, for the properties, the looks that come after one of a later window |
| `Deciding` | the decision as one expression, under any policy | `Allow`, `SetAside`, `NothingMore`, `Decide` |
| `Allowing` | the loop of `allow` task by task, and the decision made from it | `Give`, `PassOver`, `Break` |
| `Sizing` | what a ledger that grows run by run comes to | `NoteRun`; `Quantile`, `Samples`, `Under`, `Cost`, `Lasting`, `MovedPerMillionth` |
| `Configuring` | the configuration file, placed definitions, handlers of `config set`, which share one copy of the file, a core that starts under them | a handler: `BeginSet`, `OpenBeside`, `WriteSome`, `WriteRest`, `WriteFails`, `RenameBeside`, `SetFails`; a person: `EditByHand`, `Place`; `CoreStarts`, `CoreEnds` |
| `Looking` | looks at the limit over the one file they share | a look: `LayOut`, `StartVendor`, `Watches`, `TrustIt`, `AskIt`, `ReadIt`, `GiveUpLooking`; its program: `IsUp`, `Screen`, `AnswerComes`, `VendorEnds`; the script behind the status line: `BeginLine`, `PutObject`, `PutNewLine`; `LimitMoves` |
| `Judging` | the four above side by side: what a session is judged by | `judged` says which of them a behaviour is about |
| `Daemon` | the threads of the core over both stores, the queue and the agents | a worker: `Take`, `ReadTask`, `Prepare`, `NoteArea`, `Spawn`, `Register`, `AgentEnds`, `KilledReturns`, `EndTask`, `TurnAway`; `settle`: `SettleRead`, `DecideNow`, `Record`, `Enqueue`; `stop`: `StopRead`, `Kill`, `StopSession`, `InterruptTasks`; a handler: `AskRun`, `Open`, `AskInterrupt`; the deadline: `ClockLooks`, `ClockReads`; the other commands, `Crash`, `OrphanEnds` |
| `Applying` | `apply` against runs of the task and a person in the repository | the core: `BeginApply`, `AskClean`, `ReadPatch`, `AskWhether`, `AskBackwards`, `PutIn`, `SaveApplied`, `ApplyDies`; a person: `EditFile`, `CommitTree`, `DropEdits`, `DeleteBranch`, `MergeBranch`; a run: `RunStarts`, `RunCommits`, `RunEnds` |
| `Tidying` | work areas, on the disk and in the backlog, and `tidy` against workers, commands and deaths | the queue and a worker: `Assign`, `Take`, `Prepare`, `Note`, `Answer` (an end, or the vendor turning it away), `GiveUp`; a person: `Interrupt`, `Dispose`, `WaitAgain`; a tidying: `List`, `TakeAway`, `Forget`; `Die` |
| `MCRepository` | `Tidying` and `Applying` side by side | `does` says which |
| `Specs` | a spec as a value: its parts, its text with the marks at the ends of a line, what a draft says, what the repository holds up, what is left to decide | no variables |
| `Adding` | one `task add`: the person, the surface's rounds, the core, the model, the repository that moves | the core: `TakeAsWritten`, `ReadAsSpec`, `Draft`, `DraftAgain`; the surface: `PutUp`, `SettleNext`, `ChangeLine`, `Accept`, `SayNo`; `RepositoryMoves` |
| `Requests` | one connection: pieces that arrive, the time left before each read, the envelope | `Send`, `Leave`, `BeginRead`, `TakePieces`, `FindItGone`, `SettleIt`, `Tick` |
| `Commands` | one command: what is typed, what the surface writes, what the core reads, the code | `FindNobody`, `Connect`, `Settles`, `ExchangeBreaks`, `HearBack`, `HearNothing`; three tables `Arguments`, `Sends`, `Hears` |
| `Surfaces` | `Cores`, `Requests`, `Commands` and `Adding` side by side | `between` says which |
| `Cores` | the processes of `cisternd` over the lock and the socket, and the command lines that start one | a core: `Load`, `HoldAlone`, `Exists`, `Probe`, `RemoveDead`, `Bind`, `Listen`; what ends it: `Quit`, `Kill`, `Signal`, `HandlerRemoves`, `HandlerExits`; a command line: `Ask`, `AskAgain`, `TryWait`, `GoOn`, `GiveUp`, `Answer` |
| `Disk` | what the modules of files share | pieces of a write, failures, deaths; no variables |
| `Kept` | one store's file: a change as the calls it makes, with the lock held (`Holding`) or not | `Begin`, `Hold`, `Read`, `Open`, `Write`, `Rename`, the failures `WriteFails` and `StepFails`, `CoreDies`; a file is a row of pieces, a document the set of changes made to it |
| `Ledger` | appending to the ledger and what reading leaves out | `AppendRun`, `Lock`, `Look`, `PutDown`, `Noted`, `AppendFails`, `WritersDie`; the file is a row of bytes |
| `Traces` | what the runs of a task write and a command that follows it | the runs: `RunBegins`, `LineBegins`, `PieceWritten`, `RunIsOver`, `Interrupted`, `Dies`; the command: `StartReading`, `AskWhetherDone`, `ReadOn`, `PastTheLine`, `Judge` |
| `Restoring` | the three loops of `restore`, step by step | one step per task asked about or link followed |
| `Stored` | what an entry of a store says, field by field, what the core reads from it and what it writes back | `ReadIt`, `WriteIt`; `Parse` and `Display` per sort of value, and what each kind of entry holds |
| `Files` | the five above side by side | `which` says which of them a behaviour is about |
| `MC...` | the instances TLC checks | |
| `...Proofs` | the theorems and their proofs | |

**How the modules fit.** `Backlog` is the abstract specification of the backlog
store: each of its actions may come whenever the code could be this late.
`Daemon` is the detailed one: its threads keep frames of what they read and act
on it later. `Daemon!IsStored` is `Backlog`'s specification with the stores of
`Daemon` put in its place, and run `daemon_failing` checks that `Daemon`
implements it; so what is proved of `Backlog` holds of the threads. `Deciding`
is used by `Daemon` and shown to be what the loop of `Allowing` comes to.
`Tasks` and `SessionSet` are used by all.

**What one step is.** One hold of a lock, or one call outside. Code under a lock
is one action whatever it does inside; code between two holds is where other
threads come in. The call `backlog::change` reads, changes and saves under the
lock (`src/core/service/backlog.rs`), so it either happens or fails whole.

**Correspondences worth knowing.** A backlog is a function from numbers to
tasks; the code's vector is in the order of the numbers, so `Waiting` and what
`settle` hands to the decision are sorted by number. A task's `Observation` is
`NotYet`, `Unreadable` or `Spent(n)`. A frame in `Daemon` is the stack of a
thread: `at` is the line it has come to, `attempt` the attempt it read, `todo`
what it has yet to queue or kill. `late` is the sessions whose declared time is
over, `alive` the agents that exist, `running` the map of
`agent.rs`; `orphans` are agents a core that died left behind.

## The runs

Twelve runs, of which two expect a violation (see
[where code and words differ](#where-code-and-words-differ)). The passing ones,
and what each shows:

| Run | Instance | Properties |
| --- | --- | --- |
| `backlog` | up to four tasks chained in every way, two sessions, two runs of a task while there were no more than two and one from there on, answers late or twice | `StaysRestorable`: no history makes a store the core would refuse to read; `BlockedForAReason`: tasks never wait only on each other; `OrderKept`: taking a task out changes nothing about what else waits on what; `FirstAnswerStands`: an ending is final |
| `sessions` | one session, two windows of the limit, looks and figures in flight three at a time, arriving in any order | `OnlyTheOvertakenOverstate`: what is recorded is no more than the limit moved, but for two windows for each look that arrived after one of a later window; `NothingChargedTwice`: the same of what its runs are charged for; `WhatIsSaidStands`: what a session spent never falls, and why it stopped is what was said first |
| `judging` | every standing of a range (2 tasks, figures up to 4) under five policies; every ledger of four runs of two models; a file of three keys, two handlers of `set` over one copy, calls that fail, a core that dies, one change by hand; two looks | `WithinRoom` and `NobodyLeftBehind`: the round gives out no more than there is and strands nobody whom what is left would cover; `SizedFromItsRuns`, `FollowsTheRun`: what a model's runs come to, counted without sorting, and what one more run does to it; `StartsAgain`: whatever was set, a core starts under it, unless two handlers shared the copy that is in place or a person spoiled it; `FreshByItself`, `LooksEnd`: a look no other overlaps reads nothing from before it began, and every look ends |
| `daemon` | three tasks over two workers, a budget of two runs or three, a session store that may refuse a figure | `NothingLost`: a task that runs is queued, about to be, or in a worker's hands; `AddsWithinMeans`: a decision starts no more than there are hands and no more than the budget covers beside what is going |
| `daemon_sessions` | a task interrupted and tried again under a second session while threads of the first still step | `NeverUnattended`: a session that runs has a run, or a thread about to decide about it |
| `daemon_live` | nobody intervenes, no call fails | `SessionEnds`, `RunEnds`, under fairness |
| `daemon_failing` | every call may fail, the core may die, every command | `IsStored`: the refinement to `Backlog` |
| `surfaces` | two command lines and a core started by hand, over a socket that may be a dead core's, with kills, signals to the holder, failures to load, times that run out; one request of up to four pieces and a time of four; every command with any of its arguments given, and with any one field of its request absent, null, another word, a flag or something else; a task added over three asks, by a document or a line, at a terminal or by a script, while the repository moves once | `ServingIsReachable`: a core that serves and is not being stopped is the one on the path; `Answered`: a command is answered unless a core was brought to an end meanwhile or its own time ran out; `HeldNoLonger`: a connection holds a thread no longer than it is given, however it sends; `UnderstoodOnce`: a command reaches one use case, once at most, as it was typed; `RegisteredAsSeen`, `RegisteredLeavesNothing`, `AskedOnce`: what is registered is what was seen, leaves nothing to decide, and no line is asked about twice unless a place or a command begins or ends in a mark; `HeldUpIsKept`: a second answer of the model keeps what the first settled |
| `repository` | two tasks, two workers, two tidying threads, an interrupt, a turning away and a `retry` at any moment, a death; a result of two files, text, other than UTF-8 or binary, run twice, and a person who edits, commits, merges and deletes | `ForgetsOnlyWhatWent`: what is forgotten went, though a worker may have made it anew; `GoesOnlyWhenFinishedWith`: but for tasks a worker was at when they were listed, or that were asked for again, a work area that goes is finished with when it goes; `TakenAsMade`: what is recorded as applied is what the runs made of it, as it reads as text |
| `files` | a store changed three times by two threads; three runs noted by two writers; two lines written by two runs while a command reads them; every list of up to three tasks; every entry of a store with one field as it may be; calls that fail and a death | `EitherHappenedOrDidNot`: what is in place is one document with every change that was answered and none that was refused; `EveryNotedRunStands` and `OneMoreAtTheEnd`: what was noted is read back, once, and what is read back only grows at its end; `ShowsWhatFits`, `ShownOnce` and `ReadingEnds`: a reading shows what a read can hold, nothing twice, and ends; `AcceptsExactly`, `RestoreEnds`: the loops of `restore` take back exactly the lists that are backlogs, and end; `ReadsAsWritten`: what the core writes it reads back the same |

Modules that keep nothing of each other's are put side by side in one run
(`Judging`, `Surfaces`, `MCRepository`, `Files`): a behaviour is chosen at the
start to be about one of them, and the variables of the others rest. The
invariants the proofs rest on (`Inductive` of several modules, `TypeOK`) were
checked with TLC before they were proved; where a theorem says them for every
value of the constants no standing run repeats them.

Each property of a passing run has a mutant in `PROJECT.json`: the model with
one plausible mistake in a definition that stands for code, under which TLC
finds the property broken. The mistakes are the definitions named
`<Definition>_<Mistake>`, before the definition they would replace.

## Bounds

Every bound is a constant, or a `CONSTRAINT` of a run, and is named there.

- *Tasks.* Four make every shape a removal can meet: a task with one before it,
  one after it and one beside it. Three make a walk that leads into a cycle it
  is not on. Two are enough for workers to race, three to ask for more than two
  hands.
- *Attempts, sessions.* A late answer needs two of each and no more: the first
  attempt's, and the one it is mistaken for.
- *Looks and figures in flight.* Two are what it takes to arrive in the other
  order, three for a late look to arrive between two others: one that is
  overtaken, and the next after it, which then takes the window it is of for a
  new one. What a late look adds is a matter of one session, so one is opened.
- *Handlers of `config set`.* Two share the copy beside the file, and either may set
  again after. One change by hand is enough to spoil what one of them
  has read, or what the next core starts under.
- *Workers.* The code has twenty (`AT_ONCE`); two are interchangeable and enough
  for any pairwise interleaving. The model's `AtOnce` is the number of workers,
  as in the code, where one constant is handed to both.
- *Deaths.* One: what it leaves is what the next core starts from.
- *Pieces.* A document and a line of the ledger take two writes, so that one can
  be cut in the middle. A line of a trace is four or five bytes and a read takes
  four, so that one fits exactly and the other does not. The constraint
  `ShortWhereTwoWrite` keeps to lines of four where two runs write at once.
- *Ledgers.* Four runs put a quantile on a run, between two, and past the last;
  what they cost is far enough apart for rounding to show.
- *Requests.* A time of four and four pieces: a piece may come at each moment,
  and the last one too late.
- *Adding.* Three asks: the first, the one that settles, and the one that finds
  the repository moved. It moves once, which removes a file and makes a command
  pass. A place may reach two files and no more (`ReachesAtMost`, ten in the
  code), against a directory that reaches three. One word is a place only with a
  mark of its own, as `_config.yml` is, and a draft says it so, in code, or bare.
- *Entries.* One field of an entry is varied at a time, over an entry that holds
  only what it must and over one that holds everything. `Narrow` and `Wide` are
  the widths of an identifier and of a number, as small as tells them apart.
- *Work areas.* Two tasks, assigned three times in all: one is listed while its
  worker is still at it, or is asked for again and run, beside one that is not.
- *Results.* Two files of five contents: three of text, the least in which a patch
  goes in for one file and not for the other, and a person's change is neither
  side; one that is not UTF-8, which reads as another of them; and a binary one.
- *Files.* Four inodes: the one in place, the copy, and one each thread may still
  have open.
- *Budgets.* Two or three units where a run costs one or two: a budget is spent
  exactly, overspent by one run, and left with less than a run.
- `SYMMETRY` is used over workers, tidying threads and files, in runs that check
  safety only.

`Commands` and `Failing` say what a run of `Daemon` lets people ask for and what
may go wrong. `NothingLost` is checked with the session store refusing figures,
the failure `settle` is written for. It breaks where the backlog or a trace
fails, or the core dies, and only there, which `DaemonNothingLost` proves;
nothing in the repository says otherwise: a worker whose store or trace call
fails prints a line and takes its next task (`main.rs:198-201`), and the task
stays as running until its session is interrupted.

## Fairness

`Daemon!FairSpec`, `SurfacesSpec`, `JudgingSpec` and `Files!FairSpec` state some. In `Daemon`, each
worker, each handler and the deadline is weakly fair: each is an operating
system thread in a loop that waits on nothing but locks, which are held for one
step, and on its agent. That an agent ends is an assumption about the vendor's
program, whose turns are capped by its definition; `AgentEnds` is a step of the
worker that waits for it and so is fair too. Nothing is assumed of people, of
the clock (`TimeRunsOut` is not fair), or of failures. In `Cores`, each
process goes on by itself, a core and a command line alike, since none waits
for anything but the system; nobody is made to give a command or send a signal,
and no time is made to run out (`Command`, `Signal`, `Kill`, `LoadFails` and
`GiveUp` are not fair); `SurfacesFairly` says this of the behaviours that are
about the cores. In `Looking`, a worker goes on with its look, which gives up when
its time is over, and a program whose terminal is gone ends (`JudgingFairly`);
the vendor's program is made to do nothing else. In `Files` the loops of `restore` go on, a command that
reads a trace goes on, and a run goes on with a line it began (`ReadStep`,
`RunStep`, `RestoreNext`); nobody is made to begin a line, and nothing is made to
fail.

## What is proved

TLAPS checks these for every value of the constants, under the assumptions the
modules name (`SessionAssumption`, `BoundAssumption`, ...), which TLC evaluates
in the runs. Each invariant was checked with TLC on the instance of a run before
it was proved.

**The backlog** (`BacklogProofs`, over the lemmas of `TasksProofs`).
`Inductive == TypeOK /\ Ordered`: every task waits for one with a smaller number
that is there. `StaysRestorable` does not by itself survive a removal in a way
one can show step by step (a cycle could be closed by rewiring); `Ordered` does,
because what the removed task waited for is smaller still, and a chain that
falls cannot return. `BacklogBlockedForAReason` takes the waiting task with the
smallest number and asks what holds it back. `BacklogFirstAnswerStands` goes
through the actions. `BacklogOrderKept`: `Upstream` is the least set that nothing
leads out of, so it is enough to say what adding and removing do to such sets;
each set around the tasks that stay has its like before the step and after it.

**Reading a backlog back** (`BacklogProofs`). `RestoringAcceptsExactly`: for lists
of any length the loops of `restore` take back exactly the backlogs. The
invariant `RestoreInductive` says what each loop knows of the tasks it has asked.
That "walking as many steps as there are tasks is enough" is the pigeonhole: a
walk that long has been somewhere twice, and only goes where it was from there
on, never back to the task it is asked of (`LongOnNoCycle`). And where each task
by itself is on no cycle, there is none: the smallest set that leads nowhere out
of itself would hold a smaller one (`NoneIsOnACycle`).

**The threads** (`DaemonProofs`). For any workers, handlers, tasks, sessions,
deaths and failing calls:

- `DaemonSound`: `Inductive`. `StoreSound` and `HeldSound` say what the stores hold,
  `QueueSound` and `AgentsSound` that what is queued was once added and that an
  agent has a worker that waits for it. `FrameSound` is about what a thread read
  earlier and still acts on: the task it has in hand was assigned if it is still
  there, and its number is nobody else's; the session it looks at is there; one it
  goes to interrupt the tasks of does not run any more.
- `DaemonIsStored`, the refinement: every step of `Daemon` is a step of `Backlog`
  or changes nothing there, so the theorems above hold of the threads. It rests on
  `DecisionStarts`: what the decision starts are waiting tasks, each with a ceiling
  of its own.
- `DaemonAddsWithinMeans`: what one decision starts is no more than there are
  hands, and its ceilings no more than the budget has left beside what is going,
  as a sum over any number of tasks (`AllowHandsOut`, by which the room that is
  left and what was handed out add up).
- `DaemonNothingLost`, where neither the backlog nor a trace fails and no core
  dies: whatever else fails, a task that runs is queued, about to be, or in
  somebody's hands. A figure that cannot be recorded, an agent that cannot be
  started and a ledger that cannot be written do not break it.
- `DaemonNeverUnattended`, where neither store and not the ledger fails
  (`Patient`) and no core dies: a session that runs has a run going or a thread
  that is about to decide about it or stop it. The hypotheses are what the code
  leaves: a thread whose call fails gives up, and with it what it was to do.

**Sessions** (`SessionsProofs`). `AlwaysSound`, and from it `AlwaysRestorable`
(at most one session runs, and a reason goes with having stopped) and
`SaidAlwaysStands`, for looks and figures in any order. `NeverSaysMore` and
`NoStretchChargedTwice` hold in any order too: what is said and what is charged
is no more than the limit moved but for two windows for each look that was
overtaken, that is, arrived after its session had heard of a later window. (That
there is none such, the code does not keep: `MCSessionsFound.cfg`.) Their
invariant `Counted` says that what a session was charged and is said to have
spent is, but for that, no more than the limit had moved at *some* moment it was
looked at: the moment is nowhere in the code, so the invariant says there is one
(`EachStands`). A look that is overtaken puts the session back into a window
that is over; the next look then counts its own from nothing, and the allowance
has paid for that in advance (`CountsAgain`).

**What a session is judged by** (`AllowingProofs`).

- `AllowingInductive`: what was handed out and what is left add up to the room
  there was. `AllowingWithinRoom`: so the ceilings of one decision come to no
  more than the budget has left beside the runs going. The figures may be any.
- `AllowingLeavesNobodyBehind`: nothing that was passed over would be covered by
  what the round left. It needs that less room and a task more beside it never
  make an allowance greater (`LessAllowsNoMore`, `NoMoreBeside`), and that the loop
  and the decision as one expression hand out the same (`StepFollows`).
- `LookingInductive` and `LookingFreshByItself`: a look no other overlaps reads
  nothing from before it began, for any number of looks. The invariant follows the
  file from the moment it is laid out to the moment it is read.
- `ConfiguringInductive` and `ConfiguringStartsAgain`: whatever handlers of `config
  set` write, in whatever order their calls open, write, rename and fail and
  wherever a core dies, a core starts under what is in place, unless a person changed
  the file or took a definition away, or the call that put it there had shared the
  copy with another. `Copies` is what makes one that had it to itself safe: nobody
  else has it open, and it is their own document when they rename it. `torn` is
  about what is in place now, so one such call mends what two had torn; what a torn
  file may read as is left wide open (`Mixed`). `BrokenAssumption` says that what
  cannot be read as a file, and no copy, are none of the files that can be written.
- `SizingTyped`, `SizingSizedFromItsRuns` and `SizingFollowsTheRun`, for ledgers of
  any length, any models and any figures. Each is about two ways to say one thing:
  the code sorts what the runs took and reads between two places of the list, the
  properties count how many took less. There is an order to sort by (`OrderExists`,
  by induction, the cheapest in front); in every one the same figure stands at a
  place, because counting gives a place to one figure only (`PlaceIsRank`,
  `RankIsOne`, so `AnyOrder`); what is read at a quantile stays inside the list and
  rises with the quantile (`AtInside`, `AtRises`). `FollowsTheRun` is an action
  property: with one run more the list is the same up to its end when the run was
  the dearest and from its second place on when it was the cheapest (`SortedAbove`,
  `SortedBelow`), and the place a quantile is read at moves on by less than one
  (`PlaceIsNumber`), so no figure moves the wrong way (`QuantileAbove`,
  `QuantileBelow`); and the widening, divided among one run more, is no greater
  (`DividedLess`). `SizingAssumption` says only that runs are what a line of the
  ledger can say.

**Work areas and results** (`TidyingProofs`).

- `TidyingInductive`, `TidyingForgetsOnlyWhatWent` and
  `TidyingGoesOnlyWhenFinishedWith`, for any tasks, workers, sessions, threads,
  attempts and deaths. The invariant is `TypeOK /\ Held`: what the holder of the lock
  has listed or removed is finished with and in no worker's hands, and what it
  removed is gone or was made anew, but for what is not settled. It rests on two
  things that the code does not keep of every task: that a disposed task stays
  disposed, which `retry` breaks, and that no worker is at a task that ended, which an
  interrupt breaks: the worker may be before making its work area, and makes it after
  the tidying took it away, or come back with an answer that has the task wait
  again. The history variables `again` and `stillAt` say for which tasks either is
  so, and `remade` for which the directory is back. Nothing is claimed of those
  beyond that; `tidying_retry` and `MCRepositoryFound.cfg` show what happens to them.
- `ApplyingInductive` and `ApplyingTakesAsMade`: what is recorded as applied is what
  the runs made of it, as it reads as text, whatever a person does in the repository
  between two questions. The invariant says that a branch differs from where it left
  the base only where a run wrote (`WrittenByRuns`), and that the patch a call holds
  is what the runs had made when it was read, line by line as text, with no lines of
  a binary file, so that such a patch does not go in (`PatchIsMade`). Of what is not
  text it claims only that it goes in marred: `LossyAssumption` says that it comes
  out as some text.

**Files** (`KeptProofs`).

- `StoreInductive` and from it `StoreEitherHappenedOrDidNot`, of a store whose lock
  is held, for any threads, changes, files, pieces, failures and deaths.
  `KeptInductive` adds who holds the lock and what such a thread knows (`Holder`):
  what it read is still in place, the copy is not, and the copy is as much of its
  own document as it has put down; without it a rename could put in place
  anything. `Own` keeps the change of one thread from being answered for by
  another. The hypothesis is `Holding`; without it the claim is false, which run
  `config` shows.
- `LedgerSound`, `LedgerEveryRunStands` and `LedgerOneMoreAtTheEnd`, for any writers,
  runs and deaths. A line that was cut short is never taken for one that was
  noted, and never hides one: whoever writes next looks at the last byte first and
  ends that line. The invariant: who looks or writes holds the lock (`OneTurn`), a
  run is in one hand (`OneHand`), nothing of a run is in the file but what its writer
  put there, and no byte twice (`OnlyLaid`), the file ends with what has been put
  down of a line so far, on a line of its own (`LaidSoFar`), and a noted run is a
  whole line somewhere (`WholeAt`).
- `TracesSound`, `TracesShownOnce` and `TracesShowWhatFits`, for any lines, runs,
  reads of any length and deaths.
  What a read shows is selected from the bytes it saw, so each claim is said by
  place. `SaidOnce`: what a line says stands in the file once and in one piece, and
  a line has one pen until it is said; `ShownCameBefore`: what was shown stands
  before the place the reading has come to, so what comes next is another line;
  `ShownSoFar`: while nobody writes, what was shown is what fits up to there, the
  reading stands between two lines, and what it steps over fits in no read. Neither
  claim is inductive without the place: two readings that show the same may have
  come to different ones.
- `StoredReadsAsWritten`: whatever an entry says, what the core makes of it, writes
  and reads again is what it read. `StoredSound` takes the kinds of entries one by
  one and in each the fields, by the sort of value they hold: each sort is read back
  from what it is written as, a span as well, whose hours, minutes and seconds add
  up to what they were cut from and of which the nought parts are left out.
  `StoredAssumption` says only that an entry has the fields of its kind, each with
  anything a store may hold there; what cannot be read is refused, and the theorem
  is about the rest.

**Between a prompt and a core** (`CoresProofs`).

- `CoresInductive`: who opens the socket or serves is who holds the lock
  (`LockHeld`), for any cores and command lines and whatever ends them.
  `CoresServingIsReachable` assumes that no signal reaches a core without the lock
  (`"early stop" \notin Ends`) and takes the conjunct `Path` of the invariant: what
  each step of `listen` has found out about the path stays true until its next
  step, because only the holder acts on it. Without the assumption it is false,
  which `MCSurfacesFound.cfg` shows.
- `ExchangeInductive` and `ExchangeHeldNoLonger`: a connection holds a thread no
  longer than it is given, however many pieces a request comes in, and a use case
  is asked only what came whole.
- `AddingHeldUpIsKept`: what a first answer of the model settled and nobody
  faulted stays, whatever it answers the second time.
- `WrittenIsRead`, over `Specs`: a spec of any length that is written and read is the
  same spec, part for part, but for the marks at the ends of a first line, its own
  or a document's. It rests on what
  a reader of lines keeps between two of them: a text in two is read one after the
  other (`ReadJoined`), so the six parts are gone through one at a time.
- `AddingIsSound`, and from it `AddingRegisteredAsSeen`,
  `AddingRegisteredLeavesNothing` and `AddingAskedOnce`: for any words, any
  repositories that move under the command, any answers of the model and any number
  of rounds. The invariant `AddingInductive` follows what a person saw on its way
  through the text that crosses: what is sent says what was seen (`SentAsSeen`), what
  is put before somebody careful is what is left (`LeftIsLeft`), of the parts they
  were asked so far each says what the repository holds and the others are as they
  were (`SettledSoFar`), and what they then send leaves nothing
  (`SentLeavesNothing`). What is registered is only ever what was sent, so the claims
  about it are read off these; without `SettledSoFar` a question could be answered
  by spoiling the answer to another. What they send is read back as it was where
  neither the place nor the command begins or ends in a mark (`ReadsBack`), and
  `AddingAskedOnce` is about those; of one that does, `MCSurfacesFound.cfg` shows it
  asked about in every round. `AddingRegisteredLeavesNothing` needs no such
  condition: it speaks of the text as the run is given it, marks and all
  (`AsItStands`), because what was grounded without marks is written without
  (`StandsAsWritten`).

`TasksProofs` holds what several of these need: facts about single operations, and
a small theory of sums over sets. The prover cannot use the library's induction
theorems, whose parameter is an operator; induction over the numbers is done with
the least number a set does not have (`LeastNumber`, `EveryNumber`), applied to the
set of numbers up to which a claim is known.

**Only model-checked.**

- *Liveness* (`SessionEnds`, `RunEnds`, `Answered`, `LooksEnd`, `ReadingEnds`,
  `RestoreEnds`): fairness is beyond the prover.
- *What the findings say*: the properties of the two runs that expect a violation,
  and of the `...Found.cfg` configurations, are false.
- `UnderstoodOnce`: its module has no constants and finitely many states, so the run
  goes through every command there is and there is nothing left for a proof to add.
  The prover's translation cannot take the empty words its tables are full of.

## Where code and words differ

Two standing runs find a counterexample to what a comment of the repository
says; `PROJECT.json` quotes the lines.

| Run | What happens |
| --- | --- |
| `config` | Two `config set` at once share the copy beside the file, whose lock nobody holds: one renames into place what the other has emptied and is still writing. The next core may refuse to start over it, or start with nothing set. |
| `tidying_retry` | A task asked for again while it is tidied loses the directory its run was given. |

The configurations named `...Found.cfg` reproduce the rest: each has one
property at its end and the others beside it in comments, to be checked one at a
time, with the values to change where one needs its own. They are not among the
standing runs.

| Configuration | Property | What happens, and what the repository says |
| --- | --- | --- |
| `MCDaemonFound.cfg` | `NothingEndedWhileWorking` | A stop between an agent's starting and its group being written down ends the task and not the agent; `supervision.rs:281-282` says nothing is recorded as ended while its agent is still working. |
| `MCFilesFound.cfg` | `FollowingMissesNothing` | A read that finds only a part of the next line steps over it, and the rest of the line is no line: it is never shown; `trace.rs:134-135` says what is left starts the next read. |
| `MCFilesFound.cfg` | `DoneIsTheEnd` | An interrupted task is told to be done while what its agent wrote is still being read and written down; `docs/cli.md:544` says a trace that is done can no longer grow. |
| `MCDaemonFound.cfg` | `AnswersForItsOwnAttempt` | After interrupt, retry and run, the thread of the first run ends the second; `task.rs:594-597` says the first answer is the true one. |
| `MCDaemonFound.cfg` | `OneHandPerAttempt` | The number of an interrupted task stays on the queue and is queued again by the next run: two workers start two agents for one attempt, in one work area; `work.rs:119-124` is there to make what is left on the queue start nothing. |
| `MCDaemonFound.cfg` | `NoRunForAStoppedSession` | A worker reads its task, the session is interrupted, the agent is started all the same; `work.rs:119-121` is there to keep that from happening. |
| `MCDaemonFound.cfg` | `EveryAgentReachable` | A task whose agent outlived a stop and that was tried again has two agents, and the map of `agent.rs:41-44` remembers one. |
| `MCDaemonFound.cfg` | `EndedIsReviewed` | A turning away that comes after an interrupt and a discard leaves a waiting task that is disposed of; its next result is never up for review, where `docs/cli.md:62` says every ended run is. |
| `MCDaemonFound.cfg` | `NoConversationOnceDecided` | A late answer puts a conversation back on a task that was decided; `task.rs:643` says nobody carries one on. |
| `MCDaemonFound.cfg` | `SpendingOnlyGrows` | A task tried again in the session that ran it replaces what it consumed, and the session's sum falls; `session.rs:441-442` says a session only ever spends more. |
| `MCDaemonFound.cfg` | `HardlockEndsNoRun` | The default policy ends runs when the budget is spent; `docs/cli.md:77` says neither way to `budget hardlock` does. |
| `MCSessionsFound.cfg` | `NeverOverstates` | A look of the window before, arriving late, adds a whole window, and the one after it another; `session.rs:468-469` only expects a figure that falls short. |
| `MCSessionsFound.cfg` | `FrozenOnceStopped` | A look that arrives after a stop moves what the stopped session consumed; `session.rs:439-441` says it keeps it. |
| `MCSurfacesFound.cfg` | `GivingUpEndsNoCore` | A command whose time runs out kills the core it started although it holds the stores; `daemon.rs:86-88`, above the kill, says it is left running. |
| `MCSurfacesFound.cfg` | `AnswerIsComing` | The core a command started stops because another holds the stores, and the other is being stopped: no answer comes, and the command does not start another; `daemon.rs:66-68` says one is coming. |
| `MCSurfacesFound.cfg` | `ServingIsReachable` | A signal reaches a core before it has the lock, and its handler takes away the socket of the one that serves, which nobody reaches from then on; `signal.rs:1` speaks of giving up the socket, its own. |
| `MCRepositoryFound.cfg` | `FinishedWithIsTidyable` | A directory made and not yet written down when a worker gives up is never tidied, though `docs/cli.md:669` says tidy removes those a person is finished with. |
| `MCBacklog.cfg` | `RemovesOnlyUnassigned` | A task that was assigned once and waits again can be removed; `docs/cli.md:211` says only tasks not assigned can. |
| `MCRepositoryFound.cfg` | `RefusalPutsNothing` | `apply` puts the patch into the working tree and then saves: a save that fails answers with a refusal over a tree that has the change; `port/outbound/repository/result.rs:88` says a refusal leaves the tree as it was. |
| `MCRepositoryFound.cfg` | `ForgetsNothingThere` | A task that has a work area from a run before is interrupted while its worker is about to ask for that area, is discarded, listed, and its directory goes; the worker makes it anew, also writes it down, and the tidying forgets it. `review.rs:242` says only what actually went is forgotten. Nobody asked for the task again since it was listed. |
| `MCRepositoryFound.cfg` | `WaitingKeepsItsArea` | A task is interrupted and discarded while its worker works, and listed; the worker says the vendor turned it away, so it waits again, and its directory goes; `docs/cli.md:669` says a task waiting again carries on there. |
| `MCRepositoryFound.cfg` | `TakenAsItIs` | A patch is read as text, with a mark in place of each byte that is none, and put in so: lines of a file in another encoding are changed, and the result is recorded as applied; `port/outbound/repository/result.rs:85` says those changes are brought in. |
| `MCJudgingFound.cfg` | `RateWhateverTheSplit` | A run over which the limit did not move is left out of the price the rate is taken over, so two ledgers of the same runs and the same movement give two rates; `sizing.rs:255-256` says the rate is right however the movement is divided. |
| `MCJudgingFound.cfg` | `SetTakesWhatIsFound` | `config set` takes a vendor whose definition is there and cannot be read; `definition.rs:320-321` says a name is checked so that it does not fail later. |
| `MCSurfacesFound.cfg` | `CarriesOnWithout` | `config_get` with a key, and `run` with a model, of another type are refused; `docs/ipc.md:58` says a command that does not need the argument carries on without it. |
| `MCSurfacesFound.cfg` | `SeveralHold` | Several places that each hold, chosen together as the surface offers (`words.rs:101`), reach more files than a run may choose between, and the person is asked again. |
| `MCSurfacesFound.cfg` | `AskedOnceWhatever` | A place the repository has, `_config.yml`, is read back without its mark as one it has not, and is asked about in every round; `domain/spec.rs:250-251` says the text that is handed back is the spec that was shown. |

Three more were met and are about text or widths no property here states.
`docs/ipc.md:87` compares the major version alone from 1.0 on, where
`exchange.rs:231` compares the whole. A nought chosen at a prompt of `task add`
passes the test for a number too high and ends in a panic
(`cistern/src/task.rs:499`), which `SayNo` takes for one more way to end with
nothing registered. Two looks that overlap share one file, and the later may read
what the earlier one's program wrote (`limit.rs`): `FreshByItself` speaks of a
look no other overlaps, since that is all the code keeps.

## What is not modelled

`PROJECT.json` lists every part with what is left out of it. In short:

- *What is printed and prompted*: the wording of answers, the text of prompts,
  the fields of an answer a surface shows. No state depends on them.
- *What other programs do inside a call*: how git merges a file by lines, what a
  model says, the terminal a look is taken in, how an agent's answer is parsed
  into tokens and refusals. The models let each of these come out any way it may.
- *Figures and policies in `Daemon`*: its threads run under the policies that ship
  and with figures chosen freely; `Sizing` and `Allowing` have the rest, and a
  decision takes either as it is. Elapsed time is over or it is not.
- *Widths*: numbers are unbounded but for the entries of a store; the code's sums
  saturate, and no property reaches the end of a word.
- *Windows*: the arms of `address.rs` and `agent.rs` for it are written down and
  not run.
- *Sweep and fixtures*: compiled with the tests only.

## The plan

Built: every part of the table above that keeps state, and the paths a command
takes from a prompt to a store. Proved: every safety property of a passing run but
`UnderstoodOnce`, which its run settles. What is left for TLC alone is liveness.

What would come next, were the project to go on: the policies of `Allowing` under the
threads of `Daemon`, which decide under the ones that ship; `config set` with the lock
of its file held, for which `KeptProofs` has the theorem already; and the findings
below the standing runs, each to be checked again where the code changes.
