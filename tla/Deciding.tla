------------------------------ MODULE Deciding ------------------------------
(***************************************************************************)
(* What to do about a session, from how it stands                          *)
(* (crates/cisternd/src/core/domain/supervision.rs).                       *)
(*                                                                         *)
(* A standing is a record of                                               *)
(*   declared, spent, booked   the budget, in the unit it was declared in  *)
(*   elapsed, time_left        how long it has run, and has left           *)
(*   pending                   the tasks that may start, in order, each    *)
(*                             with what runs of its model come to         *)
(*   running, blocked, unreadable                                          *)
(*   under                     how it is run: what its policy says of      *)
(*                             timing, pacing and locking                  *)
(*                                                                         *)
(* What runs of a model come to is worked out from the ledger; here each   *)
(* pending task carries it: `cost` is <<what to set aside, the least that  *)
(* one run alone is started with>>, `lasts` is <<how long a run takes, the *)
(* same widened>>, and either is NoFigure where no run has finished: module*)
(* Sizing says how.                                                        *)
(***************************************************************************)
EXTENDS Integers, Sequences

NoFigure == <<>>

\* What a policy may say, and what ships.
Timing == {"fits", "any"}
Pacing == {"holds", "any"}
Locking == {"cuts", "waits"}
Policy == [timing : Timing, pacing : Pacing, locking : Locking]
Ships == [timing |-> "fits", pacing |-> "holds", locking |-> "cuts"]

AtLeastOne(n) == IF n = 0 THEN 1 ELSE n
Less(n, m) == IF n > m THEN n - m ELSE 0   \* saturating_sub

Left(standing) == Less(standing.declared, standing.spent)
Room(standing) == Less(Left(standing), standing.booked)

\* `fits_the_clock`
FitsTheClock(standing, task) ==
    standing.under.timing = "fits" /\ task.lasts # NoFigure
        => task.lasts[1] <= standing.time_left

\* `until_gone` has no answer before anything is spent.
HasRate(standing) == standing.spent > 0 /\ standing.elapsed > 0
UntilGone(standing) == (Left(standing) * standing.elapsed) \div standing.spent

\* `fits_the_budget`: asked only of a run that would be added to others.
FitsTheBudget(standing, task, alone) ==
    standing.under.pacing = "holds" /\ ~ alone /\ HasRate(standing) /\ task.lasts # NoFigure
        => task.lasts[2] <= UntilGone(standing)

\* `set_aside`, where 0 is nothing: a ceiling is never nought.
NothingAside == 0
SetAside(task, free, alone) ==
    IF task.cost = NoFigure THEN IF alone THEN free ELSE NothingAside
    ELSE IF free >= AtLeastOne(task.cost[1]) THEN AtLeastOne(task.cost[1])
    ELSE IF alone /\ free >= AtLeastOne(task.cost[2]) THEN free
    ELSE NothingAside

\* What one pending task is allowed, when so much is free and so many have
\* been given something before it in this decision.
Allowance(standing, task, free, given) ==
    LET alone == standing.running = 0 /\ given = 0
    IN  IF FitsTheClock(standing, task) /\ FitsTheBudget(standing, task, alone)
        THEN SetAside(task, free, alone)
        ELSE NothingAside

\* `allow`: what each pending task is allowed, in the order they wait, and
\* nothing for one that is passed over.  A task nobody can start does not
\* answer for the rest.
Allow(standing) ==
    LET n == Len(standing.pending)
        \* What is free after the first i, how many were given, and the list.
        after[i \in 0..n] ==
            IF i = 0 THEN [free |-> Room(standing), given |-> 0, list |-> <<>>]
            ELSE LET before == after[i-1]
                     ceiling == IF before.free = 0 THEN NothingAside
                                ELSE Allowance(standing, standing.pending[i],
                                               before.free, before.given)
                 IN  [free |-> before.free - ceiling,
                      given |-> before.given + (IF ceiling = NothingAside THEN 0 ELSE 1),
                      list |-> Append(before.list, ceiling)]
    IN  after[n].list

Starts(list) == {i \in DOMAIN list : list[i] # NothingAside}

\* `done_waiting`
DoneWaiting(time_left, running) == time_left = 0 /\ running = 0

\* `nothing_more`
NothingMore(waiting, blocked, exhausted) ==
    IF waiting THEN IF exhausted THEN "budget hardlock" ELSE "nothing fits"
    ELSE IF blocked THEN "blocked" ELSE "all done"

Stop(why) == [kind |-> "stop", why |-> why, allowed |-> <<>>]
Start(list) == [kind |-> "start", why |-> "none", allowed |-> list]

\* A session that has spent what it declared with runs still going.
Locks(standing) ==
    standing.under.locking = "cuts" /\ standing.running > 0 /\ Left(standing) = 0

\* A slip of the next: a session with nothing going waits for something to be.
Decide_Waits(standing) ==
    LET starting == IF standing.time_left = 0
                    THEN [i \in DOMAIN standing.pending |-> NothingAside]
                    ELSE Allow(standing)
    IN  IF standing.unreadable THEN Stop("observation unreadable")
        ELSE IF Locks(standing) THEN Stop("budget hardlock")
        ELSE Start(starting)

\* `decide`
Decide(standing) ==
    LET starting == IF standing.time_left = 0
                    THEN [i \in DOMAIN standing.pending |-> NothingAside]
                    ELSE Allow(standing)
    IN  IF standing.unreadable THEN Stop("observation unreadable")
        ELSE IF Locks(standing) THEN Stop("budget hardlock")
        ELSE IF standing.running = 0 /\ Starts(starting) = {}
        THEN Stop(NothingMore(standing.pending # <<>>, standing.blocked,
                              Left(standing) = 0 \/ standing.time_left = 0))
        ELSE Start(starting)
============================================================================
