------------------------------ MODULE Sessions ------------------------------
(***************************************************************************)
(* The session store and the vendor's limit it is measured against.        *)
(*                                                                         *)
(* A share of the limit is added up look by look, and a look is taken      *)
(* outside the store's lock, because the vendor may take ninety seconds to *)
(* answer: what was seen is in flight until it arrives, two looks may      *)
(* arrive in the other order, and the session may have stopped meanwhile.  *)
(* A figure `measured` answered with is in flight too, until `settle`      *)
(* hands it to `record` (core/service/supervision.rs:143-258).             *)
(*                                                                         *)
(* `moved` and the `when`, `from` and `charged` that go with it are not in *)
(* the code: they say what was truly spent, for the figures to be held to. *)
(* Nor is `heard`: it says how often a look that arrived was of a window   *)
(* that was over, by what its session had heard of already.                *)
(***************************************************************************)
EXTENDS SessionSet

CONSTANTS Usage,       \* the units sessions declare here
          Why,         \* the reasons they stop for here
          Full,        \* the limit when nothing is left of it
          LastId,      \* bound: the last number given out
          LastWindow,  \* bound: the last window the limit counts in
          MostLooks    \* bound: looks, and figures, in flight at once

ASSUME UsageAssumption == Usage \subseteq {"Share", "Tokens"} /\ Why \subseteq Reason
ASSUME BoundAssumption ==
    {Full, LastId, LastWindow, MostLooks} \subseteq Nat /\ LastWindow # 0

VARIABLES sessions,  \* the sessions
          next_id,   \* the number the next one will get
          limit,     \* how far the vendor's limit is spent, and its window
          looks,     \* looks that have not arrived
          figures,   \* figures that have not been recorded
          moved,     \* how far the limit moved in all
          from,      \* how far it had when each session was opened
          charged,   \* how much of it the session's runs were charged for
          heard      \* the last window each has heard of, and what came after

vars == <<sessions, next_id, limit, looks, figures, moved, from, charged, heard>>

\* What a look is for: opening a session, measuring one, or noting when the
\* limit that turned a run away begins again.
Look == [session : Nat, for : {"open", "measure", "turned away"},
         used : 0..Full, window : 1..LastWindow, when : Nat]

Figure == [session : Nat, consumed : Nat]

Hearing == [newest : Nat, overtaken : Nat]

Init ==
    /\ sessions = [s \in {} |-> Opened("Share", 0, 0)]
    /\ next_id = 1
    /\ limit = [used |-> 0, window |-> 1]
    /\ looks = {}
    /\ figures = {}
    /\ moved = 0
    /\ from = [s \in {} |-> 0]
    /\ charged = [s \in {} |-> 0]
    /\ heard = [s \in {} |-> [newest |-> NoWindow, overtaken |-> 0]]

Later(s, new) == sessions' = [sessions EXCEPT ![s] = new]

\* A look is overtaken where its session has heard of a later window, be it by
\* a look that was measured or by one that was only noted.
Overtaken(look) == look.window < heard[look.session].newest

Heard(h, look) ==
    IF Overtaken(look) THEN [h EXCEPT !.overtaken = @ + 1] ELSE [h EXCEPT !.newest = look.window]

Hear(look) == heard' = [heard EXCEPT ![look.session] = Heard(@, look)]

----------------------------------------------------------------------------
(* The vendor. *)

\* Somebody spends: this session's runs or anybody else's.
Spend ==
    /\ limit.used < Full
    /\ limit' = [limit EXCEPT !.used = @ + 1]
    /\ moved' = moved + 1
    /\ UNCHANGED <<sessions, next_id, looks, figures, from, charged, heard>>

BeginAgain ==
    /\ limit.window < LastWindow
    /\ limit' = [used |-> 0, window |-> limit.window + 1]
    /\ UNCHANGED <<sessions, next_id, looks, figures, moved, from, charged, heard>>

\* `limit_now`, and `turned_away` asking when the limit starts over.
LookFor(s, what) ==
    /\ Cardinality(looks) < MostLooks
    /\ looks' = looks \cup {[session |-> s, for |-> what, used |-> limit.used,
                             window |-> limit.window, when |-> moved]}
    /\ UNCHANGED <<sessions, next_id, limit, figures, moved, from, charged, heard>>

\* Before a session is opened, whether or not one is running.
LookToOpen ==
    /\ next_id <= LastId
    /\ LookFor(NoWindow, "open")

\* `measured` of the supervisor and `spending_of`: of a session that runs.
LookToMeasure(s) ==
    /\ IsRunning(sessions[s])
    /\ sessions[s].usage = "Share"
    /\ LookFor(s, "measure")

\* Of whatever session the run belonged to, running or not.
LookWhenTurnedAway(s) == LookFor(s, "turned away")

----------------------------------------------------------------------------
(* The store. *)

\* `open`, which refuses while another is running.
Open(usage, look) ==
    /\ Running(sessions) = {}
    /\ next_id <= LastId
    /\ sessions' = [s \in DOMAIN sessions \cup {next_id} |->
                        IF s = next_id THEN Opened(usage, Full, look.used) ELSE sessions[s]]
    /\ from' = [s \in DOMAIN from \cup {next_id} |->
                        IF s = next_id THEN look.when ELSE from[s]]
    /\ charged' = [s \in DOMAIN charged \cup {next_id} |->
                        IF s = next_id THEN 0 ELSE charged[s]]
    /\ heard' = [s \in DOMAIN heard \cup {next_id} |->
                    IF s = next_id THEN [newest |-> NoWindow, overtaken |-> 0] ELSE heard[s]]
    /\ next_id' = next_id + 1
    /\ looks' = looks \ {look}
    /\ UNCHANGED <<limit, figures, moved>>

\* A run that finds a session running is refused, and its look is dropped.
OpenRefused(look) ==
    /\ Running(sessions) # {}
    /\ looks' = looks \ {look}
    /\ UNCHANGED <<sessions, next_id, limit, figures, moved, from, charged, heard>>

\* `measured`: what it answers with goes on to `record` and to the ledger.
Measure(look) ==
    LET s == look.session
        after == Measured(sessions[s], look.used, look.window)
        over == Charge(sessions[s], look.used, look.window)
    IN  /\ Cardinality(figures) < MostLooks
        /\ Later(s, after)
        /\ figures' = figures \cup {[session |-> s, consumed |-> after.consumed]}
        /\ charged' = [charged EXCEPT ![s] =
                            @ + (IF over[2] > over[1] THEN over[2] - over[1] ELSE 0)]
        /\ Hear(look)
        /\ looks' = looks \ {look}
        /\ UNCHANGED <<next_id, limit, moved, from>>

\* `resets_at`
NoteWindow(look) ==
    /\ Later(look.session, ResetsAt(sessions[look.session], look.window))
    /\ Hear(look)
    /\ looks' = looks \ {look}
    /\ UNCHANGED <<next_id, limit, figures, moved, from, charged>>

\* What a look becomes when it arrives.
Arrive(look) ==
    \/ look.for = "open" /\ \E usage \in Usage : Open(usage, look)
    \/ look.for = "open" /\ OpenRefused(look)
    \/ look.for = "measure" /\ Measure(look)
    \/ look.for = "turned away" /\ NoteWindow(look)

\* `record`
Record(f) ==
    /\ Later(f.session, Recorded(sessions[f.session], f.consumed))
    /\ figures' = figures \ {f}
    /\ UNCHANGED <<next_id, limit, looks, moved, from, charged, heard>>

\* `stop`, by whoever comes to it, and however often.
Stop(s, why) ==
    /\ Later(s, Stopped(sessions[s], why))
    /\ UNCHANGED <<next_id, limit, looks, figures, moved, from, charged, heard>>

Next ==
    \/ Spend
    \/ BeginAgain
    \/ LookToOpen
    \/ \E s \in DOMAIN sessions :
          \/ LookToMeasure(s)
          \/ LookWhenTurnedAway(s)
          \/ \E why \in Why : Stop(s, why)
    \/ \E look \in looks : Arrive(look)
    \/ \E f \in figures : Record(f)

Spec == Init /\ [][Next]_vars

----------------------------------------------------------------------------

TypeOK ==
    /\ next_id \in Nat \ {0}
    /\ sessions \in [DOMAIN sessions -> Session]
    /\ DOMAIN sessions = 1..(next_id - 1)
    /\ limit \in [used : 0..Full, window : 1..LastWindow]
    /\ looks \subseteq Look
    /\ figures \subseteq Figure
    /\ moved \in Nat
    /\ from \in [DOMAIN sessions -> Nat]
    /\ charged \in [DOMAIN sessions -> Nat]
    /\ heard \in [DOMAIN sessions -> Hearing]

\* What the store holds is always a set `restore` will take back: one session
\* runs at a time, and a reason goes with having stopped (session.rs:577-615).
StaysRestorable == Restorable(sessions)

\* What is said of a session stands: it only ever spends more, in whatever
\* order looks and figures arrive, and of the threads that stop it the first
\* says why, since "the first one is what happened, and the second is what
\* noticed" (session.rs:423).
WhatIsSaidStands ==
    [][\A s \in DOMAIN sessions :
          /\ sessions'[s].consumed >= sessions[s].consumed
          /\ ~ IsRunning(sessions[s]) => /\ ~ IsRunning(sessions'[s])
                                         /\ sessions'[s].reason = sessions[s].reason]_vars

\* What a look that is overtaken may add: the window it is of, counted again, and
\* the window its session was in, which the next look then takes for a new one.
Doubled(s) == 2 * Full * heard[s].overtaken

\* A session is said to have spent no more than the limit moved since it was
\* opened, but for two windows for every look that arrived after one of a window
\* that began later (session.rs:493): late looks of one window add nothing, however
\* many there are and whatever is noted in between.
OnlyTheOvertakenOverstate ==
    \A s \in DOMAIN sessions :
        sessions[s].usage = "Share" => sessions[s].consumed <= moved - from[s] + Doubled(s)

\* "The stretch between would be charged twice" (core/service/work.rs:303): the
\* stretches the runs of a session are charged for do not overlap, so together
\* they are no longer than what the limit moved, but for the looks that were
\* overtaken.
NothingChargedTwice ==
    \A s \in DOMAIN sessions : charged[s] <= moved - from[s] + Doubled(s)

\* A session is never said to have spent more than the limit moved since it was
\* opened: "the figure falls short by that much rather than by a whole window"
\* (session.rs:468-469), and never overshoots.
NeverOverstates ==
    \A s \in DOMAIN sessions :
        sessions[s].usage = "Share" => sessions[s].consumed <= moved - from[s]

\* "A session that has stopped keeps what it consumed when it did"
\* (session.rs:439).
FrozenOnceStopped ==
    [][\A s \in DOMAIN sessions :
          ~ IsRunning(sessions[s]) => sessions'[s].consumed = sessions[s].consumed]_vars
============================================================================
