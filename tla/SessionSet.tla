----------------------------- MODULE SessionSet -----------------------------
(***************************************************************************)
(* The sessions as a value, and what each operation of `Sessions` makes of *)
(* one (crates/cisternd/src/core/domain/session.rs).  Module Sessions runs *)
(* these on a store of their own, module Daemon between the steps of the   *)
(* threads that call them.                                                 *)
(*                                                                         *)
(* A set of sessions is a function from the numbers given out to sessions. *)
(* Left out of a session: the model it falls back to, and its times, of    *)
(* which module Daemon keeps the one thing that is asked, whether the time *)
(* it declared is over.  A share is opened with a first look at the limit, *)
(* so there is always one to measure from.                                 *)
(***************************************************************************)
EXTENDS Naturals, FiniteSets

NoReason == "none"
Reason == {"budget hardlock", "vendor limit", "observation unreadable",
           "interrupted", "all done", "blocked", "nothing fits"}

\* The window a limit counts in is known by when it begins again.
NoWindow == 0

Session == [state : {"running", "stopped"},
            reason : Reason \cup {NoReason},
            usage : {"Share", "Tokens"},  \* the unit the budget is declared in
            declared : Nat,
            at_start : Nat,               \* the limit when it was opened
            seen : Nat,                   \* the limit when it was last looked at
            window : Nat,                 \* the window of that look, or NoWindow
            consumed : Nat]

IsRunning(x) == x.state = "running"

\* `open`
Opened(usage, declared, limit) ==
    [state |-> "running", reason |-> NoReason, usage |-> usage, declared |-> declared,
     at_start |-> limit, seen |-> limit, window |-> NoWindow, consumed |-> 0]

\* `stop`: a session that already stopped keeps the reason it stopped for.
Stopped(x, why) ==
    IF IsRunning(x) THEN [x EXCEPT !.state = "stopped", !.reason = why] ELSE x

\* A slip of the next: the figure that arrives last is the one that is kept.
Recorded_AsItArrives(x, figure) ==
    IF IsRunning(x) THEN [x EXCEPT !.consumed = figure] ELSE x

\* `record`: a session that has stopped keeps its figure, and a figure behind
\* the one stored was read earlier.
Recorded(x, figure) ==
    IF IsRunning(x) /\ figure >= x.consumed THEN [x EXCEPT !.consumed = figure] ELSE x

\* Whether a look says that the window began again since the last one.
BeganAgain(x, window) == x.window # NoWindow /\ window # NoWindow /\ window # x.window

\* Whether a look was taken before the last one: lower, in the same window.
IsLate(x, used, window) ==
    /\ x.window # NoWindow /\ window # NoWindow
    /\ window = x.window
    /\ used < x.seen

\* What the limit moved between the last look and this one.
Since(x, used, window) ==
    IF ~ BeganAgain(x, window) /\ used >= x.seen THEN used - x.seen ELSE used

\* A slip of the next: a look that arrives late is a window that began again.
Measured_LateIsNew(x, used, window) ==
    IF x.usage = "Tokens" THEN x
    ELSE [x EXCEPT !.consumed = @ + Since(x, used, window),
                   !.seen = used,
                   !.window = IF window # NoWindow THEN window ELSE @]

\* `measured`: adds what the limit moved.  Whether the session still runs is
\* not asked.
Measured(x, used, window) ==
    IF x.usage = "Tokens" \/ IsLate(x, used, window) THEN x
    ELSE [x EXCEPT !.consumed = @ + Since(x, used, window),
                   !.seen = used,
                   !.window = IF window # NoWindow THEN window ELSE @]

\* A slip of the next: every run is charged from where the session started.
Charge_FromTheStart(x, used, window) ==
    IF x.usage = "Tokens" \/ IsLate(x, used, window) THEN <<0, 0>> ELSE <<x.at_start, used>>

\* The two ends `measured` answers with, of the stretch one run is charged
\* for; a look that arrived late charges nobody.
Charge(x, used, window) ==
    IF x.usage = "Tokens" \/ IsLate(x, used, window) THEN <<0, 0>> ELSE <<x.seen, used>>

\* `resets_at`, which a run the vendor turned away writes down.
ResetsAt(x, window) == [x EXCEPT !.window = window]

Running(ss) == {s \in DOMAIN ss : IsRunning(ss[s])}

\* What `restore` asks of a set of sessions before anything reads one.
Restorable(ss) ==
    /\ Cardinality(Running(ss)) <= 1
    /\ \A s \in DOMAIN ss : ss[s].reason # NoReason <=> ss[s].state = "stopped"
============================================================================
