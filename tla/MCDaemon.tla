----------------------------- MODULE MCDaemon -----------------------------
(* Module Daemon on small instances: two workers unless a run says one.    *)
EXTENDS Daemon, TLC

CONSTANTS w1, w2, h1, h2

MCOneWorker == {w1}
MCTwoWorkers == {w1, w2}
MCOneHandler == {h1}
MCSymmetry == Permutations({w1, w2})

\* What people ask for.
MCUnattended == {"add", "run"}
MCDisposing == {"add", "run", "interrupt", "discard", "retry"}
MCRetryOnly == {"add", "run", "retry"}
MCEverything == {"add", "rm", "run", "interrupt", "retry", "resume", "discard"}

\* What goes wrong.
MCNothing == {}
MCRecord == {"record"}
MCAnyCall == {"store", "area", "trace", "spawn", "append", "ledger", "record"}

\* What runs are known to cost: nothing yet, or one of what is declared.
MCUnknown == {NoFigure}
MCCost == {NoFigure, <<1, 1>>}
MCKnown == {<<1, 1>>}

MCDeclared == {2}
MCDeclaredMore == {3}
MCEitherDeclared == {2, 3}
MCSpent == {Spent(1)}
MCRead == {Spent(1), Unreadable}
MCMore == {Spent(1), Spent(2)}
MCQuiet == {FALSE}
MCTalk == {TRUE}
============================================================================
