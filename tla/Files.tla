------------------------------- MODULE Files -------------------------------
(***************************************************************************)
(* The files a core keeps: a store, the ledger, a task's trace, the        *)
(* backlog a core reads back when it needs it, and what a store says of    *)
(* one of the things it holds.  What becomes of one is nothing to another, *)
(* so a behaviour is one of one of them, and which it is was chosen at the *)
(* start.                                                                  *)
(***************************************************************************)
EXTENDS Kept, Ledger, Traces, Restoring, Stored

VARIABLE which   \* the file a behaviour is about

vars == <<which, keptVars, ledgerVars, traceVars, restoreVars, storedVars>>

SomeDocument == CHOOSE text \in Documents : TRUE

Init ==
    /\ which \in {"store", "ledger", "trace", "restore", "document"}
    /\ which # "restore" => list = <<>>
    /\ KeptInit
    /\ LedgerInit
    /\ TraceInit
    /\ RestoreInit
    /\ StoredInit(IF which = "document" THEN Documents ELSE {SomeDocument})

Is(name) == which = name /\ UNCHANGED which

StoreMoves == Is("store") /\ KeptNext /\ UNCHANGED <<ledgerVars, traceVars, restoreVars, storedVars>>
LedgerMoves == Is("ledger") /\ LedgerNext /\ UNCHANGED <<keptVars, traceVars, restoreVars, storedVars>>
DocumentMoves ==
    Is("document") /\ StoredNext /\ UNCHANGED <<keptVars, ledgerVars, traceVars, restoreVars>>

TraceMoves == Is("trace") /\ TraceNext /\ UNCHANGED <<keptVars, ledgerVars, restoreVars, storedVars>>
Restores == Is("restore") /\ RestoreNext /\ UNCHANGED <<keptVars, ledgerVars, traceVars, storedVars>>

Next == StoreMoves \/ LedgerMoves \/ TraceMoves \/ Restores \/ DocumentMoves

\* A command line asks on, the reading of an agent's output goes on while it
\* has something to write, and a loop goes on; none changes anything else.
Fairness ==
    /\ WF_traceVars(which = "trace" /\ ReadStep)
    /\ \A r \in 1..MostRuns : WF_traceVars(which = "trace" /\ RunStep(r))
    /\ WF_restoreVars(which = "restore" /\ RestoreNext)

FairSpec == Init /\ [][Next]_vars /\ Fairness

----------------------------------------------------------------------------

\* A walk that has gone into a cycle it did not start on is given up: the
\* store's lock is held while the loops of `restore` run, and every command
\* waits for it.
RestoreEnds == which = "restore" => <>Answered

\* With two threads writing a trace at once, their lines say one byte each.
ShortWhereTwoWrite ==
    Cardinality({r \in 1..MostRuns : pen[r].at \notin {"none", "closed"}}) > 1
        => \A l \in DOMAIN lines : lines[l] = 1
============================================================================
