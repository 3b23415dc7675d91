----------------------------- MODULE MCJudging -----------------------------
(* Module Judging on every standing of a small range, on every ledger of   *)
(* four runs, on every file of three keys, and with two looks at once.     *)
EXTENDS Judging

----------------------------------------------------------------------------
(* The round.                                                              *)

\* What runs of a model come to: no figure, less than one, one, more than one
\* and least less than most.
MCCost == {NoFigure, <<0, 0>>, <<1, 1>>, <<3, 2>>}
MCLasts == {NoFigure, <<1, 2>>, <<2, 2>>}
MCTask == [cost : MCCost, lasts : MCLasts]
MCPending == {<<>>} \cup [1..1 -> MCTask] \cup [1..2 -> MCTask]

\* What ships, each of it chosen otherwise, and all of it.
MCPolicy == {under \in Policy : Cardinality({k \in DOMAIN under : under[k] # Ships[k]}) # 2}

MCStandings ==
    {st \in [declared : {2, 4}, spent : {0, 1, 3}, booked : 0..2, elapsed : {0, 2},
             time_left : 0..2, running : 0..1, blocked : BOOLEAN, unreadable : BOOLEAN,
             under : MCPolicy, pending : MCPending] :
        /\ st.running = 0 => st.booked = 0
        /\ st.blocked => st.pending = <<>>
        /\ st.unreadable => st.elapsed = 0}

----------------------------------------------------------------------------
(* The sizes.                                                              *)

MCModel == {"m", "n"}
MCRun(model, outcome, at_ceiling, tokens, lasted, over) ==
    [model |-> model, outcome |-> outcome, at_ceiling |-> at_ceiling,
     spent |-> <<tokens, tokens + 1>>, lasted |-> lasted, over |-> over]

\* Runs that finished cheap or dear, with the limit moved or not; that were
\* stopped at a ceiling or by a person; of the other model; that say nothing
\* of what they took; and one that failed.
MCRuns ==
    {MCRun("m", "Completed", FALSE, tokens, <<tokens>>, over) :
        tokens \in {0, 2, 3, 7}, over \in {<<0, 2>>, <<2, 2>>}}
    \cup {MCRun("m", "Interrupted", stopped, tokens, <<1>>, <<3, 1>>) :
             tokens \in {1, 4}, stopped \in BOOLEAN}
    \cup {MCRun("n", "Completed", FALSE, 5, <<1>>, Unsaid),
          [MCRun("n", "Completed", FALSE, 0, <<1>>, <<1, 2>>) EXCEPT !.spent = Unsaid],
          MCRun("m", "Error", FALSE, 4, <<1>>, <<1, 2>>)}

----------------------------------------------------------------------------
(* The policies.                                                           *)

CONSTANTS x1, x2
MCHandler == {x1, x2}
MCVendor == {"claude", "other"}
MCShipped == {"claude"}
MCAsked == {"vendor", "locking", NoKey}
MCWords == {"claude", "other", "waits", "word"}

----------------------------------------------------------------------------
(* The looks.                                                              *)

CONSTANTS l1, l2
MCLook == {l1, l2}
============================================================================
