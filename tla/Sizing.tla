------------------------------- MODULE Sizing -------------------------------
(***************************************************************************)
(* What runs of a model come to, worked out from the ledger as it grows by *)
(* one run after another: the figures module Deciding takes as given.      *)
(*                                                                         *)
(* A run is [model, outcome, at_ceiling, spent, lasted, over]: `spent` is  *)
(* <<tokens, price>>, `lasted` <<seconds>> and `over` <<before, after>>,   *)
(* how the vendor's limit read around it; each is Unsaid where the line of *)
(* the ledger says nothing that can be read.                               *)
(***************************************************************************)
EXTENDS Tasks, Sequences, FiniteSetsExt

CONSTANTS
    Model,       \* the models tasks name, the vendor's own among them
    Runs,        \* the runs the ledger may gain
    MostNoted    \* bound: how many it holds

\* How a session's budget was declared.
Unit == {"tokens", "share"}
Unsaid == <<>>
NoSizing == <<>>

\* What a line of the ledger may say of a run.
Run == [model : Model, outcome : TaskState, at_ceiling : BOOLEAN,
        spent : {Unsaid} \cup (Nat \X Nat),
        lasted : {Unsaid} \cup [1..1 -> Nat],
        over : {Unsaid} \cup (Nat \X Nat)]

ASSUME SizingAssumption == Runs \subseteq Run /\ MostNoted \in Nat

\* The figures a size is worked out by, in whole percent and in times.
Rule == [busy |-> 75, alone |-> 25, lift |-> 2, widen |-> 1]

VARIABLES
    noted,       \* the ledger's runs
    unit         \* the unit the session is declared in

sizingVars == <<noted, unit>>

SizingInit ==
    /\ noted = <<>>
    /\ unit \in Unit

\* A run of any session's ends and is noted.
NoteRun(run) ==
    /\ Len(noted) < MostNoted
    /\ noted' = Append(noted, run)
    /\ UNCHANGED unit

SizingNext == \E run \in Runs : NoteRun(run)

SizingSpec == SizingInit /\ [][SizingNext]_sizingVars

\* The ledger holds runs, no more of them than the bound.
SizingTypeOK ==
    /\ noted \in Seq(Runs)
    /\ Len(noted) <= MostNoted
    /\ unit \in Unit

----------------------------------------------------------------------------
(* One figure.                                                             *)

\* A slip of the next: the nearer rank.
Quantile_Nearest(sorted, per_cent) ==
    LET h == (per_cent * Len(sorted) + 50) \div 100
    IN  sorted[Max({1, h})]

\* The value at a quantile, read between the two it falls between and held
\* inside the list; h is in three-hundredths, so that it is whole.
Quantile(sorted, per_cent) ==
    LET n == Len(sorted)
        h == 3 * per_cent * n + per_cent + 100
        under == h \div 300
    IN  CASE h <= 300 -> sorted[1]
          [] h >= 300 * n -> sorted[n]
          [] OTHER -> sorted[under] + ((sorted[under + 1] - sorted[under]) * (h % 300)) \div 300

\* Which kind of sample a run is.
Sampled(run) ==
    CASE run.outcome = "Completed" -> "finished"
      [] run.outcome = "Interrupted" /\ run.at_ceiling -> "stopped"
      [] OTHER -> "neither"

\* A slip of the next: a run that was stopped is taken for one that finished.
Samples_OfStopped(runs, model, kind, took) ==
    [i \in {j \in DOMAIN runs : /\ runs[j].model = model
                                /\ Sampled(runs[j]) # "neither"
                                /\ kind = "finished"
                                /\ took[j] # Unsaid} |-> took[i][1]]

\* What the runs of a model that are of the kind took, as `took` says of each
\* run; one that says nothing of it is left out.
Samples(runs, model, kind, took) ==
    [i \in {j \in DOMAIN runs : /\ runs[j].model = model
                                /\ Sampled(runs[j]) = kind
                                /\ took[j] # Unsaid} |-> took[i][1]]

\* The runs in an order in which what they took does not fall.
InOrder(costs, row) ==
    \A k, l \in DOMAIN row : k < l => row[k] # row[l] /\ costs[row[k]] <= costs[row[l]]

Sorted(costs) ==
    LET row == CHOOSE r \in [1..Cardinality(DOMAIN costs) -> DOMAIN costs] : InOrder(costs, r)
    IN  [k \in DOMAIN row |-> costs[row[k]]]

\* Runs that were stopped lift the estimate, and a model that finished none
\* has no figure.
Under(runs, model, took) ==
    LET finished == Samples(runs, model, "finished", took)
        costs == Sorted(finished)
        stopped == Samples(runs, model, "stopped", took)
        floor == Max({0} \cup {stopped[i] : i \in DOMAIN stopped})
    IN  IF DOMAIN finished = {} THEN NoSizing
        ELSE <<[estimate |-> Max({Quantile(costs, Rule.busy), floor * Rule.lift}),
                fallback |-> Quantile(costs, Rule.alone),
                over     |-> Len(costs)]>>

\* The estimate, widened by how few runs it came from.
Allowing_(sizing) == sizing.estimate + (sizing.estimate * Rule.widen) \div Max({sizing.over, 1})

----------------------------------------------------------------------------
(* The two questions asked of the ledger.                                  *)

\* The runs over which the limit moved up, which say both: a window that
\* began again in between says nothing of what was spent before it did.
Moved(run) == run.over # Unsaid /\ run.spent # Unsaid /\ run.over[2] > run.over[1]

\* How far the limit moved for what the runs were priced at.
MovedPerMillionth(runs) ==
    LET both == {i \in DOMAIN runs : Moved(runs[i])}
    IN  <<SumOver([i \in both |-> runs[i].over[2] - runs[i].over[1]], both),
          SumOver([i \in both |-> runs[i].spent[2]], both)>>

NoRate(runs) == MovedPerMillionth(runs)[1] = 0 \/ MovedPerMillionth(runs)[2] = 0

\* Priced, at the rate the whole ledger moved the limit.
Share(rate, run) == (run.spent[2] * rate[1]) \div Max({rate[2], 1})

\* What each run took in the unit the session is declared in; with no rate no
\* run says anything in the unit of a share.
InUnit(runs) ==
    [i \in DOMAIN runs |->
        IF runs[i].spent = Unsaid \/ (unit = "share" /\ NoRate(runs)) THEN Unsaid
        ELSE IF unit = "tokens" THEN <<runs[i].spent[1]>>
        ELSE <<Share(MovedPerMillionth(runs), runs[i])>>]

Lasted(runs) == [i \in DOMAIN runs |-> runs[i].lasted]

\* `sizings`
Cost(runs, model) == Under(runs, model, InUnit(runs))

\* `lasting`
Lasting(runs, model) == Under(runs, model, Lasted(runs))

----------------------------------------------------------------------------

\* The value of which fewer than k are less and at least k are no more.
Ranked(costs, k) ==
    LET n == Cardinality(DOMAIN costs)
        rank == Max({1, Min({k, n})})
    IN  CHOOSE v \in {costs[i] : i \in DOMAIN costs} :
            /\ Cardinality({i \in DOMAIN costs : costs[i] < v}) < rank
            /\ Cardinality({i \in DOMAIN costs : costs[i] <= v}) >= rank

\* Whether a figure stands at its place among the runs, counted and not
\* sorted: "the kth of n sorted values sits at k/(n+1)" (sizing.rs:139-140),
\* so between the run at (n + 1/3)p + 1/3 and the next it has come that part
\* of the way, and less than one further.
StandsAt(figure, costs, per_cent) ==
    LET h == 3 * per_cent * Cardinality(DOMAIN costs) + per_cent + 100
        way == (Ranked(costs, (h \div 300) + 1) - Ranked(costs, h \div 300)) * (h % 300)
        gone == 300 * (figure - Ranked(costs, h \div 300))
    IN  gone <= way /\ way < gone + 300

\* Whether a sizing is what the runs of a model say of one figure.
Sized(model, took, sizing) ==
    LET costs == Samples(noted, model, "finished", took)
        stopped == {i \in DOMAIN noted : /\ noted[i].model = model
                                         /\ noted[i].outcome = "Interrupted"
                                         /\ noted[i].at_ceiling /\ took[i] # Unsaid}
    IN  /\ sizing = NoSizing <=> DOMAIN costs = {}
        /\ sizing # NoSizing =>
              /\ sizing[1].fallback <= sizing[1].estimate
              /\ StandsAt(sizing[1].fallback, costs, Rule.alone)
              /\ \A i \in stopped : sizing[1].estimate >= 2 * took[i][1]
              /\ stopped = {} => StandsAt(sizing[1].estimate, costs, Rule.busy)

\* What a model's runs come to is worked out from the runs of that model that
\* finished or were stopped, whatever others the ledger holds and in whatever
\* order, in what they took and in how long they lasted: the two figures stand
\* at their quantiles, the optimistic one is the lower, the other is never
\* under twice what a run was stopped at.
SizedFromItsRuns ==
    \A model \in Model :
        /\ Sized(model, InUnit(noted), Cost(noted, model))
        /\ Sized(model, Lasted(noted), Lasting(noted, model))

Dearest(runs, run) == \A i \in DOMAIN runs :
    runs[i].model = run.model /\ runs[i].spent # Unsaid => runs[i].spent[1] <= run.spent[1]
Cheapest(runs, run) == \A i \in DOMAIN runs :
    runs[i].model = run.model /\ runs[i].spent # Unsaid => runs[i].spent[1] >= run.spent[1]

\* A figure in tokens follows the run that was noted: one that cost the most
\* of its model never lowers what the next is set aside at its quantile, one
\* that cost the least never raises what a run is allowed, one that was
\* stopped never lowers that, and one of another model, that failed, or that
\* says nothing, changes nothing.
FollowsTheRun ==
    [][noted' # noted /\ unit = "tokens" => \A model \in Model :
          LET run == noted'[Len(noted')]
              was == Cost(noted, model)
              is == Cost(noted', model)
              both == was # NoSizing /\ is # NoSizing
          IN  /\ run.model # model \/ Sampled(run) = "neither" \/ run.spent = Unsaid => is = was
              /\ both /\ run.spent # Unsaid /\ Dearest(noted, run) =>
                    is[1].estimate >= was[1].estimate /\ is[1].fallback >= was[1].fallback
              /\ both /\ Sampled(run) = "stopped" =>
                    Allowing_(is[1]) >= Allowing_(was[1]) /\ is[1].fallback = was[1].fallback
              /\ both /\ run.spent # Unsaid /\ Sampled(run) = "finished" /\ Cheapest(noted, run) =>
                    Allowing_(is[1]) <= Allowing_(was[1]) /\ is[1].fallback <= was[1].fallback
      ]_sizingVars

\* "The rate is right even where the split was not: the total movement is the
\* total movement however it is divided among the runs that caused it"
\* (sizing.rs:255-256): two ledgers of the same runs over which the limit moved
\* as far give the same rate.  A run that the split gave nothing is left out of
\* the price too, so they do not.
RateWhateverTheSplit ==
    LET priced == {i \in DOMAIN noted : noted[i].over # Unsaid /\ noted[i].spent # Unsaid}
    IN  (\A i \in priced : noted[i].over[2] >= noted[i].over[1]) /\ ~NoRate(noted) =>
            MovedPerMillionth(noted)[2] = SumOver([i \in priced |-> noted[i].spent[2]], priced)
============================================================================
