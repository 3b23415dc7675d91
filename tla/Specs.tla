-------------------------------- MODULE Specs --------------------------------
(***************************************************************************)
(* What a run is given to work from: a spec of six parts, the text it      *)
(* travels as, what it leaves for an agent to decide, and what a second    *)
(* answer of the model mends of a first.                                   *)
(*                                                                         *)
(* A word is a name, a command, a sentence: whatever is told apart.  A     *)
(* line holds a set of them, several where a person chose several and they *)
(* were put in a row with commas, none where it is blank.  A line is marked *)
(* where it begins or ends in `*`, `_` or a backtick: a document sets code *)
(* apart so, and there are names that begin or end so, as `_config.yml`.   *)
(* A word with marks and without are two names.  What a part says is a row *)
(* of lines, none blank.  A line of nothing but marks is left out.         *)
(***************************************************************************)
EXTENDS Naturals, Sequences

CONSTANTS
    Word,        \* what a line may hold
    ReachesAtMost,  \* how many files a place may reach
    Tracked,     \* in each repository: how many tracked files a name is a path to
    Programs     \* and how a name ends that is run there as a command: "passes",
                 \* "fails", or "goes on" until it is killed

ASSUME SpecsAssumption ==
    /\ ReachesAtMost \in Nat
    /\ \A repo \in DOMAIN Tracked : \A n \in DOMAIN Tracked[repo] : Tracked[repo][n] \in Nat

Part == {"goal", "place", "doneWhen", "onFailure", "why", "scope"}
NoPart == "noPart"

Says(words) == [words |-> words, marked |-> FALSE]
Bare(line) == Says(line.words)

Name == [word : Word, marked : BOOLEAN]
Lone(name) == [words |-> {name.word}, marked |-> name.marked]

Open == [said |-> <<>>, settled |-> "open", others |-> {}, asks |-> FALSE]
Given(said) == [said |-> said, settled |-> "given", others |-> {}, asks |-> FALSE]
IsOpen(part) == part.settled = "open" \/ part.said = <<>>

OpenSpec == [p \in Part |-> Open]

LineType == [words : (SUBSET Word) \ {{}}, marked : BOOLEAN]
PartType == [said : Seq(LineType), settled : {"open", "given", "inferred"},
             others : SUBSET Name, asks : BOOLEAN]

\* The parts nobody has settled and a run cannot start without.
Undecided(spec) == {p \in Part \ {"why"} : IsOpen(spec[p])}

----------------------------------------------------------------------------
(* Text: a row of lines, each of which names a part or none.               *)

Text(names, line) == [names |-> names, words |-> line.words, marked |-> line.marked]
Loose(said) == [i \in DOMAIN said |-> Text(NoPart, said[i])]
TextType == Seq([names : Part \cup {NoPart}, words : SUBSET Word, marked : BOOLEAN])
NamesOne(text) == \E i \in DOMAIN text : text[i].names # NoPart

\* One line of `read`: a line that names a part begins it anew, without its
\* marks; another goes on with the part before it, and a blank one ends that.
ReadLine(read, line) ==
    LET said == Says(line.words)
    IN  CASE line.names # NoPart ->
               [spec |-> [read.spec EXCEPT ![line.names] =
                             Given(IF line.words = {} THEN <<>> ELSE <<said>>)],
                last |-> line.names]
          [] line.names = NoPart /\ read.last = NoPart -> read
          [] line.names = NoPart /\ read.last # NoPart /\ line.words = {} ->
               [read EXCEPT !.last = NoPart]
          [] OTHER ->
               [read EXCEPT !.spec[read.last].said =
                   Append(@, [said EXCEPT !.marked = line.marked])]

\* The rest of a text is read on from what was read of it.
ReadAfter(read, text) ==
    LET upTo[i \in 0..Len(text)] == IF i = 0 THEN read ELSE ReadLine(upTo[i - 1], text[i])
    IN  upTo[Len(text)]

Read(text) == ReadAfter([spec |-> OpenSpec, last |-> NoPart], text).spec

\* The spec as text: what is stored, what an agent is given, and what a
\* surface sends back, which writes it alike (task.rs:571-581).
WrittenPart(p, said) ==
    IF said = <<>> THEN <<>> ELSE <<Text(p, said[1])>> \o Loose(Tail(said))

Written(spec) ==
    LET of(p) == WrittenPart(p, spec[p].said)
    IN  of("goal") \o of("place") \o of("doneWhen") \o of("onFailure") \o of("why") \o of("scope")

----------------------------------------------------------------------------
(* What is left to decide.  `repo` is the state the repository is in.  A    *)
(* line is looked up as it stands, its marks with it: one word is a path or *)
(* a command; several in a row, or over several lines, are taken for        *)
(* neither.                                                                 *)

\* How many tracked files a place reaches; where there are none it is no place.
Reaches(repo, line) ==
    IF \E n \in DOMAIN Tracked[repo] : line = Lone(n)
    THEN Tracked[repo][CHOOSE n \in DOMAIN Tracked[repo] : line = Lone(n)] ELSE 0

\* Whether its first word is a program this machine has; nothing is run to see.
Runnable(repo, line) == \E n \in DOMAIN Programs[repo] : line = Lone(n)

\* Run once, and only where that is so.
Run(repo, line) ==
    LET ends == Programs[repo][CHOOSE n \in DOMAIN Programs[repo] : line = Lone(n)]
    IN  CASE ends = "passes" -> "passed"
          [] ends = "fails" -> "failed"
          [] OTHER -> "unknown"

Grounded(spec, repo) ==
    LET place == spec["place"].said
        done == spec["doneWhen"].said
    IN  [files |-> IF Len(place) = 1 THEN Reaches(repo, place[1]) ELSE 0,
         ran   |-> IF Len(done) = 1 /\ Runnable(repo, done[1])
                   THEN Run(repo, done[1]) ELSE "unknown"]

One(kind, part) == [kind |-> kind, part |-> part]

\* A part marked as drawn from the repository that is the author's own words.
Echoed(part, wrote) ==
    /\ ~IsOpen(part)
    /\ part.settled = "inferred"
    /\ Loose(part.said) = wrote

\* What is left of a part by itself: `why` only warns while it is open.
LeftOf(p, spec, wrote) ==
    CASE p \in Undecided(spec) -> <<One("unsettled", p)>>
      [] Echoed(spec[p], wrote) -> <<One("echoed", p)>>
      [] OTHER -> <<>>

\* Asked only of a place that was settled; an open one is counted already.
PlaceLeft(spec, grounded) ==
    CASE IsOpen(spec["place"]) -> <<>>
      [] ~IsOpen(spec["place"]) /\ grounded.files = 0 -> <<One("nowhere", "place")>>
      [] OTHER -> IF grounded.files > ReachesAtMost THEN <<One("reaches", "place")>> ELSE <<>>

\* A slip of the next: a command that passes already is taken.
DoneLeft_TakesPassing(spec, grounded) ==
    IF ~IsOpen(spec["doneWhen"]) /\ grounded.ran = "unknown"
    THEN <<One("unverifiable", "doneWhen")>> ELSE <<>>

DoneLeft(spec, grounded) ==
    CASE IsOpen(spec["doneWhen"]) -> <<>>
      [] ~IsOpen(spec["doneWhen"]) /\ grounded.ran = "unknown" ->
           <<One("unverifiable", "doneWhen")>>
      [] OTHER -> IF grounded.ran = "passed" THEN <<One("already", "doneWhen")>> ELSE <<>>

\* Every decision the spec leaves, in the order the parts are read in.
LeftToDecide(spec, wrote, grounded) ==
    LET of(p) == LeftOf(p, spec, wrote)
    IN  of("goal") \o of("place") \o of("doneWhen") \o of("onFailure") \o of("why") \o of("scope")
            \o PlaceLeft(spec, grounded) \o DoneLeft(spec, grounded)

Counted(spec, wrote, repo) == LeftToDecide(spec, wrote, Grounded(spec, repo))

PartsOf(left) == {left[i].part : i \in DOMAIN left}

\* What the model has to answer for: it can look at the repository again.
IsTheModels(one) == one.kind # "unsettled"
Amiss(left) == {left[i].part : i \in {j \in DOMAIN left : IsTheModels(left[j])}}

----------------------------------------------------------------------------
(* What a model answers with: of each part what it should say, if          *)
(* anything, what else it could be, and whether there is a question.       *)

Nothing == [said |-> {}, marked |-> FALSE, others |-> {}, asks |-> FALSE]

\* An answer that names no part is none: the model was not reached, or said
\* nothing that could be read.
NoDraft == [p \in Part |-> Nothing]

\* What a line of an answer is of: the part itself, what else it could be,
\* what to ask about it.  A word may be in backticks, as code is, or have marks
\* of its own.
Marks == {"none", "code", "its own"}
Line == [names : Part, of : {"said", "others", "asks"},
         says : SUBSET [word : Word, marks : Marks]]

\* The first line that names it decides, and one that says none says nothing.
Field(answer, p, of) ==
    LET those == {i \in DOMAIN answer : answer[i].names = p /\ answer[i].of = of}
    IN  IF those = {} THEN {}
        ELSE answer[CHOOSE i \in those : \A j \in those : i <= j].says

\* The backticks around a whole line come off it, and no other marks do.
HasMarks(row) == \E w \in row : w.marks = "its own"

\* A row is parted at its commas only then: of several in code each keeps one.
Choices(row) ==
    {[word   |-> w.word,
      marked |-> w.marks = "its own" \/ (w.marks = "code" /\ \E v \in row : v # w)] : w \in row}

\* An answer read, line by line; what names no part is passed over.
Drafted(answer) ==
    [p \in Part |-> [said   |-> {w.word : w \in Field(answer, p, "said")},
                    marked |-> HasMarks(Field(answer, p, "said")),
                    others |-> Choices(Field(answer, p, "others")),
                    asks   |-> Field(answer, p, "asks") # {}]]

SpecFrom(drafted) ==
    [p \in Part |->
        LET proposed == drafted[p]
            said == [words |-> proposed.said, marked |-> proposed.marked]
        IN  [said    |-> IF proposed.said = {} THEN <<>> ELSE <<said>>,
             settled |-> IF proposed.said = {} THEN "open" ELSE "inferred",
             others  |-> proposed.others,
             asks    |-> proposed.asks]]

\* A slip of the next: the second answer is the answer.
Better_TheSecond(was, now, faulted) == TRUE

\* Whether the second answer's part is the one to take.
Better(was, now, faulted) ==
    \/ IsOpen(was) /\ ~IsOpen(now)
    \/ IsOpen(was) /\ IsOpen(now) /\ ~was.asks /\ now.asks
    \/ ~IsOpen(was) /\ ~IsOpen(now) /\ faulted

Mended(held, second, amiss) ==
    [p \in Part |-> IF Better(held[p], second[p], p \in amiss) THEN second[p] ELSE held[p]]
============================================================================
