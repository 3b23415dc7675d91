------------------------------- MODULE Adding -------------------------------
(***************************************************************************)
(* `task add`: a person at a surface, the core that reads what they wrote, *)
(* the model it asks, and the repository, which moves meanwhile.  The core *)
(* keeps nothing between one ask and the next: what a surface hands back   *)
(* is text, read like any other.                                           *)
(***************************************************************************)
EXTENDS Specs, FiniteSets

CONSTANTS
    Instructions,   \* the texts a person may begin with
    Drafts,         \* the answers a model may give, each a row of lines
    Repositories,   \* the states the repository may be in
    Typable,        \* the lines a person types at a prompt, of each part
    Stops,          \* what the surface offers for `on failure` itself
    MostAsks,       \* how often a surface asks in a behaviour
    MostMoves       \* how often the repository moves

ASSUME AddingAssumption ==
    /\ Instructions \subseteq TextType
    /\ Drafts \subseteq Seq(Line)
    /\ Typable \in [Part -> SUBSET LineType]
    /\ Stops \in Word
    /\ Repositories \subseteq DOMAIN Tracked

VARIABLES
    doing,       \* how far the command has come
    typed,       \* what the person began with
    force,       \* whether they gave --force
    terminal,    \* whether anybody is at a terminal
    sent,        \* the instruction of the last ask
    asks,        \* how many there were
    spec,        \* the spec the core worked out in answer to it
    left,        \* what that leaves to decide
    parts,       \* the parts as they are before the person: their own text at
                 \* first, then what is on the screen with what they answered
    next,        \* which of `left` they are asked about
    repo,        \* the state the repository is in now
    moves,       \* how often it moved
    careful,     \* whether it did not, and every answer was one it holds
    registered,  \* the instruction that was registered
    original     \* what was kept of what they typed

addingVars == <<doing, typed, force, terminal, sent, asks, spec, left, parts, next,
                repo, moves, careful, registered, original>>

AsGiven == UNCHANGED <<typed, force, terminal>>
NothingWritten == UNCHANGED <<registered, original>>

AddingInit ==
    /\ doing = "sent"
    /\ typed \in Instructions
    /\ force \in BOOLEAN
    /\ terminal \in BOOLEAN
    /\ sent = typed
    /\ asks = 1
    /\ spec = OpenSpec
    /\ left = <<>>
    /\ parts = Read(typed)
    /\ next = 0
    /\ repo \in Repositories
    /\ moves = 0
    /\ careful = TRUE
    /\ registered = <<>>
    /\ original = <<>>

----------------------------------------------------------------------------
(* The core.                                                               *)

\* Kept only when the run is given something else than what was typed.
Original(instruction) == IF instruction # typed THEN typed ELSE <<>>

Register(instruction) ==
    /\ doing' = "added"
    /\ registered' = instruction
    /\ original' = Original(instruction)
    /\ UNCHANGED <<sent, asks, spec, left, parts, next, repo, moves, careful>> /\ AsGiven

\* Nothing is written, and the surface is told what is left.
Confirm(worked_out, undecided) ==
    /\ doing' = "answered"
    /\ spec' = worked_out
    /\ left' = undecided
    /\ UNCHANGED <<sent, asks, parts, next, repo, moves, careful>> /\ AsGiven
    /\ NothingWritten

\* No title, no repository, no such task to wait for, a store that fails.
Refuse ==
    /\ doing = "sent"
    /\ doing' = "over"
    /\ UNCHANGED <<sent, asks, spec, left, parts, next, repo, moves, careful>> /\ AsGiven
    /\ NothingWritten

TakeAsWritten ==
    /\ doing = "sent" /\ force
    /\ Register(sent)

ReadAsSpec ==
    /\ doing = "sent" /\ ~force /\ NamesOne(sent)
    /\ LET read == Read(sent)
           counted == Counted(read, sent, repo)
       IN  IF counted = <<>> THEN Register(Written(read)) ELSE Confirm(read, counted)

\* A cheap model is asked, and a stronger one where that answered nothing.
FirstOf(cheaper, stronger) ==
    IF Drafted(cheaper) # NoDraft THEN Drafted(cheaper) ELSE Drafted(stronger)

\* A slip of the next: a draft that leaves nothing is registered.
Draft_Registers ==
    /\ doing = "sent" /\ ~force /\ ~NamesOne(sent)
    /\ \E cheaper, stronger \in Drafts :
           LET drafted == FirstOf(cheaper, stronger)
               counted == Counted(SpecFrom(drafted), sent, repo)
           IN  IF counted = <<>> THEN Register(Written(SpecFrom(drafted)))
               ELSE Confirm(SpecFrom(drafted), counted)

\* With nothing that the model must answer for, the person is asked; else the
\* model is, again.
Draft ==
    /\ doing = "sent" /\ ~force /\ ~NamesOne(sent)
    /\ \E cheaper, stronger \in Drafts :
           LET drafted == FirstOf(cheaper, stronger)
               worked_out == SpecFrom(drafted)
               counted == Counted(worked_out, sent, repo)
           IN  IF Amiss(counted) = {} THEN Confirm(worked_out, counted)
               ELSE /\ doing' = "amiss"
                    /\ spec' = worked_out
                    /\ left' = counted
                    /\ UNCHANGED <<sent, asks, parts, next, repo, moves, careful>> /\ AsGiven
                    /\ NothingWritten

\* Only a correction that leaves no more than there was is taken.
DraftAgain ==
    /\ doing = "amiss"
    /\ \E again \in Drafts :
           LET mended == Mended(spec, SpecFrom(Drafted(again)), Amiss(left))
               counted == Counted(mended, sent, repo)
           IN  IF Drafted(again) # NoDraft /\ Len(counted) <= Len(left)
               THEN Confirm(mended, counted) ELSE Confirm(spec, left)

\* A person works on in the repository while the model and they think.
RepositoryMoves ==
    /\ doing \notin {"added", "over"}
    /\ moves < MostMoves
    /\ moves' = moves + 1
    /\ repo' \in Repositories \ {repo}
    /\ careful' = FALSE
    /\ UNCHANGED <<doing, sent, asks, spec, left, parts, next>> /\ AsGiven /\ NothingWritten

----------------------------------------------------------------------------
(* The surface and the person.                                             *)

\* The whole spec is on the screen; a command in a script stops there.
PutUp ==
    /\ doing = "answered"
    /\ doing' = IF terminal THEN "settling" ELSE "over"
    /\ parts' = spec
    /\ next' = 1
    /\ UNCHANGED <<sent, asks, spec, left, repo, moves, careful>> /\ AsGiven /\ NothingWritten

\* What a person may choose between for the part.
Offered(p) ==
    {Lone(name) : name \in parts[p].others}
        \cup (IF p = "onFailure" THEN {Says({Stops})} ELSE {})

\* Lines put in a row with commas: only those at its two ends mark it.
Rows(lines) ==
    {[words |-> UNION {line.words : line \in lines}, marked |-> marked] :
        marked \in {line.marked : line \in lines}
                      \cup {FALSE : several \in {a \in lines : \E b \in lines : a # b}}}

\* One typed out, or one or several of those offered, and one typed beside
\* them.  A row with a word twice is left out.
Answerable(p) ==
    LET rows == {lines \in (SUBSET (Offered(p) \cup Typable[p])) \ {{}} :
                    /\ \A a, b \in lines \ Offered(p) : a = b
                    /\ \A a, b \in lines : a # b => a.words \cap b.words = {}}
    IN  {<<line>> : line \in UNION {Rows(lines) : lines \in rows}}

Settle(p, said) == [parts EXCEPT ![p] = [Given(said) EXCEPT !.asks = parts[p].asks]]

\* Whether the repository has the answer, as it stands.
Holds(p, said) ==
    LET alone == Grounded([OpenSpec EXCEPT ![p] = Given(said)], repo)
    IN  /\ p = "place" => alone.files \in 1..ReachesAtMost
        /\ p = "doneWhen" => alone.ran = "failed"

\* A slip of the next: the first of what is left is settled, and the rest not asked.
SettleNext_AsksOne ==
    /\ doing = "settling" /\ next <= Len(left)
    /\ \E said \in Answerable(left[next].part) :
           /\ parts' = Settle(left[next].part, said)
           /\ careful' = (careful /\ Holds(left[next].part, said))
    /\ next' = Len(left) + 1
    /\ UNCHANGED <<doing, sent, asks, spec, left, repo, moves>> /\ AsGiven /\ NothingWritten

\* What is left, one at a time; there is no accepting past it.
SettleNext ==
    /\ doing = "settling" /\ next <= Len(left)
    /\ \E said \in Answerable(left[next].part) :
           /\ parts' = Settle(left[next].part, said)
           /\ careful' = (careful /\ Holds(left[next].part, said))
    /\ next' = next + 1
    /\ UNCHANGED <<doing, sent, asks, spec, left, repo, moves>> /\ AsGiven /\ NothingWritten

\* A number changes that line, and the spec is shown again.
ChangeLine ==
    /\ doing = "settling" /\ next > Len(left)
    /\ \E p \in Part : \E line \in Typable[p] : parts' = Settle(p, <<line>>)
    /\ careful' = FALSE
    /\ UNCHANGED <<doing, sent, asks, spec, left, next, repo, moves>> /\ AsGiven /\ NothingWritten

\* Nothing is accepted that was not sent back and read again.
Accept ==
    /\ doing = "settling" /\ next > Len(left)
    /\ asks < MostAsks
    /\ asks' = asks + 1
    /\ sent' = Written(parts)
    /\ doing' = "sent"
    /\ UNCHANGED <<spec, left, parts, next, repo, moves, careful>> /\ AsGiven /\ NothingWritten

\* A blank line at a question, `n`, or the end of the input; or a nought among
\* the numbers chosen, which is looked up as any other and ends the command.
SayNo ==
    /\ doing = "settling"
    /\ doing' = "over"
    /\ UNCHANGED <<sent, asks, spec, left, parts, next, repo, moves, careful>> /\ AsGiven
    /\ NothingWritten

AddingNext ==
    \/ Refuse \/ TakeAsWritten \/ ReadAsSpec \/ Draft \/ DraftAgain \/ RepositoryMoves
    \/ PutUp \/ SettleNext \/ ChangeLine \/ Accept \/ SayNo

AddingSpec == AddingInit /\ [][AddingNext]_addingVars

----------------------------------------------------------------------------

Unforced == doing = "added" /\ ~force

\* "nothing a model worked out is registered before the author has seen it"
\* (docs/cli.md): the run is given, part for part, what was before the person
\* when they accepted it, or what they wrote, but for the marks around it;
\* and what they typed first is kept beside it.
RegisteredAsSeen ==
    Unforced =>
        /\ \A p \in Part :
               LET given == Read(registered)[p].said
               IN  [i \in DOMAIN given |-> Bare(given[i])]
                       = [i \in DOMAIN parts[p].said |-> Bare(parts[p].said[i])]
        /\ registered # typed => original = typed

\* What a text says of each part as a run finds it there, with the marks that
\* `Read` would take off the line that names it.
MarkedIn(text, p) == \E i \in DOMAIN text : text[i].names = p /\ text[i].marked
Stands(said, marked) ==
    [i \in DOMAIN said |-> IF i = 1 THEN [words |-> said[1].words, marked |-> marked] ELSE said[i]]
AsItStands(text) ==
    [p \in Part |-> Given(Stands(Read(text)[p].said, MarkedIn(text, p)))]

\* "Nothing is registered until every part but `why` is settled"
\* (docs/cli.md), and what a place and a command have to be: what is
\* registered, as it stands in the text a run is given, says where, and names
\* a command that does not pass yet, by what the repository answers at that
\* moment.
RegisteredLeavesNothing ==
    Unforced =>
        LET spec_ == AsItStands(registered)
            grounded == Grounded(spec_, repo)
        IN  /\ \A p \in Part \ {"why"} : spec_[p].said # <<>>
            /\ grounded.files \in 1..ReachesAtMost
            /\ grounded.ran = "failed"

\* Whether a text is read back as it stands where it names what the repository
\* has: marks at the ends of those lines come off them, also where they are
\* part of a name.
ReadsBack(text) ==
    \A i \in DOMAIN text : text[i].names \in {"place", "doneWhen"} => ~text[i].marked

\* What was asked is asked once: a person who answers every question with
\* something the repository holds, while it stays as it is, is not asked
\* again by what they hand back, unless a place or a command they were shown
\* begins or ends in a mark.
AskedOnce ==
    careful /\ asks > 1 /\ ReadsBack(sent) => doing \notin {"answered", "amiss", "settling"}

\* "What a surface hands back after asking is the spec it was shown, so the two
\* travel as one text and nothing else has to cross" (domain/spec.rs:250-251):
\* the same, whatever the place and the command are called.  One the
\* repository has, `_config.yml`, is read back as another, which it has not,
\* and asked about in every round.
AskedOnceWhatever == careful /\ asks > 1 => doing \notin {"answered", "amiss", "settling"}

\* "The first settled it and the repository held it up. Emptying it now would
\* be the second answer taking away what the first got right"
\* (service/backlog.rs:707-709): no part that held up is changed by a
\* correction.
HeldUpIsKept ==
    [][doing = "amiss" =>
          \A p \in Part \ PartsOf(left) : ~IsOpen(spec[p]) => spec'[p] = spec[p]]_addingVars

\* What a person is told they may do, "a number from 1 to {offered}, or several
\* separated by commas" (words.rs:101): several answers the repository holds,
\* each by itself, are one it holds.  They are put in a row as one name, which
\* it does not.
SeveralHold ==
    doing = "settling" =>
        \A p \in {q \in Part : parts[q].settled = "given" /\ parts[q].said # <<>>} :
            LET words == parts[p].said[1].words
            IN  Cardinality(words) > 1 /\ (\A w \in words : Holds(p, <<Says({w})>>))
                    => Holds(p, <<Says(words)>>)
----------------------------------------------------------------------------
(* What holds on the way to it.                                            *)

Kinds == {"unsettled", "echoed", "nowhere", "reaches", "unverifiable", "already"}

AddingTypeOK ==
    /\ doing \in {"sent", "answered", "amiss", "settling", "added", "over"}
    /\ typed \in TextType /\ sent \in TextType /\ registered \in TextType
    /\ spec \in [Part -> PartType] /\ parts \in [Part -> PartType]
    /\ left \in Seq([kind : Kinds, part : Part])
    /\ asks \in Nat \ {0} /\ next \in Nat
    /\ repo \in Repositories
    /\ careful \in BOOLEAN
    /\ doing = "settling" => next # 0

\* The same lines, but for the marks.
Bared(said) == [i \in DOMAIN said |-> Bare(said[i])]
SaysAs(a, b) == \A p \in Part : Bared(a[p].said) = Bared(b[p].said)

\* What is on its way says what the person last saw.
SentAsSeen == doing = "sent" => SaysAs(Read(sent), parts)

\* What is put before a careful person is what is left now; and of what they
\* were asked so far every part says what the repository holds.
WasAsked(p) == \E i \in DOMAIN left : i < next /\ left[i].part = p
WellAnswered(p) ==
    /\ parts[p].settled = "given" /\ Len(parts[p].said) = 1
    /\ Holds(p, parts[p].said)

LeftIsLeft ==
    careful /\ doing \in {"answered", "amiss", "settling"} => left = Counted(spec, sent, repo)
SettledSoFar ==
    careful /\ doing = "settling" =>
        \A p \in Part : IF WasAsked(p) THEN WellAnswered(p) ELSE parts[p] = spec[p]

\* And what they send back leaves nothing.
SentLeavesNothing ==
    careful /\ asks > 1 /\ doing = "sent" /\ ReadsBack(sent) =>
        NamesOne(sent) /\ Counted(Read(sent), sent, repo) = <<>>

AddingInductive ==
    /\ AddingTypeOK
    /\ SentAsSeen /\ RegisteredAsSeen /\ RegisteredLeavesNothing
    /\ LeftIsLeft /\ SettledSoFar /\ SentLeavesNothing /\ AskedOnce
============================================================================
