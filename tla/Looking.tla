------------------------------- MODULE Looking -------------------------------
(***************************************************************************)
(* Looks at the vendor's limit.  Each starts the vendor's program in a     *)
(* terminal, reads its screen, types at it, and waits for a figure in a    *)
(* file the program's status line is written to.  All looks use the one    *)
(* directory, and a worker that measures does not wait for another's.      *)
(***************************************************************************)
EXTENDS Naturals, Sequences, FiniteSets

CONSTANTS
    Look,         \* the looks
    MostUsed,     \* how far the limit moves in a behaviour
    MostLines,    \* how many status lines one program writes
    StepsFail,    \* whether a call before the watching may fail
    NewLine,      \* what ends a line, which is no figure
    Unavailable,  \* what a look with no figure comes to
    NoReading     \* what one that is not over has come to

VARIABLES
    used,        \* how much of the limit is used
    written,     \* the file: figures and line ends, in the order put down
    stage,       \* how far each look has come
    typedAt,     \* what each has typed: "return", "prompt"
    vendor,      \* each look's program
    screen,      \* what it has shown: "trusts", "ready"
    figure,      \* what its last answer from the vendor said
    pen,         \* how far the status line's script is: "idle", "begun", "put"
    linesLeft,   \* how many it may still write
    reading,     \* what each look came to
    began,       \* how much was used when it began
    alone        \* whether nothing another look started was at work meanwhile

watching == <<stage, typedAt, reading, began, alone>>
program == <<vendor, screen, figure, pen, linesLeft>>
lookVars == <<used, written, watching, program>>

AtWork(l) == vendor[l] \notin {"none", "gone"} \/ pen[l] # "idle"

LookInit ==
    /\ used = 0
    /\ written = <<>>
    /\ stage = [l \in Look |-> "none"]
    /\ typedAt = [l \in Look |-> {}]
    /\ vendor = [l \in Look |-> "none"]
    /\ screen = [l \in Look |-> {}]
    /\ figure = [l \in Look |-> 0]
    /\ pen = [l \in Look |-> "idle"]
    /\ linesLeft = [l \in Look |-> MostLines]
    /\ reading = [l \in Look |-> NoReading]
    /\ began = [l \in Look |-> 0]
    /\ alone = [l \in Look |-> TRUE]

----------------------------------------------------------------------------
(* The file.                                                               *)

\* Where lines end: at each end of a line, and at the end of the file.
LineStarts == {1} \cup {i + 1 : i \in {j \in DOMAIN written : written[j] = NewLine}}

\* A line is read as an object where it is one and no more.
IsLine(i) ==
    /\ i \in LineStarts /\ i <= Len(written)
    /\ written[i] # NewLine
    /\ i = Len(written) \/ written[i + 1] = NewLine

\* The last line that carries the figure.
Kept ==
    LET lines == {i \in DOMAIN written : IsLine(i)}
    IN  IF lines = {} THEN Unavailable
        ELSE written[CHOOSE i \in lines : \A j \in lines : j <= i]

----------------------------------------------------------------------------
(* A look.                                                                 *)

\* Whoever else is at work now was at work beside it.
Beside(l) ==
    [m \in Look |-> alone[m] /\ IF m = l THEN \A o \in Look \ {l} : ~AtWork(o)
                                ELSE stage[m] \in {"none", "over"}]

\* A slip of the next: what the last look left is kept.
LayOut_Keeps(l) ==
    /\ stage[l] = "none"
    /\ stage' = [stage EXCEPT ![l] = "laid"]
    /\ began' = [began EXCEPT ![l] = used]
    /\ alone' = Beside(l)
    /\ UNCHANGED <<used, written, typedAt, reading>> /\ UNCHANGED program

\* What an earlier look left is taken away.
LayOut(l) ==
    /\ stage[l] = "none"
    /\ stage' = [stage EXCEPT ![l] = "laid"]
    /\ written' = <<>>
    /\ began' = [began EXCEPT ![l] = used]
    /\ alone' = Beside(l)
    /\ UNCHANGED <<used, typedAt, reading>> /\ UNCHANGED program

StartVendor(l) ==
    /\ stage[l] = "laid"
    /\ stage' = [stage EXCEPT ![l] = "watching"]
    /\ vendor' = [vendor EXCEPT ![l] = "starting"]
    /\ UNCHANGED <<used, written, typedAt, reading, began, alone,
                   screen, figure, pen, linesLeft>>

\* The place cannot be laid out, there is no terminal, or the program does
\* not start.
CannotStart(l) ==
    /\ StepsFail
    /\ stage[l] \in {"none", "laid"}
    /\ stage' = [stage EXCEPT ![l] = "over"]
    /\ reading' = [reading EXCEPT ![l] = Unavailable]
    /\ UNCHANGED <<used, written, typedAt, began, alone>> /\ UNCHANGED program

\* The terminal cannot be read or typed at: the look is over, and its program
\* is left to find that its terminal is gone.
CannotWatch(l) ==
    /\ StepsFail
    /\ stage[l] = "watching" /\ vendor[l] = "starting"
    /\ stage' = [stage EXCEPT ![l] = "over"]
    /\ reading' = [reading EXCEPT ![l] = Unavailable]
    /\ UNCHANGED <<used, written, typedAt, began, alone>> /\ UNCHANGED program

Watches(l) == stage[l] = "watching"

Type(l, what) ==
    /\ typedAt' = [typedAt EXCEPT ![l] = @ \cup {what}]
    /\ UNCHANGED <<used, written, stage, reading, began, alone>>
    /\ UNCHANGED program

TrustIt(l) ==
    /\ Watches(l) /\ "trusts" \in screen[l] /\ "return" \notin typedAt[l]
    /\ Type(l, "return")

\* Asked once, and not before the program has settled.
AskIt(l) ==
    /\ Watches(l) /\ "ready" \in screen[l] /\ "prompt" \notin typedAt[l]
    /\ "trusts" \in screen[l] => "return" \in typedAt[l]
    /\ Type(l, "prompt")

ReadIt(l) ==
    /\ Watches(l) /\ "prompt" \in typedAt[l]
    /\ Kept # Unavailable
    /\ stage' = [stage EXCEPT ![l] = "ending"]
    /\ reading' = [reading EXCEPT ![l] = Kept]
    /\ UNCHANGED <<used, written, typedAt, began, alone>> /\ UNCHANGED program

\* A slip of the next: nothing but the end of its program ends a look.
GiveUpLooking_WhenGone(l) ==
    /\ Watches(l) /\ vendor[l] = "gone"
    /\ stage' = [stage EXCEPT ![l] = "ending"]
    /\ reading' = [reading EXCEPT ![l] = Kept]
    /\ UNCHANGED <<used, written, typedAt, began, alone>> /\ UNCHANGED program

\* Its time is over, which it may be at any moment, or its program is gone:
\* one more look at the file.
GiveUpLooking(l) ==
    /\ Watches(l)
    /\ stage' = [stage EXCEPT ![l] = "ending"]
    /\ reading' = [reading EXCEPT ![l] = Kept]
    /\ UNCHANGED <<used, written, typedAt, began, alone>> /\ UNCHANGED program

\* Killed and waited for; a status line it began is another program's.
EndVendor(l) ==
    /\ stage[l] = "ending"
    /\ stage' = [stage EXCEPT ![l] = "over"]
    /\ vendor' = [vendor EXCEPT ![l] = "gone"]
    /\ UNCHANGED <<used, written, typedAt, reading, began, alone,
                   screen, figure, pen, linesLeft>>

----------------------------------------------------------------------------
(* The vendor's program, which is not ours.                                *)

IsUp(l) == vendor[l] \notin {"none", "gone"}

Screen(l) ==
    /\ vendor[l] = "starting"
    /\ \/ vendor' = [vendor EXCEPT ![l] = "asking"] /\ screen' = [screen EXCEPT ![l] = {"trusts"}]
       \/ vendor' = [vendor EXCEPT ![l] = "waiting"] /\ screen' = [screen EXCEPT ![l] = {"ready"}]
    /\ UNCHANGED <<used, written, figure, pen, linesLeft>> /\ UNCHANGED watching

Trusted(l) ==
    /\ vendor[l] = "asking" /\ "return" \in typedAt[l]
    /\ vendor' = [vendor EXCEPT ![l] = "waiting"]
    /\ screen' = [screen EXCEPT ![l] = @ \cup {"ready"}]
    /\ UNCHANGED <<used, written, figure, pen, linesLeft>> /\ UNCHANGED watching

\* The figure comes with an answer.
AnswerComes(l) ==
    /\ vendor[l] = "waiting" /\ "prompt" \in typedAt[l]
    /\ vendor' = [vendor EXCEPT ![l] = "answered"]
    /\ figure' = [figure EXCEPT ![l] = used]
    /\ UNCHANGED <<used, written, screen, pen, linesLeft>> /\ UNCHANGED watching

\* The status line is a script, which puts the object down and then, opening
\* the file again, the end of the line.  It goes on though the program that
\* began it is killed.  What it puts into a file that is taken away between its
\* opening and its putting is as if it had ended before.
BeginLine(l) ==
    /\ vendor[l] = "answered" /\ pen[l] = "idle" /\ linesLeft[l] > 0
    /\ pen' = [pen EXCEPT ![l] = "begun"]
    /\ linesLeft' = [linesLeft EXCEPT ![l] = @ - 1]
    /\ UNCHANGED <<used, written, vendor, screen, figure>> /\ UNCHANGED watching

PutLine(l, from, to, piece) ==
    /\ pen[l] = from
    /\ pen' = [pen EXCEPT ![l] = to]
    /\ written' = Append(written, piece)
    /\ UNCHANGED <<used, vendor, screen, figure, linesLeft>> /\ UNCHANGED watching

PutObject(l) == PutLine(l, "begun", "put", figure[l])
PutNewLine(l) == PutLine(l, "put", "idle", NewLine)

\* It ends by itself, or for the terminal that is gone.
VendorEnds(l) ==
    /\ IsUp(l)
    /\ vendor' = [vendor EXCEPT ![l] = "gone"]
    /\ UNCHANGED <<used, written, screen, figure, pen, linesLeft>>
    /\ UNCHANGED watching

LimitMoves ==
    /\ used < MostUsed
    /\ used' = used + 1
    /\ UNCHANGED written /\ UNCHANGED watching /\ UNCHANGED program

----------------------------------------------------------------------------

LookStep(l) ==
    \/ StartVendor(l) \/ TrustIt(l) \/ AskIt(l) \/ ReadIt(l)
    \/ GiveUpLooking(l) \/ EndVendor(l)

VendorStep(l) ==
    \/ Screen(l) \/ Trusted(l) \/ AnswerComes(l) \/ BeginLine(l) \/ VendorEnds(l)

LookNext ==
    \/ LimitMoves
    \/ \E l \in Look :
           \/ LayOut(l) \/ LookStep(l) \/ CannotStart(l) \/ CannotWatch(l)
           \/ VendorStep(l) \/ PutObject(l) \/ PutNewLine(l)

LookSpec == LookInit /\ [][LookNext]_lookVars

\* A program whose terminal is gone ends.
HangsUp(l) == stage[l] = "over" /\ VendorEnds(l)

----------------------------------------------------------------------------

\* What a look with no other beside it answers with is how the limit stood
\* when it began, or later: nothing an earlier look left is read.
FreshByItself ==
    \A l \in Look :
        reading[l] \notin {NoReading, Unavailable} /\ alone[l] => reading[l] >= began[l]

LookTypeOK ==
    /\ used \in Nat
    /\ written \in Seq(Nat \cup {NewLine})
    /\ stage \in [Look -> {"none", "laid", "watching", "ending", "over"}]
    /\ vendor \in [Look -> {"none", "starting", "asking", "waiting", "answered", "gone"}]
    /\ figure \in [Look -> Nat]
    /\ pen \in [Look -> {"idle", "begun", "put"}]
    /\ began \in [Look -> Nat]
    /\ DOMAIN alone = Look /\ DOMAIN reading = Look

\* Nothing is read before a look watches, and nothing of its is at work before.
NothingBefore ==
    \A l \in Look :
        /\ stage[l] \in {"none", "laid", "watching"} => reading[l] = NoReading
        /\ stage[l] \in {"none", "laid"} => vendor[l] = "none" /\ pen[l] = "idle"

\* Whether whatever is in the file, and whatever may be put into it, says how
\* the limit stood at least so far.
NoneBelow(n) ==
    /\ n <= used
    /\ \A i \in DOMAIN written : written[i] # NewLine => written[i] >= n
    /\ \A l \in Look : vendor[l] = "answered" \/ pen[l] # "idle" => figure[l] >= n

\* It does since a look began that nobody has begun another beside.
FreshWhileGoing ==
    \A l \in Look :
        stage[l] \in {"laid", "watching", "ending"} /\ alone[l] => NoneBelow(began[l])

LookInductive == LookTypeOK /\ NothingBefore /\ FreshWhileGoing /\ FreshByItself

\* Every look comes to an end and leaves no program of the vendor's behind,
\* whatever the program does and whichever call fails.
LooksEnd ==
    \A l \in Look :
        stage[l] = "laid" ~> (stage[l] = "over" /\ vendor[l] \in {"none", "gone"})
============================================================================
