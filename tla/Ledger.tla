------------------------------- MODULE Ledger -------------------------------
(***************************************************************************)
(* The ledger of runs (adapter/outbound/file/run.rs): one line for each    *)
(* run, put at the end of one file by the thread that carried the run,     *)
(* under a lock of this process.  A write may put down a part of what it   *)
(* is given, fail after it, or be cut short by the core's death.           *)
(*                                                                         *)
(* A line is Pieces bytes and the byte that ends it; fewer of them are     *)
(* not a record, and neither is anything more on the same line.            *)
(***************************************************************************)
EXTENDS Disk, Integers, FiniteSets

CONSTANTS Writer,    \* threads that carry runs
          LastRun    \* runs there may be

ASSUME LedgerAssumption == LastRun \in Nat /\ Nobody \notin Writer

VARIABLES ledger,     \* the bytes of the file
          hand,       \* the run each writer has in hand, and what of its line is left
          turn,       \* who holds the lock
          runs,       \* how many runs were to be written down
          noted,      \* those that were
          deaths

ledgerVars == <<ledger, hand, turn, runs, noted, deaths>>

Run == 1..LastRun
NewLine == [run |-> 0, piece |-> 0]
Line(r) == [p \in 1..Pieces |-> [run |-> r, piece |-> p]] \o <<NewLine>>

Empty == [at |-> "idle", run |-> 0, left |-> <<>>]

LedgerInit ==
    /\ ledger = <<>>
    /\ hand = [w \in Writer |-> Empty]
    /\ turn = Nobody
    /\ runs = 0
    /\ noted = {}
    /\ deaths = 0

----------------------------------------------------------------------------

\* Where a line that is the record of a run begins.
StandsAt(r, i) ==
    /\ i = 1 \/ ledger[i - 1] = NewLine
    /\ i + Pieces - 1 <= Len(ledger)
    /\ \A p \in 1..Pieces : ledger[i + p - 1] = [run |-> r, piece |-> p]
    /\ i + Pieces <= Len(ledger) => ledger[i + Pieces] = NewLine

\* `read`: the records there are, each where its line begins, what is none
\* left out.
Stands(i) == IF \E r \in Run : StandsAt(r, i) THEN CHOOSE r \in Run : StandsAt(r, i) ELSE 0
Records == [i \in {j \in 1..Len(ledger) : Stands(j) # 0} |-> Stands(i)]

\* `unfinished`: the file ends part way through a line.
Unfinished == ledger # <<>> /\ ledger[Len(ledger)] # NewLine

LetsGo(w) ==
    /\ hand' = [hand EXCEPT ![w] = Empty]
    /\ turn' = Nobody

\* A run ended and its line is to be written.
AppendRun(w) ==
    /\ hand[w].at = "idle"
    /\ runs < LastRun
    /\ runs' = runs + 1
    /\ hand' = [hand EXCEPT ![w].at = "lock", ![w].run = runs']
    /\ UNCHANGED <<ledger, turn, noted, deaths>>

\* A slip of the next: nobody waits.
Lock_Anyway(w) ==
    /\ hand[w].at = "lock"
    /\ turn' = w
    /\ hand' = [hand EXCEPT ![w].at = "look"]
    /\ UNCHANGED <<ledger, runs, noted, deaths>>

Lock(w) ==
    /\ hand[w].at = "lock"
    /\ turn = Nobody
    /\ turn' = w
    /\ hand' = [hand EXCEPT ![w].at = "look"]
    /\ UNCHANGED <<ledger, runs, noted, deaths>>

\* A slip of the next: the line goes wherever the file ends.
Look_Glued(w) ==
    /\ hand[w].at = "look"
    /\ hand' = [hand EXCEPT ![w].at = "write", ![w].left = Line(hand[w].run)]
    /\ UNCHANGED <<ledger, turn, runs, noted, deaths>>

\* The file is opened and looked at; a line somebody left unfinished is ended
\* first.
Look(w) ==
    /\ hand[w].at = "look"
    /\ hand' = [hand EXCEPT ![w].at = "write",
                            ![w].left = (IF Unfinished THEN <<NewLine>> ELSE <<>>)
                                        \o Line(hand[w].run)]
    /\ UNCHANGED <<ledger, turn, runs, noted, deaths>>

\* `write_all`: some of what is left, until nothing is.
PutDown(w) ==
    /\ hand[w].at = "write"
    /\ hand[w].left # <<>>
    /\ \E n \in 1..Len(hand[w].left) :
          /\ ledger' = ledger \o SubSeq(hand[w].left, 1, n)
          /\ hand' = [hand EXCEPT ![w].left = SubSeq(@, n + 1, Len(@))]
    /\ UNCHANGED <<turn, runs, noted, deaths>>

Noted(w) ==
    /\ hand[w].at = "write"
    /\ hand[w].left = <<>>
    /\ noted' = noted \cup {hand[w].run}
    /\ LetsGo(w)
    /\ UNCHANGED <<ledger, runs, deaths>>

\* The file cannot be opened or written to.
AppendFails(w) ==
    /\ CallsFail
    /\ hand[w].at \in {"look", "write"}
    /\ hand[w].at = "write" => hand[w].left # <<>>
    /\ LetsGo(w)
    /\ UNCHANGED <<ledger, runs, noted, deaths>>

WritersDie ==
    /\ deaths < MostDeaths
    /\ deaths' = deaths + 1
    /\ hand' = [w \in Writer |-> Empty]
    /\ turn' = Nobody
    /\ UNCHANGED <<ledger, runs, noted>>

LedgerNext ==
    \/ \E w \in Writer : AppendRun(w) \/ Lock(w) \/ Look(w) \/ PutDown(w) \/ Noted(w)
                         \/ AppendFails(w)
    \/ WritersDie

LedgerSpec == LedgerInit /\ [][LedgerNext]_ledgerVars

----------------------------------------------------------------------------

LedgerTypeOK ==
    /\ ledger \in Seq([run : 0..LastRun, piece : 0..Pieces])
    /\ hand \in [Writer -> [at : {"idle", "lock", "look", "write"}, run : 0..LastRun,
                            left : Seq([run : 0..LastRun, piece : 0..Pieces])]]
    /\ turn \in Writer \cup {Nobody}
    /\ runs \in 0..LastRun
    /\ noted \subseteq 1..runs
    /\ deaths \in 0..MostDeaths

\* "A death that cost one run's line would cost the next run's as well"
\* (run.rs:119-122) is what looking at the end of the file is for: every run
\* whose line was written down is read back, and once, whatever was cut short
\* before it or after.
EveryNotedRunStands ==
    \A r \in noted : Cardinality({i \in DOMAIN Records : Records[i] = r}) = 1

\* "A run that ended must not be able to displace a run that ended before it"
\* (run.rs:4-6): what reading answers with only grows, at its end, by the run
\* whose writer holds the lock.
OneMoreAtTheEnd ==
    [][\/ Records' = Records
       \/ \E w \in Writer, i \in 1..Len(ledger') :
             /\ turn = w
             /\ \A j \in DOMAIN Records : j < i
             /\ Records' = [j \in DOMAIN Records \cup {i} |->
                               IF j = i THEN hand[w].run ELSE Records[j]]]_ledgerVars

----------------------------------------------------------------------------
(* Why it holds.                                                           *)

\* Byte p of the line of a run; before it and after it a line ends.
ByteOf(r, p) == IF p \in 1..Pieces THEN [run |-> r, piece |-> p] ELSE NewLine

\* How many bytes of its line a writer has put down; one less than none if it
\* has a line of somebody else's to end first.
Laid(w) == IF hand[w].at = "write" THEN Pieces + 1 - Len(hand[w].left) ELSE 0

\* Who looks at the file or writes to it holds the lock.
OneTurn == \A w \in Writer : hand[w].at \in {"look", "write"} => turn = w

\* A run is in one hand, and is not noted while it is.
OneHand ==
    \A w \in Writer :
        IF hand[w].at = "idle" THEN hand[w] = Empty
        ELSE /\ hand[w].run \in (1..runs) \ noted
             /\ \A v \in Writer \ {w} : hand[v].run # hand[w].run

\* Nothing of a run is in the file that its writer did not put there, and no
\* byte is there twice.
OnlyLaid ==
    /\ \A i \in 1..Len(ledger) : ledger[i].run \in 0..runs
    /\ \A w \in Writer, i \in 1..Len(ledger) :
          hand[w].at # "idle" /\ ledger[i].run = hand[w].run => ledger[i].piece \in 1..Laid(w)
    /\ \A i, j \in 1..Len(ledger) : ledger[i] = ledger[j] /\ ledger[i].run # 0 => i = j

\* The file ends with what was put down, on a line of its own, and the rest of
\* the line is left.
LaidSoFar(w) ==
    /\ Laid(w) \in -1..Len(ledger)
    /\ \A q \in 1..Len(hand[w].left) : hand[w].left[q] = ByteOf(hand[w].run, Laid(w) + q)
    /\ \A p \in 1..Laid(w) : ledger[Len(ledger) - Laid(w) + p] = ByteOf(hand[w].run, p)
    /\ Laid(w) \in 0..(Len(ledger) - 1) => ledger[Len(ledger) - Laid(w)] = NewLine

\* A line that is the record of a run, with its end.
WholeAt(r, i) ==
    /\ i \in 1..(Len(ledger) - Pieces)
    /\ i = 1 \/ ledger[i - 1] = NewLine
    /\ \A p \in 1..Pieces : ledger[i + p - 1] = [run |-> r, piece |-> p]
    /\ ledger[i + Pieces] = NewLine

LedgerInductive ==
    /\ LedgerTypeOK
    /\ OneTurn
    /\ OneHand
    /\ OnlyLaid
    /\ \A w \in Writer : hand[w].at = "write" => LaidSoFar(w)
    /\ \A r \in noted : \E i \in 1..Len(ledger) : WholeAt(r, i)
============================================================================
