----------------------------- MODULE Configuring -----------------------------
(***************************************************************************)
(* What a person chooses: the configuration file, the definitions of       *)
(* vendors placed beside it, and the core that reads both when it starts.  *)
(* A person writes the file through `config set`, which the core answers,  *)
(* or by hand, at any moment.                                              *)
(*                                                                         *)
(* The file is what it holds under each key; words are model values or     *)
(* names.  It is written as any store's is, to a copy beside it that is    *)
(* then renamed (adapter/outbound/file/kept.rs), but nobody holds a lock   *)
(* over it: two calls of `config set` share the one copy.                  *)
(***************************************************************************)
EXTENDS Deciding, FiniteSets

CONSTANTS
    Handler,     \* the threads that answer
    Vendor,      \* names of vendors
    Shipped,     \* those whose definitions ship
    ByDefault,   \* the one that is run where nothing is chosen
    Asked,       \* the keys a behaviour is about, of those there are and NoKey
    Words,       \* the values a person may write, and words that are none
    Broken,      \* what a file that is no document is read as
    NoCopy,      \* no copy beside the file
    MostByHand   \* bound: how often a person changes something by hand

ASSUME ShippedAssumption == Shipped \subseteq Vendor /\ ByDefault \in Shipped

\* What a file may hold.
Writable == UNION {[names -> Words] : names \in SUBSET Asked}

ASSUME BrokenAssumption == Broken \notin Writable /\ NoCopy \notin Writable \cup {Broken}

Key == {"vendor", "timing", "pacing", "locking"}
Takes == [timing |-> Timing, pacing |-> Pacing, locking |-> Locking]

\* A key a file may hold and nothing names.
NoKey == "plan"

Empty == [k \in {} |-> ByDefault]

\* What a definition placed by a person may be: all of one, some of one, or
\* nothing that can be read.
Placed == {"none", "whole", "partial", "unreadable"}

VARIABLES
    file,        \* the file, or Broken
    placed,      \* the definition placed under each name
    up,          \* whether a core is running
    known,       \* the names it takes: those there were when it started
    policy,      \* what its sessions are run under
    runs_,       \* the vendor it runs
    beside,      \* the half-written copy, or NoCopy
    torn,        \* whether who put the file in place had shared that copy
    setting,     \* each handler: the file it is about to write, or Idle
    refused,     \* whether the last start was
    byHand,      \* how often something was changed by hand
    meddled      \* whether what was changed is out of what `set` writes

confVars == <<file, beside, torn, placed, up, known, policy, runs_, setting, refused, byHand,
              meddled>>

\* Which file the one is that a handler has open: the copy, of its own making or
\* one that another opened too; what is in place, where another renamed it there;
\* or one that has no name any more.
Open == {"none", "own", "shared", "in place", "gone"}

Handling == [at : {"idle", "read", "write", "rename"}, holds : Writable, open : Open]

IdleHandler == [at |-> "idle", holds |-> Empty, open |-> "none"]

ConfInit ==
    /\ file = Empty
    /\ beside = NoCopy
    /\ torn = FALSE
    /\ placed = [v \in Vendor |-> "none"]
    /\ up = FALSE
    /\ known = {}
    /\ policy = Ships
    /\ runs_ = ByDefault
    /\ setting = [x \in Handler |-> IdleHandler]
    /\ refused = FALSE
    /\ byHand = 0
    /\ meddled = FALSE

----------------------------------------------------------------------------
(* Vendors.                                                                *)

\* Every name there is a file for, and those that ship; what is in the file
\* is not asked.
KnownNow == Shipped \cup {v \in Vendor : placed[v] # "none"}

\* What a person placed is laid over what ships under that name; where
\* nothing ships, it has to be whole.
Found(v) ==
    CASE placed[v] = "none" -> v \in Shipped
      [] placed[v] = "whole" -> TRUE
      [] placed[v] = "partial" -> v \in Shipped
      [] OTHER -> FALSE

----------------------------------------------------------------------------
(* A core that starts.                                                     *)

Chosen(held) == IF "vendor" \in DOMAIN held THEN held["vendor"] ELSE ByDefault

\* A key that is not a policy's is let be; what one holds is not.
PolicyOf(held) == [k \in DOMAIN Takes |-> IF k \in DOMAIN held THEN held[k] ELSE Ships[k]]

StartsUnder(held) ==
    /\ held # Broken
    /\ Chosen(held) \in KnownNow
    /\ Found(Chosen(held))
    /\ \A k \in DOMAIN Takes : PolicyOf(held)[k] \in Takes[k]

\* The file is read once, and both of what it says are taken from it.
CoreStarts ==
    /\ ~up
    /\ IF StartsUnder(file)
       THEN /\ up' = TRUE
            /\ known' = KnownNow
            /\ runs_' = Chosen(file)
            /\ policy' = PolicyOf(file)
            /\ refused' = FALSE
       ELSE refused' = TRUE /\ UNCHANGED <<up, known, runs_, policy>>
    /\ UNCHANGED <<file, beside, torn, placed, setting, byHand, meddled>>

\* It is stopped or killed, with whatever its handlers were at: what they came to
\* of the copy is left where it is.
CoreEnds ==
    /\ up
    /\ up' = FALSE
    /\ setting' = [x \in Handler |-> IdleHandler]
    /\ UNCHANGED <<file, beside, torn, placed, known, policy, runs_, refused, byHand, meddled>>

----------------------------------------------------------------------------
(* `config set`.                                                           *)

\* A slip of the next: a word is checked where it is read and not where it
\* is written.
Setting_AnyWord(k, word) == k \in Key

\* A value the key takes: for a vendor, a name the core knew when it started.
Setting(k, word) == k \in Key /\ word \in IF k = "vendor" THEN known ELSE Takes[k]

\* The whole file is held to the standard an argument is, each key of it.
ReadsWhole(held) == held # Broken /\ \A k \in DOMAIN held : Setting(k, held[k])

InSet(x, new) == setting' = [setting EXCEPT ![x] = new]

\* The value is read before the file is; what is refused changes nothing.
BeginSet(x, k, word) ==
    /\ up /\ setting[x].at = "idle"
    /\ Setting(k, word) /\ ReadsWhole(file)
    /\ InSet(x, [at |-> "read", open |-> "none",
                 holds |-> [j \in DOMAIN file \cup {k} |-> IF j = k THEN word ELSE file[j]]])
    /\ UNCHANGED <<file, beside, torn, placed, up, known, policy, runs_, refused, byHand, meddled>>

\* Who has the copy open, alone or not.
HaveOpen == {x \in Handler : setting[x].open \in {"own", "shared"}}

\* Everybody who has the copy open comes to have something else, and x is at that.
AllCome(x, new, to) ==
    setting' = [y \in Handler |-> IF y = x THEN new
                                  ELSE IF y \in HaveOpen THEN [setting[y] EXCEPT !.open = to]
                                  ELSE setting[y]]

\* `fs::write` opens the copy, and empties the one that is there.
OpenBeside(x) ==
    /\ up /\ setting[x].at = "read"
    /\ beside' = Empty
    /\ AllCome(x, [setting[x] EXCEPT !.at = "write",
                                     !.open = IF HaveOpen = {} THEN "own" ELSE "shared"],
               "shared")
    /\ UNCHANGED <<file, torn, placed, up, known, policy, runs_, refused, byHand, meddled>>

\* What a file may be read as that some of a document was written to, over what
\* was left there of another.
Mixed(d, other) ==
    LET under == IF other \in {Broken, NoCopy} THEN Empty ELSE other
    IN  {Broken} \cup {[k \in names |-> IF k \in DOMAIN d THEN d[k] ELSE under[k]] :
                          names \in SUBSET (DOMAIN d \cup DOMAIN under)}

\* It writes to the file it has open, wherever that is by now: some of what it
\* holds, or all the rest of it.  Only in a copy of its own is that the document.
WriteTo(x, whole) ==
    LET d == setting[x].holds
        open == setting[x].open
    IN  /\ beside' \in CASE open = "own" -> IF whole THEN {d} ELSE Mixed(d, Empty)
                         [] open = "shared" -> Mixed(d, beside) \cup {d}
                         [] OTHER -> {beside}
        /\ file' \in IF open = "in place" THEN Mixed(d, file) \cup {d} ELSE {file}

WriteSome(x) ==
    /\ up /\ setting[x].at = "write"
    /\ WriteTo(x, FALSE)
    /\ UNCHANGED <<torn, setting, placed, up, known, policy, runs_, refused, byHand, meddled>>

WriteRest(x) ==
    /\ up /\ setting[x].at = "write"
    /\ WriteTo(x, TRUE)
    /\ InSet(x, [setting[x] EXCEPT !.at = "rename"])
    /\ UNCHANGED <<torn, placed, up, known, policy, runs_, refused, byHand, meddled>>

\* A write that fails takes the copy away, whoever has it open; so does one that
\* could not open it.
WriteFails(x) ==
    /\ up /\ setting[x].at \in {"read", "write"}
    /\ beside' = NoCopy
    /\ AllCome(x, IdleHandler, "gone")
    /\ UNCHANGED <<file, torn, placed, up, known, policy, runs_, refused, byHand, meddled>>

\* `fs::rename`, of whatever copy there is, which fails where there is none.  What
\* was in place has no name any more.
RenameBeside(x) ==
    /\ up /\ setting[x].at = "rename"
    /\ IF beside = NoCopy
       THEN InSet(x, IdleHandler) /\ UNCHANGED <<file, beside, torn>>
       ELSE /\ file' = beside
            /\ beside' = NoCopy
            /\ torn' = (setting[x].open # "own")
            /\ setting' = [y \in Handler |->
                  IF y = x THEN IdleHandler
                  ELSE IF y \in HaveOpen THEN [setting[y] EXCEPT !.open = "in place"]
                  ELSE IF setting[y].open = "in place" THEN [setting[y] EXCEPT !.open = "gone"]
                  ELSE setting[y]]
    /\ UNCHANGED <<placed, up, known, policy, runs_, refused, byHand, meddled>>

\* The directory cannot be made, or the rename fails: the copy is left alone.
SetFails(x) ==
    /\ up /\ setting[x].at \in {"read", "rename"}
    /\ InSet(x, IdleHandler)
    /\ UNCHANGED <<file, beside, torn, placed, up, known, policy, runs_, refused, byHand, meddled>>

\* The rest of `set`, once the file is read.  What the core runs under stays what
\* it read.
GoOnSetting(x) ==
    \/ OpenBeside(x) \/ WriteSome(x) \/ WriteRest(x) \/ WriteFails(x)
    \/ RenameBeside(x) \/ SetFails(x)

----------------------------------------------------------------------------
(* The person.                                                             *)

ByHand == byHand < MostByHand /\ byHand' = byHand + 1

EditByHand ==
    /\ ByHand
    /\ \/ file' = Broken
       \/ \E k \in Asked, word \in Words :
              /\ file # Broken
              /\ file' = [j \in DOMAIN file \cup {k} |-> IF j = k THEN word ELSE file[j]]
       \/ file # Broken /\ \E k \in DOMAIN file : file' = [j \in DOMAIN file \ {k} |-> file[j]]
       \/ file' = Empty
    /\ meddled' = (meddled \/ ~StartsUnder(file'))
    /\ UNCHANGED <<beside, torn, placed, up, known, policy, runs_, setting, refused>>

\* A definition is placed, changed or taken away.
Place(v, what) ==
    /\ ByHand
    /\ placed' = [placed EXCEPT ![v] = what]
    /\ meddled' = (meddled \/ ~Found(v)' \/ v \in KnownNow \ KnownNow')
    /\ UNCHANGED <<file, beside, torn, up, known, policy, runs_, setting, refused>>

ConfNext ==
    \/ CoreStarts \/ CoreEnds \/ EditByHand
    \/ \E x \in Handler : GoOnSetting(x) \/ \E k \in Asked, word \in Words : BeginSet(x, k, word)
    \/ \E v \in Vendor, what \in Placed : Place(v, what)

----------------------------------------------------------------------------

ConfSpec == ConfInit /\ [][ConfNext]_confVars

ConfTypeOK ==
    /\ file \in Writable \cup {Broken}
    /\ placed \in [Vendor -> Placed]
    /\ up \in BOOLEAN /\ meddled \in BOOLEAN
    /\ known \subseteq Vendor
    /\ setting \in [Handler -> Handling]
    /\ beside \in Writable \cup {Broken, NoCopy} /\ torn \in BOOLEAN

\* Where nobody meddled, what a core found when it started is there still and
\* can be read, and what a handler is about to write a core would start under.
Unmeddled ==
    ~meddled =>
        /\ \A v \in KnownNow : Found(v)
        /\ up => known \subseteq KnownNow
        /\ \A x \in Handler : setting[x].at # "idle" => StartsUnder(setting[x].holds)

\* Who has a copy of its own is the only one that has one, and has put all of its
\* document there when it goes on to rename it; and what one has open that was
\* renamed by another is torn.
Copies ==
    \A x \in Handler :
        /\ setting[x].open = "own" =>
              /\ HaveOpen = {x}
              /\ setting[x].at = "rename" => beside = setting[x].holds
        /\ setting[x].open = "in place" => torn
        /\ setting[x].at \in {"idle", "read"} => setting[x].open = "none"

\* A core that would start goes on to start: whatever `config set` writes, in
\* whatever order its calls read, write and rename, though some fail and a core
\* dies between two of them, the next core starts under, unless a person wrote
\* something by hand that one does not, or took away or spoiled a definition, or
\* what is in place was put there by a call that shared its copy with another.
\* One call that had the copy to itself is enough to mend that, and no copy that
\* was left behind undoes it.  "Failing once here beats failing on every task a
\* session assigns" (main.rs:252), and failing at `set` beats both.
StartsAgain == ~meddled /\ ~torn => StartsUnder(file)

ConfInductive == ConfTypeOK /\ Unmeddled /\ Copies /\ StartsAgain

\* "A name with no definition behind it would be accepted and then fail on the
\* next task, which is later than it needs to be" (definition.rs:320-321): what
\* `set` takes for a vendor has a definition that can be read.  It asks for a
\* file of that name, and not what is in it.
SetTakesWhatIsFound ==
    [][\A x \in Handler :
          setting[x].at = "rename" /\ file' = setting[x].holds /\ file' # file
              => Found(Chosen(file')) \/ Chosen(file') = Chosen(file)]_confVars
============================================================================
