------------------------------ MODULE Applying ------------------------------
(***************************************************************************)
(* Taking up a result: `apply`, which asks git four things while it has    *)
(* the store's lock, beside a person who edits, commits, merges and        *)
(* deletes in the repository meanwhile.  Every answer of git's is true of  *)
(* the moment it is asked.                                                 *)
(*                                                                         *)
(* A repository is what each file holds: in the working tree, where it is  *)
(* checked out, where each task's branch left the base, and at its end.  A *)
(* patch goes in where each of its files holds what the patch says it was  *)
(* made against, and takes all of them or none.  It is read as text:       *)
(* whatever is none comes out as something else, and of a file git takes   *)
(* for binary the patch has the name alone.  Of a file only the lines that *)
(* a patch of it would have are told apart here.                           *)
(***************************************************************************)
EXTENDS Naturals, FiniteSets

CONSTANTS
    Result,      \* the tasks
    File,
    Content,     \* what a file may hold
    Text,        \* what of it is UTF-8
    Binary,      \* what of it git takes for binary
    Lossy,       \* the text that comes of what is neither
    NoLines,     \* what a patch has of a binary file
    AtFirst,     \* what each holds when the first branch is made
    MostWrites,  \* bound: how often a run writes, and how often a person does
    MostTries    \* bound: how often one task is run

ASSUME ContentAssumption == AtFirst \in Content /\ NoLines \notin Content
ASSUME LossyAssumption ==
    /\ Text \subseteq Content /\ Binary \subseteq Content
    /\ Lossy \in [Content \ (Text \cup Binary) -> Text]

VARIABLES
    ran,         \* each task: "waiting", "running", "ended"
    tries,       \* how often it was run
    decided,     \* what was decided of it: "none", "applied", "discarded"
    branches,    \* the tasks whose branches are there
    point,       \* where each left the base
    tip,         \* its end
    head,        \* what is checked out
    tree,        \* the working tree
    call,        \* the `apply` that has the lock, and how far it has come
    answered,    \* what the last one answered
    touched,     \* the files each task's runs committed to since the branch left
    made,        \* what they made of them, when the last `apply` read it
    put,         \* what its files hold once that one has put it in, and any it changed
    writes       \* how often anybody wrote

backlog_ == <<ran, tries, decided>>
repository_ == <<branches, point, tip, head, tree>>
witness == <<touched, made, put>>
applyVars == <<backlog_, repository_, call, answered, witness, writes>>

Idle == [at |-> "idle", task |-> CHOOSE t \in Result : TRUE, patch |-> [f \in {} |-> AtFirst]]

ApplyInit ==
    /\ ran = [t \in Result |-> "waiting"]
    /\ tries = [t \in Result |-> 0]
    /\ decided = [t \in Result |-> "none"]
    /\ branches = {}
    /\ head = [f \in File |-> AtFirst]
    /\ tree = head
    /\ point = [t \in Result |-> head]
    /\ tip = [t \in Result |-> head]
    /\ call = Idle
    /\ answered = "none"
    /\ touched = [t \in Result |-> {}]
    /\ made = [t \in Result |-> Idle.patch]
    /\ put = [t \in Result |-> Idle.patch]
    /\ writes = 0

LockIsFree == call.at = "idle"

----------------------------------------------------------------------------
(* A run, and what is decided of one that ended.                           *)

\* The branch is made where none is there, from what the base holds.
RunStarts(t) ==
    /\ LockIsFree /\ ran[t] = "waiting" /\ tries[t] < MostTries
    /\ ran' = [ran EXCEPT ![t] = "running"]
    /\ tries' = [tries EXCEPT ![t] = @ + 1]
    /\ IF t \in branches THEN UNCHANGED <<branches, point, tip, touched>>
       ELSE /\ branches' = branches \cup {t}
            /\ point' = [point EXCEPT ![t] = head]
            /\ tip' = [tip EXCEPT ![t] = head]
            /\ touched' = [touched EXCEPT ![t] = {}]
    /\ UNCHANGED <<decided, head, tree, call, answered, made, put, writes>>

RunCommits(t, f, c) ==
    /\ ran[t] = "running" /\ t \in branches /\ writes < MostWrites
    /\ tip' = [tip EXCEPT ![t][f] = c]
    /\ touched' = [touched EXCEPT ![t] = @ \cup {f}]
    /\ writes' = writes + 1
    /\ UNCHANGED <<branches, point, head, tree, call, answered, made, put>> /\ UNCHANGED backlog_

RunEnds(t) ==
    /\ LockIsFree /\ ran[t] = "running"
    /\ ran' = [ran EXCEPT ![t] = "ended"]
    /\ UNCHANGED <<tries, decided, call, answered, writes>> /\ UNCHANGED <<repository_, witness>>

\* `discard` and `retry`.
DecideElse(t) ==
    /\ LockIsFree /\ ran[t] = "ended"
    /\ \/ decided' = [decided EXCEPT ![t] = "discarded"] /\ UNCHANGED ran
       \/ decided' = [decided EXCEPT ![t] = "none"] /\ ran' = [ran EXCEPT ![t] = "waiting"]
    /\ UNCHANGED <<tries, call, answered, writes>> /\ UNCHANGED <<repository_, witness>>

----------------------------------------------------------------------------
(* `apply`.                                                                *)

At(where) == call.at = where

Refuses(why) ==
    /\ call' = Idle
    /\ answered' = why
    /\ UNCHANGED <<writes, made, put, touched>> /\ UNCHANGED <<backlog_, repository_>>

GoesOn(to) ==
    /\ call' = [call EXCEPT !.at = to]
    /\ UNCHANGED <<answered, writes, made, put, touched>> /\ UNCHANGED <<backlog_, repository_>>

BeginApply(t) ==
    /\ LockIsFree
    /\ IF ran[t] # "ended" THEN Refuses("NotEnded")
       ELSE /\ call' = [Idle EXCEPT !.at = "asked", !.task = t]
            /\ UNCHANGED <<answered, writes>> /\ UNCHANGED <<backlog_, repository_, witness>>

AskClean ==
    /\ At("asked")
    /\ IF tree # head THEN Refuses("Uncommitted") ELSE GoesOn("clean")

\* A slip of the next: two dots rather than three.
Diverged_TwoDots(t) == {f \in File : head[f] # tip[t][f]}

\* The files that differ between where the branch left the base and its end.
Diverged(t) == {f \in File : point[t][f] # tip[t][f]}

\* `from_utf8_lossy`, of what git printed.
AsText(c) == IF c \in Text \cup Binary THEN c ELSE Lossy[c]

Hunk(from, to) ==
    IF from \in Binary \/ to \in Binary THEN [from |-> NoLines, to |-> NoLines]
    ELSE [from |-> AsText(from), to |-> AsText(to)]

\* The patch is read once, and is what is asked about and put in.
ReadPatch ==
    /\ At("clean")
    /\ LET t == call.task
       IN  CASE t \notin branches -> Refuses("NoResult")
             [] t \in branches /\ Diverged(t) = {} -> Refuses("NoChange")
             [] OTHER ->
                  /\ call' = [call EXCEPT !.at = "read",
                                          !.patch = [f \in Diverged(t) |->
                                                        Hunk(point[t][f], tip[t][f])]]
                  /\ made' = [made EXCEPT ![t] =
                                  [f \in {g \in touched[t] : tip[t][g] # point[t][g]} |-> tip[t][f]]]
                  /\ put' = [put EXCEPT ![t] = Idle.patch]
                  /\ UNCHANGED <<answered, writes, touched>> /\ UNCHANGED <<backlog_, repository_>>

Forwards == \A f \in DOMAIN call.patch : tree[f] = call.patch[f].from
Backwards == \A f \in DOMAIN call.patch : tree[f] = call.patch[f].to

\* Asked before anything is written.
AskWhether == At("read") /\ GoesOn(IF Forwards THEN "fits" ELSE "differs")

AskBackwards ==
    /\ At("differs")
    /\ Refuses(IF Backwards THEN "AlreadyApplied" ELSE "Conflicts")

Write ==
    LET t == call.task
    IN  /\ tree' = [f \in File |-> IF f \in DOMAIN call.patch THEN call.patch[f].to ELSE tree[f]]
        /\ put' = [put EXCEPT ![t] =
                       [f \in DOMAIN call.patch \cup {g \in File : tree'[g] # tree[g]} |-> tree'[f]]]
        /\ call' = [call EXCEPT !.at = "put"]
        /\ UNCHANGED <<branches, point, tip, head, answered, writes, touched, made>>
        /\ UNCHANGED backlog_

\* git asks again by itself, and writes the whole of it or nothing.
PutIn ==
    /\ At("fits")
    /\ IF Forwards THEN Write ELSE Refuses("Conflicts")

\* `decided`, and the change to the store: a save that fails is all that is
\* heard of a patch that is in.
SaveApplied ==
    /\ At("put")
    /\ call' = Idle
    /\ \/ decided' = [decided EXCEPT ![call.task] = "applied"] /\ answered' = "applied"
       \/ UNCHANGED decided /\ answered' = "Unavailable"
    /\ UNCHANGED <<ran, tries, writes>> /\ UNCHANGED <<repository_, witness>>

\* The core is killed while it asks.
ApplyDies ==
    /\ ~LockIsFree
    /\ call' = Idle
    /\ UNCHANGED <<answered, writes>> /\ UNCHANGED <<backlog_, repository_, witness>>

----------------------------------------------------------------------------
(* The person whose repository it is.                                      *)

Person(b, p, h, t) ==
    /\ writes < MostWrites
    /\ writes' = writes + 1
    /\ branches' = b /\ point' = p /\ head' = h /\ tree' = t
    /\ UNCHANGED <<tip, call, answered, made, put>> /\ UNCHANGED backlog_

EditFile(f, c) == Person(branches, point, head, [tree EXCEPT ![f] = c]) /\ UNCHANGED touched

CommitTree == tree # head /\ Person(branches, point, tree, tree) /\ UNCHANGED touched

DropEdits == tree # head /\ Person(branches, point, head, head) /\ UNCHANGED touched

DeleteBranch(t) ==
    /\ t \in branches /\ ran[t] # "running"
    /\ Person(branches \ {t}, point, head, tree) /\ UNCHANGED touched

\* By hand, where nothing stands against it: the branch left the base here.
MergeBranch(t) ==
    /\ t \in branches /\ tree = head
    /\ \A f \in Diverged(t) : head[f] = point[t][f]
    /\ LET merged == [f \in File |-> IF f \in Diverged(t) THEN tip[t][f] ELSE head[f]]
       IN  Person(branches, [point EXCEPT ![t] = tip[t]], merged, merged)
    /\ touched' = [touched EXCEPT ![t] = {}]

PersonWorks ==
    \/ CommitTree \/ DropEdits
    \/ \E f \in File, c \in Content : EditFile(f, c)
    \/ \E t \in Result : DeleteBranch(t) \/ MergeBranch(t)

----------------------------------------------------------------------------

ApplyNext ==
    \/ \E t \in Result :
           \/ RunStarts(t) \/ RunEnds(t) \/ DecideElse(t) \/ BeginApply(t)
           \/ \E f \in File, c \in Content : RunCommits(t, f, c)
    \/ AskClean \/ ReadPatch \/ AskWhether \/ AskBackwards \/ PutIn \/ SaveApplied
    \/ ApplyDies \/ PersonWorks

ApplySpec == ApplyInit /\ [][ApplyNext]_applyVars

----------------------------------------------------------------------------

Files == [File -> Content]
Lines == Content \cup {NoLines}
Patch == UNION {[d -> [from : Lines, to : Lines]] : d \in SUBSET File}

ApplyTypeOK ==
    /\ point \in [Result -> Files] /\ tip \in [Result -> Files]
    /\ head \in Files /\ tree \in Files
    /\ touched \in [Result -> SUBSET File]
    /\ DOMAIN made = Result /\ DOMAIN put = Result
    /\ DOMAIN decided = Result /\ DOMAIN ran = Result /\ DOMAIN tries = Result
    /\ call \in [at : {"idle", "asked", "clean", "read", "fits", "differs", "put"},
                 task : Result \cup {Idle.task}, patch : Patch]
    /\ call.at # "idle" => call.task \in Result

\* A branch and the place it left the base differ only where a run wrote.
WrittenByRuns == \A t \in Result : Diverged(t) \subseteq touched[t]

\* What the runs made, as it reads.
AsItReads(t) == [f \in DOMAIN made[t] |-> AsText(made[t][f])]

PutAsItReads(t) ==
    /\ put[t] = AsItReads(t)
    /\ \A f \in DOMAIN made[t] : made[t][f] \notin Binary

\* A patch that was read is what the runs made as it reads, wherever it may go
\* in, and one that is in is it too.
PatchIsMade ==
    /\ call.at \in {"read", "fits", "differs"} =>
           /\ DOMAIN call.patch = DOMAIN made[call.task]
           /\ \A f \in DOMAIN call.patch : call.patch[f].from # NoLines =>
                  call.patch[f].to = AsText(made[call.task][f]) /\ made[call.task][f] \in Content \ Binary
    /\ call.at = "put" => PutAsItReads(call.task)

ApplyInductive == ApplyTypeOK /\ WrittenByRuns /\ PatchIsMade

\* A result is recorded as taken up by the `apply` that put in what the runs
\* had made, no more and no less: what the base gained afterwards is not
\* undone (git/result.rs:108-110), and nothing that did not go in is
\* recorded, whatever the person does between one question and the next.  What
\* they made goes in as it reads: as it is where it is text, marred where it is
\* not (git/result.rs:148), and not at all where one file of it is binary.
TakenAsMade ==
    [][\A t \in Result :
          decided[t] # "applied" /\ decided'[t] = "applied" => PutAsItReads(t)]_applyVars

\* "Brings those changes into the repository's working tree"
\* (port/outbound/repository/result.rs:85), whatever they are.
TakenAsItIs ==
    [][\A t \in Result :
          decided[t] # "applied" /\ decided'[t] = "applied" => put[t] = made[t]]_applyVars

\* What the repository says of a refusal, "a refusal leaves the working tree
\* as it was" (port/outbound/repository/result.rs:88), is true of git and of
\* the port; an `apply` whose change to the store fails has put the patch in
\* and answers with a refusal.
RefusalPutsNothing ==
    \A t \in Result : answered = "Unavailable" => put[t] = Idle.patch
============================================================================
