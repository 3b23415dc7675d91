-------------------------------- MODULE Kept --------------------------------
(***************************************************************************)
(* One store's file (adapter/outbound/file/kept.rs): a change reads the    *)
(* whole of it, writes the whole of the new one beside it and renames that *)
(* into place.  The backlog and the sessions hold the file's lock from the *)
(* reading to the renaming (file/backlog.rs and session.rs, `update`); the *)
(* configuration does not (file/configuration.rs, `store`, and             *)
(* core/service/configuration.rs, `set`), and Holding says which it is.    *)
(*                                                                         *)
(* A document is the set of the changes made to it.  One step is one call  *)
(* to the system, and a document takes several writes.                     *)
(***************************************************************************)
EXTENDS Disk

CONSTANTS Thread,
          Change,       \* the changes asked for, each of them once
          Inode,        \* files there may be at once, named or only open
          Holding,      \* whether a change holds the lock
          Nothing, Hole \* no file, or no change; what nobody wrote

ASSUME HoldingAssumption == Holding \in BOOLEAN
ASSUME NothingAssumption ==
    Nobody \notin Thread /\ Nothing \notin Inode \cup Change /\ (\A d \in SUBSET Change : d # Hole)

VARIABLES real,       \* the file in place
          beside,     \* the half-written copy
          content,    \* what each file holds, a piece of some document at each place
          frame,      \* how far each thread has come
          writing,    \* who holds the lock
          asked,      \* the changes that were begun
          answered,   \* those that were said to have been made
          refused,    \* those that were said not to have been
          dead        \* how often the core died

disk == <<real, beside, content>>
told == <<answered, refused>>
keptVars == <<disk, frame, writing, asked, told, dead>>

Document == SUBSET Change
File == Seq(Document \cup {Hole})
Frame == [at : {"idle", "hold", "read", "open", "write", "rename"},
          change : Change \cup {Nothing},
          document : Document,
          fd : Inode \cup {Nothing},
          wrote : 0..Pieces]
Idle == [at |-> "idle", change |-> Nothing, document |-> {}, fd |-> Nothing, wrote |-> 0]

KeptInit ==
    /\ real = Nothing
    /\ beside = Nothing
    /\ content = [i \in Inode |-> <<>>]
    /\ frame = [t \in Thread |-> Idle]
    /\ writing = Nobody
    /\ asked = {}
    /\ answered = {}
    /\ refused = {}
    /\ dead = 0

----------------------------------------------------------------------------
(* A file, and the document it is. *)

Row(n, d) == [p \in 1..n |-> d]
IsWhole(file) == \E d \in Document : file = Row(Pieces, d)
DocumentOf(file) == IF file = <<>> THEN {} ELSE file[1]
Holds(i) == IF i = Nothing THEN {} ELSE DocumentOf(content[i])

\* A file that neither a name nor an open one leads to.
Free == Inode \ ({real, beside} \cup {frame[t].fd : t \in Thread})

----------------------------------------------------------------------------
(* A change. *)

InStep(t, label) == frame' = [frame EXCEPT ![t].at = label]

\* It ends, one way or the other, and lets the lock go.
Over(t) ==
    /\ frame' = [frame EXCEPT ![t] = Idle]
    /\ writing' = IF writing = t THEN Nobody ELSE writing
    /\ UNCHANGED <<asked, dead>>

Refuse(t) == Over(t) /\ refused' = refused \cup {frame[t].change} /\ UNCHANGED answered

Begin(t) ==
    /\ frame[t].at = "idle"
    /\ \E c \in Change \ asked :
          /\ asked' = asked \cup {c}
          /\ frame' = [frame EXCEPT ![t].at = IF Holding THEN "hold" ELSE "read",
                                    ![t].change = c]
    /\ UNCHANGED <<disk, writing, told, dead>>

\* `holding`
Hold(t) ==
    /\ frame[t].at = "hold"
    /\ writing = Nobody
    /\ writing' = t
    /\ InStep(t, "read")
    /\ UNCHANGED <<disk, asked, told, dead>>

\* `read`, and the change made to what was read.  A file that is not a document
\* is refused, but for an empty one, which an empty configuration is.
Read(t) ==
    /\ frame[t].at = "read"
    /\ IF real # Nothing /\ content[real] # <<>> /\ ~ IsWhole(content[real])
       THEN Refuse(t)
       ELSE /\ frame' = [frame EXCEPT ![t].at = "open",
                                      ![t].document = Holds(real) \cup {frame[t].change}]
            /\ UNCHANGED <<writing, asked, told, dead>>
    /\ UNCHANGED disk

\* `fs::write` opens the copy, emptied if one is there, ...
Open(t) ==
    /\ frame[t].at = "open"
    /\ \E i \in IF beside = Nothing THEN Free ELSE {beside} :
          /\ beside' = i
          /\ content' = [content EXCEPT ![i] = <<>>]
          /\ frame' = [frame EXCEPT ![t].at = "write", ![t].fd = i, ![t].wrote = 0]
    /\ UNCHANGED <<real, writing, asked, told, dead>>

\* ... and puts one piece after another where it has come to.
Put(file, place, piece) ==
    [p \in 1..(IF place > Len(file) THEN place ELSE Len(file)) |->
        IF p = place THEN piece ELSE IF p <= Len(file) THEN file[p] ELSE Hole]

Write(t) ==
    LET place == frame[t].wrote + 1
        i == frame[t].fd
    IN  /\ frame[t].at = "write"
        /\ content' = [content EXCEPT ![i] = Put(content[i], place, frame[t].document)]
        /\ frame' = [frame EXCEPT ![t].wrote = place,
                                  ![t].at = IF place = Pieces THEN "rename" ELSE "write"]
        /\ UNCHANGED <<real, beside, writing, asked, told, dead>>

\* A write that fails takes the copy away.
WriteFails(t) ==
    /\ CallsFail
    /\ frame[t].at \in {"open", "write"}
    /\ beside' = Nothing
    /\ Refuse(t)
    /\ UNCHANGED <<real, content>>

\* A slip of the next: the name is there before the document is.
Rename_Early(t) ==
    /\ frame[t].at \in {"write", "rename"}
    /\ IF beside # Nothing
       THEN /\ real' = beside
            /\ beside' = Nothing
            /\ Over(t)
            /\ answered' = answered \cup {frame[t].change}
            /\ UNCHANGED refused
       ELSE Refuse(t) /\ UNCHANGED <<real, beside>>
    /\ UNCHANGED content

\* `fs::rename`, which fails where there is nothing to rename.
Rename(t) ==
    /\ frame[t].at = "rename"
    /\ IF beside # Nothing
       THEN /\ real' = beside
            /\ beside' = Nothing
            /\ Over(t)
            /\ answered' = answered \cup {frame[t].change}
            /\ UNCHANGED refused
       ELSE Refuse(t) /\ UNCHANGED <<real, beside>>
    /\ UNCHANGED content

\* Reading fails, or making the directory, or renaming, or the change is refused:
\* the copy is left alone.
StepFails(t) ==
    /\ CallsFail
    /\ frame[t].at \in {"read", "open", "rename"}
    /\ Refuse(t)
    /\ UNCHANGED disk

\* The core dies: what is on the disk is what its threads came to.
CoreDies ==
    /\ dead < MostDeaths
    /\ dead' = dead + 1
    /\ frame' = [t \in Thread |-> Idle]
    /\ writing' = Nobody
    /\ UNCHANGED <<disk, asked, told>>

KeptStep(t) ==
    \/ Begin(t) \/ Hold(t) \/ Read(t) \/ Open(t) \/ Write(t) \/ WriteFails(t)
    \/ Rename(t) \/ StepFails(t)

KeptNext == (\E t \in Thread : KeptStep(t)) \/ CoreDies

KeptSpec == KeptInit /\ [][KeptNext]_keptVars

----------------------------------------------------------------------------

KeptTypeOK ==
    /\ real \in Inode \cup {Nothing}
    /\ beside \in Inode \cup {Nothing}
    /\ content \in [Inode -> File]
    /\ frame \in [Thread -> Frame]
    /\ writing \in Thread \cup {Nobody}
    /\ asked \subseteq Change
    /\ answered \subseteq asked
    /\ refused \subseteq asked
    /\ dead \in 0..MostDeaths

\* "The real one is whatever it was" (kept.rs:84) until the whole of the next one
\* takes its place: what a store reads back is one document, all of it.
WholeInPlace == real # Nothing => IsWhole(content[real])

\* "A write that stops halfway leaves the half-written file beside the real
\* one. The real one is whatever it was. Renaming is the one step that either
\* happened or did not" (kept.rs:83-85): the file in place is one document,
\* with every change that was said to have been made and none that was said
\* not to have been.
EitherHappenedOrDidNot ==
    /\ WholeInPlace
    /\ answered \subseteq Holds(real)
    /\ refused \cap Holds(real) = {}

\* Who has the file holds the lock, has read what is in place, and has written
\* nothing but its own document to a copy that is not in place.
HolderOf(t) ==
    /\ frame[t].at \in {"idle", "hold"} <=> writing # t
    /\ frame[t].at \in {"hold", "read", "open", "write", "rename"} =>
          /\ frame[t].change \in asked
          /\ frame[t].change \notin answered \cup refused
    /\ frame[t].at \in {"open", "write", "rename"} =>
          frame[t].document = Holds(real) \cup {frame[t].change}
    /\ frame[t].at \in {"write", "rename"} =>
          /\ frame[t].fd = beside
          /\ beside # Nothing
          /\ content[beside] = Row(frame[t].wrote, frame[t].document)
    /\ frame[t].at = "rename" => frame[t].wrote = Pieces
    /\ frame[t].at = "write" => frame[t].wrote < Pieces

Holder == \A t \in Thread : HolderOf(t)

\* No two threads make one change.
Own == \A t, u \in Thread :
          t # u /\ frame[t].change = frame[u].change => frame[t].change = Nothing

\* What every step keeps where the lock is held.
KeptInductive ==
    /\ KeptTypeOK
    /\ EitherHappenedOrDidNot
    /\ Holder
    /\ Own
    /\ real = beside => real = Nothing
    /\ Holds(real) \subseteq answered

----------------------------------------------------------------------------
(* What the repository says of a file and one store does not keep, whose lock is *)
(* held by nobody; WholeInPlace is the other. *)
============================================================================
