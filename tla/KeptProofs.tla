----------------------------- MODULE KeptProofs -----------------------------
(***************************************************************************)
(* A change to a store whose lock is held happened or did not, for any     *)
(* number of threads, changes and pieces, failures and deaths.             *)
(*                                                                         *)
(* But for a renaming a step leaves the file in place as it is, and the    *)
(* one thread that may rename has put down the whole of a document that    *)
(* is what was in place and its own change.                                *)
(*                                                                         *)
(* And a run whose line was put down in the ledger is read back, once and  *)
(* in its place, for any number of writers and runs: the bytes a writer    *)
(* puts down follow each other under the lock, and a line somebody left    *)
(* without an end is ended before the next begins.                         *)
(*                                                                         *)
(* And a line of a trace is shown once, and a reading that nobody disturbs *)
(* shows all that fits, for any number of runs and any sizes of a line and *)
(* of a read: what a line says is in the file in one piece, and a reading  *)
(* starts where a line does.                                               *)
(*                                                                         *)
(* And what an entry of a store says reads the same once it was written,   *)
(* for any entry the core can read and any width of a number: every sort   *)
(* of a value has one spelling, which is read as that value.               *)
(***************************************************************************)
EXTENDS Kept, Ledger, Traces, Stored, SequenceTheorems, FiniteSetTheorems, WellFoundedInduction, TLAPS

LEMMA SameInterval ==
    ASSUME NEW m \in Nat, NEW n \in Nat, 1..m = 1..n
    PROVE  m = n
<1>1. m # 0 => m \in 1..m
  OBVIOUS
<1>2. n # 0 => n \in 1..n
  OBVIOUS
<1>3. (m # 0 => m \in 1..n) /\ (n # 0 => n \in 1..m)
  BY <1>1, <1>2
<1> QED
  BY <1>3

LEMMA RowIsSequence ==
    ASSUME NEW n \in Nat, NEW S, NEW d \in S
    PROVE  /\ Row(n, d) \in Seq(S)
           /\ Len(Row(n, d)) = n
<1>1. Row(n, d) \in Seq(S)
  <2>1. Row(n, d) \in [1..n -> S]
    BY DEF Row
  <2> QED
    BY <2>1, SeqDef
<1>2. DOMAIN Row(n, d) = 1..Len(Row(n, d)) /\ Len(Row(n, d)) \in Nat
  BY <1>1, LenProperties
<1>3. DOMAIN Row(n, d) = 1..n
  BY DEF Row
<1> QED
  BY <1>1, <1>2, <1>3, SameInterval

LEMMA RowOfNone == ASSUME NEW d PROVE Row(0, d) = <<>>
<1>1. Row(0, d) \in Seq({d}) /\ Len(Row(0, d)) = 0
  BY RowIsSequence
<1> QED
  BY <1>1, EmptySeq

\* The next piece of a document goes after the pieces of it there are.
LEMMA PutNext ==
    ASSUME NEW d, NEW n \in Nat
    PROVE  Put(Row(n, d), n + 1, d) = Row(n + 1, d)
<1>1. Len(Row(n, d)) = n
  BY RowIsSequence
<1> QED
  BY <1>1 DEF Put, Row

LEMMA DocumentOfWhole ==
    ASSUME NEW d
    PROVE  DocumentOf(Row(Pieces, d)) = d
<1>1. Pieces \in Nat /\ 1 \in 1..Pieces
  BY DiskAssumption
<1>2. Len(Row(Pieces, d)) = Pieces /\ Len(<<>>) = 0
  BY <1>1, RowIsSequence
<1>3. Row(Pieces, d)[1] = d
  BY <1>1 DEF Row
<1> QED
  BY <1>1, <1>2, <1>3 DEF DocumentOf

\* What is true of a thread that has not the lock stays so when another moves.
LEMMA OtherRests ==
    ASSUME NEW u \in Thread, HolderOf(u),
           frame'[u] = frame[u], frame[u].at \in {"idle", "hold"}, writing' # u,
           asked' = asked, frame[u].change \notin (answered' \cup refused') \ (answered \cup refused)
    PROVE  HolderOf(u)'
BY DEF HolderOf

\* A step that leaves the file in place as it is.
LEMMA InPlaceKept ==
    ASSUME real' = real, real # Nothing => content'[real] = content[real]
    PROVE  /\ (Holds(real))' = Holds(real)
           /\ WholeInPlace => WholeInPlace'
BY DEF Holds, WholeInPlace, IsWhole, Document

LEMMA InitInductive ==
    ASSUME Holding, KeptInit
    PROVE  KeptInductive
<1> USE NothingAssumption, DiskAssumption
<1>1. KeptTypeOK
  <2>1. <<>> \in File
    BY EmptySeq DEF File
  <2> QED
    BY <2>1 DEF KeptInit, KeptTypeOK, Frame, Idle, Document
<1>2. Holder /\ Own
  BY DEF KeptInit, Holder, HolderOf, Own, Idle
<1>3. EitherHappenedOrDidNot /\ Holds(real) \subseteq answered
  BY DEF KeptInit, EitherHappenedOrDidNot, WholeInPlace, Holds
<1> QED
  BY <1>1, <1>2, <1>3 DEF KeptInductive, KeptInit

LEMMA BeginKeeps ==
    ASSUME Holding, KeptInductive, NEW t \in Thread, Begin(t)
    PROVE  KeptInductive'
<1> USE NothingAssumption, DiskAssumption
<1>1. PICK c \in Change \ asked :
          /\ asked' = asked \cup {c}
          /\ frame' = [frame EXCEPT ![t].at = "hold", ![t].change = c]
  BY DEF Begin
<1>2. UNCHANGED <<real, beside, content, writing, answered, refused, dead>>
  BY DEF Begin, disk, told
<1>3. KeptTypeOK'
  <2>1. KeptTypeOK
    BY DEF KeptInductive
  <2>2. [frame[t] EXCEPT !.at = "hold", !.change = c] \in Frame
    BY <2>1 DEF KeptTypeOK, Frame
  <2>3. frame' = [frame EXCEPT ![t] = [frame[t] EXCEPT !.at = "hold", !.change = c]]
    BY <1>1
  <2>4. frame' \in [Thread -> Frame]
    BY <2>1, <2>2, <2>3 DEF KeptTypeOK
  <2>5. asked' \subseteq Change /\ answered \subseteq asked' /\ refused \subseteq asked'
    BY <1>1, <2>1 DEF KeptTypeOK
  <2> QED
    BY <1>2, <2>1, <2>4, <2>5 DEF KeptTypeOK
<1>4. (Holds(real))' = Holds(real) /\ WholeInPlace'
  BY <1>2, InPlaceKept DEF KeptInductive, EitherHappenedOrDidNot
<1>5. Holder'
  BY <1>1, <1>2, <1>4 DEF KeptInductive, KeptTypeOK, Frame, Holder, HolderOf, Begin
<1>6. Own'
  BY <1>1 DEF KeptInductive, KeptTypeOK, Frame, Own, Holder, HolderOf
<1> QED
  BY <1>2, <1>3, <1>4, <1>5, <1>6 DEF KeptInductive, EitherHappenedOrDidNot

\* The lock is free, so nobody has read, and what is in place is what it was.
LEMMA HoldKeeps ==
    ASSUME KeptInductive, NEW t \in Thread, Hold(t)
    PROVE  KeptInductive'
<1> USE NothingAssumption, DiskAssumption
<1>1. /\ frame' = [frame EXCEPT ![t].at = "read"]
      /\ writing' = t /\ writing = Nobody /\ frame[t].at = "hold"
      /\ UNCHANGED <<real, beside, content, asked, answered, refused, dead>>
  BY DEF Hold, InStep, disk, told
<1>2. KeptTypeOK'
  BY <1>1 DEF KeptInductive, KeptTypeOK, Frame
<1>3. (Holds(real))' = Holds(real) /\ WholeInPlace'
  BY <1>1, InPlaceKept DEF KeptInductive, EitherHappenedOrDidNot
<1>4. Holder'
  BY <1>1, <1>3 DEF KeptInductive, KeptTypeOK, Frame, Holder, HolderOf
<1>5. Own'
  BY <1>1 DEF KeptInductive, KeptTypeOK, Frame, Own
<1> QED
  BY <1>1, <1>2, <1>3, <1>4, <1>5 DEF KeptInductive, EitherHappenedOrDidNot

\* A change that is given up: whatever becomes of the copy, what is in place
\* is what it was, and the change is not in it.
LEMMA RefusedKeeps ==
    ASSUME KeptInductive, NEW t \in Thread, Refuse(t), frame[t].at \notin {"idle", "hold"},
           real' = real, content' = content, beside' \in {beside, Nothing}
    PROVE  KeptInductive'
<1> USE NothingAssumption, DiskAssumption
<1>1. /\ frame' = [frame EXCEPT ![t] = Idle]
      /\ writing = t /\ writing' = Nobody
      /\ refused' = refused \cup {frame[t].change}
      /\ UNCHANGED <<asked, answered, dead>>
  BY DEF Refuse, Over, KeptInductive, Holder, HolderOf
<1>2. KeptTypeOK'
  <2>1. Idle \in Frame
    BY DEF Idle, Frame, Document
  <2>2. frame[t].change \in asked
    BY DEF KeptInductive, KeptTypeOK, Frame, Holder, HolderOf
  <2> QED
    BY <1>1, <2>1, <2>2 DEF KeptInductive, KeptTypeOK, Frame
<1>3. (Holds(real))' = Holds(real) /\ WholeInPlace'
  BY InPlaceKept DEF KeptInductive, EitherHappenedOrDidNot
<1>4. frame[t].change \notin Holds(real) /\ frame[t].change # Nothing
  BY DEF KeptInductive, KeptTypeOK, Frame, Holder, HolderOf
<1>5. Holder'
  <2> SUFFICES ASSUME NEW u \in Thread
               PROVE  HolderOf(u)'
    BY DEF Holder
  <2>1. CASE u = t
    BY <1>1, <2>1 DEF KeptInductive, KeptTypeOK, Frame, HolderOf, Idle
  <2>2. CASE u # t
    <3>1. frame'[u] = frame[u] /\ frame[u].at \in {"idle", "hold"} /\ frame[u].change # frame[t].change
      BY <1>1, <1>4, <2>2 DEF KeptInductive, KeptTypeOK, Frame, Holder, HolderOf, Own
    <3>2. HolderOf(u) /\ writing' # u
      BY <1>1 DEF KeptInductive, Holder
    <3> QED
      BY <1>1, <3>1, <3>2, OtherRests
  <2> QED
    BY <2>1, <2>2
<1>6. Own'
  BY <1>1 DEF KeptInductive, KeptTypeOK, Frame, Own, Idle
<1> QED
  BY <1>1, <1>2, <1>3, <1>4, <1>5, <1>6 DEF KeptInductive, EitherHappenedOrDidNot

LEMMA ReadKeeps ==
    ASSUME KeptInductive, NEW t \in Thread, Read(t)
    PROVE  KeptInductive'
<1> USE NothingAssumption, DiskAssumption
<1>1. UNCHANGED <<real, beside, content>> /\ frame[t].at = "read"
  BY DEF Read, disk
<1>2. CASE Refuse(t)
  BY <1>1, <1>2, RefusedKeeps
<1>3. CASE /\ frame' = [frame EXCEPT ![t].at = "open",
                                      ![t].document = Holds(real) \cup {frame[t].change}]
           /\ UNCHANGED <<writing, asked, told, dead>>
  <2>1. UNCHANGED <<writing, asked, answered, refused, dead>>
    BY <1>3 DEF told
  <2>2. Holds(real) \cup {frame[t].change} \in Document
    BY <1>1 DEF KeptInductive, KeptTypeOK, Frame, Holder, HolderOf, Document
  <2>3. KeptTypeOK'
    <3>1. KeptTypeOK
      BY DEF KeptInductive
    <3>2. [frame[t] EXCEPT !.at = "open", !.document = Holds(real) \cup {frame[t].change}] \in Frame
      BY <2>2, <3>1 DEF KeptTypeOK, Frame
    <3>3. frame' = [frame EXCEPT ![t] = [frame[t] EXCEPT
                        !.at = "open", !.document = Holds(real) \cup {frame[t].change}]]
      BY <1>3
    <3>4. frame' \in [Thread -> Frame]
      BY <3>1, <3>2, <3>3 DEF KeptTypeOK
    <3> QED
      BY <1>1, <2>1, <3>1, <3>4 DEF KeptTypeOK
  <2>4. (Holds(real))' = Holds(real) /\ WholeInPlace'
    BY <1>1, InPlaceKept DEF KeptInductive, EitherHappenedOrDidNot
  <2>5. Holder'
    BY <1>1, <1>3, <2>1, <2>4 DEF KeptInductive, KeptTypeOK, Frame, Holder, HolderOf
  <2>6. Own'
    BY <1>3 DEF KeptInductive, KeptTypeOK, Frame, Own
  <2> QED
    BY <1>1, <2>1, <2>3, <2>4, <2>5, <2>6 DEF KeptInductive, EitherHappenedOrDidNot
<1> QED
  BY <1>2, <1>3 DEF Read

\* The copy is a file that is not in place.
LEMMA OpenKeeps ==
    ASSUME KeptInductive, NEW t \in Thread, Open(t)
    PROVE  KeptInductive'
<1> USE NothingAssumption, DiskAssumption
<1>1. PICK i \in IF beside = Nothing THEN Free ELSE {beside} :
          /\ beside' = i
          /\ content' = [content EXCEPT ![i] = <<>>]
          /\ frame' = [frame EXCEPT ![t].at = "write", ![t].fd = i, ![t].wrote = 0]
  BY DEF Open
<1>2. frame[t].at = "open" /\ UNCHANGED <<real, writing, asked, answered, refused, dead>>
  BY DEF Open, told
<1>3. i \in Inode /\ i # real
  BY DEF Free, KeptInductive, KeptTypeOK, Frame
<1>4. KeptTypeOK'
  <2>1. content' \in [Inode -> File]
    <3>1. <<>> \in File
      BY EmptySeq DEF File
    <3> QED
      BY <1>1, <3>1 DEF KeptInductive, KeptTypeOK
  <2>2. frame' \in [Thread -> Frame]
    <3>1. frame[t] \in Frame /\ frame \in [Thread -> Frame]
      BY DEF KeptInductive, KeptTypeOK
    <3> DEFINE opened == [at |-> "write", change |-> frame[t].change,
                          document |-> frame[t].document, fd |-> i, wrote |-> 0]
    <3>2. opened \in Frame
      BY <1>3, <3>1 DEF Frame
    <3>3. frame'[t] = opened
      BY <1>1, <3>1 DEF Frame
    <3>4. \A u \in Thread : u # t => frame'[u] = frame[u]
      BY <1>1, <3>1
    <3>5. frame' = [u \in Thread |-> frame'[u]]
      BY <1>1, <3>1
    <3> HIDE DEF opened
    <3>6. \A u \in Thread : frame'[u] \in Frame
      BY <3>1, <3>2, <3>3, <3>4
    <3> QED
      BY <3>5, <3>6
  <2> QED
    BY <1>1, <1>2, <1>3, <2>1, <2>2 DEF KeptInductive, KeptTypeOK
<1>5. (Holds(real))' = Holds(real) /\ WholeInPlace'
  <2>1. real # Nothing => content'[real] = content[real]
    BY <1>1, <1>3 DEF KeptInductive, KeptTypeOK, Frame
  <2> QED
    BY <1>2, <2>1, InPlaceKept DEF KeptInductive, EitherHappenedOrDidNot
<1>6. Holder'
  <2> SUFFICES ASSUME NEW u \in Thread
               PROVE  HolderOf(u)'
    BY DEF Holder
  <2>1. CASE u = t
    <3>1. content'[i] = Row(0, frame'[t].document)
      <4>1. Row(0, frame'[t].document) = <<>>
        BY RowOfNone
      <4> QED
        BY <1>1, <1>3, <4>1 DEF KeptInductive, KeptTypeOK, Frame
    <3>2. /\ frame'[t].at = "write" /\ frame'[t].fd = i /\ frame'[t].wrote = 0
          /\ frame'[t].change = frame[t].change /\ frame'[t].document = frame[t].document
      BY <1>1 DEF KeptInductive, KeptTypeOK, Frame
    <3>3. HolderOf(t)
      BY DEF KeptInductive, Holder
    <3>4. /\ frame[t].change \in asked' /\ frame[t].change \notin answered' \cup refused'
          /\ frame[t].document = (Holds(real))' \cup {frame[t].change}
          /\ writing' = t /\ beside' = i /\ i # Nothing
      BY <1>1, <1>2, <1>3, <1>5, <3>3 DEF HolderOf
    <3> QED
      BY <2>1, <3>1, <3>2, <3>4 DEF HolderOf
  <2>2. CASE u # t
    <3>1. frame'[u] = frame[u] /\ frame[u].at \in {"idle", "hold"}
      BY <1>1, <1>2, <2>2 DEF KeptInductive, KeptTypeOK, Frame, Holder, HolderOf
    <3>2. HolderOf(u)
      BY DEF KeptInductive, Holder
    <3>3. writing' # u
      BY <1>2, <3>1, <3>2 DEF HolderOf
    <3> QED
      BY <1>2, <3>1, <3>2, <3>3, OtherRests
  <2> QED
    BY <2>1, <2>2
<1>7. Own'
  BY <1>1 DEF KeptInductive, KeptTypeOK, Frame, Own
<1> QED
  BY <1>1, <1>2, <1>3, <1>4, <1>5, <1>6, <1>7 DEF KeptInductive, EitherHappenedOrDidNot

\* A piece goes where the last one ended, in the copy.
LEMMA WriteKeeps ==
    ASSUME KeptInductive, NEW t \in Thread, Write(t)
    PROVE  KeptInductive'
<1> USE NothingAssumption, DiskAssumption
<1> DEFINE n == frame[t].wrote
           d == frame[t].document
<1>1. /\ frame[t].at = "write" /\ frame[t].fd = beside /\ beside \in Inode /\ beside # real
      /\ n \in Nat /\ n + 1 \in 0..Pieces /\ d \in Document
      /\ content[beside] = Row(n, d)
  BY DEF Write, KeptInductive, KeptTypeOK, Frame, Holder, HolderOf
<1>2. /\ content' = [content EXCEPT ![beside] = Row(n + 1, d)]
      /\ frame' = [frame EXCEPT ![t].wrote = n + 1,
                                ![t].at = IF n + 1 = Pieces THEN "rename" ELSE "write"]
      /\ UNCHANGED <<real, beside, writing, asked, answered, refused, dead>>
  BY <1>1, PutNext DEF Write, told
<1>3. KeptTypeOK'
  <2>1. content' \in [Inode -> File]
    <3>1. Row(n + 1, d) \in File
      BY <1>1, RowIsSequence DEF File
    <3> QED
      BY <1>2, <3>1 DEF KeptInductive, KeptTypeOK
  <2>2. frame' \in [Thread -> Frame]
    <3>1. frame[t] \in Frame /\ frame \in [Thread -> Frame]
      BY DEF KeptInductive, KeptTypeOK
    <3>2. \A label \in {"write", "rename"} :
             [frame[t] EXCEPT !.wrote = n + 1, !.at = label] \in Frame
      BY <1>1, <3>1 DEF Frame
    <3> QED
      BY <1>2, <3>1, <3>2
  <2> QED
    BY <1>2, <2>1, <2>2 DEF KeptInductive, KeptTypeOK
<1>4. (Holds(real))' = Holds(real) /\ WholeInPlace'
  <2>1. real # Nothing => content'[real] = content[real]
    BY <1>1, <1>2 DEF KeptInductive, KeptTypeOK, Frame
  <2> QED
    BY <1>2, <2>1, InPlaceKept DEF KeptInductive, EitherHappenedOrDidNot
<1>5. Holder'
  <2> SUFFICES ASSUME NEW u \in Thread
               PROVE  HolderOf(u)'
    BY DEF Holder
  <2>1. CASE u = t
    <3>1. /\ frame'[t].at = (IF n + 1 = Pieces THEN "rename" ELSE "write")
          /\ frame'[t].wrote = n + 1 /\ frame'[t].fd = beside
          /\ frame'[t].change = frame[t].change /\ frame'[t].document = d
          /\ content'[beside] = Row(n + 1, d)
      BY <1>1, <1>2 DEF KeptInductive, KeptTypeOK, Frame
    <3>2. HolderOf(t)
      BY DEF KeptInductive, Holder
    <3>3. /\ frame[t].change \in asked' /\ frame[t].change \notin answered' \cup refused'
          /\ d = (Holds(real))' \cup {frame[t].change}
          /\ writing' = t /\ beside' = beside /\ beside # Nothing
      BY <1>1, <1>2, <1>4, <3>2 DEF HolderOf
    <3>4. CASE n + 1 = Pieces
      BY <1>1, <2>1, <3>1, <3>3, <3>4 DEF HolderOf
    <3>5. CASE n + 1 # Pieces
      BY <1>1, <2>1, <3>1, <3>3, <3>5 DEF HolderOf
    <3> QED
      BY <3>4, <3>5
  <2>2. CASE u # t
    <3>1. frame'[u] = frame[u] /\ frame[u].at \in {"idle", "hold"}
      BY <1>1, <1>2, <2>2 DEF KeptInductive, KeptTypeOK, Frame, Holder, HolderOf
    <3>2. HolderOf(u)
      BY DEF KeptInductive, Holder
    <3>3. writing' # u
      BY <1>2, <3>1, <3>2 DEF HolderOf
    <3> QED
      BY <1>2, <3>1, <3>2, <3>3, OtherRests
  <2> QED
    BY <2>1, <2>2
<1>6. Own'
  BY <1>2 DEF KeptInductive, KeptTypeOK, Frame, Own
<1> QED
  BY <1>1, <1>2, <1>3, <1>4, <1>5, <1>6 DEF KeptInductive, EitherHappenedOrDidNot

\* The one step that changes what is in place: the copy is the whole of a
\* document, of what was in place and this change.
LEMMA RenameKeeps ==
    ASSUME KeptInductive, NEW t \in Thread, Rename(t)
    PROVE  KeptInductive'
<1> USE NothingAssumption, DiskAssumption
<1> DEFINE d == frame[t].document
           c == frame[t].change
<1>1. /\ frame[t].at = "rename" /\ beside \in Inode /\ writing = t
      /\ d \in Document /\ content[beside] = Row(Pieces, d)
      /\ c \in asked /\ c \notin answered \cup refused /\ c # Nothing
      /\ d = Holds(real) \cup {c}
  BY DEF Rename, KeptInductive, KeptTypeOK, Frame, Holder, HolderOf
<1>2. /\ real' = beside /\ beside' = Nothing /\ content' = content
      /\ frame' = [frame EXCEPT ![t] = Idle]
      /\ writing' = Nobody
      /\ answered' = answered \cup {c}
      /\ UNCHANGED <<asked, refused, dead>>
  BY <1>1 DEF Rename, Over
<1>3. (Holds(real))' = d
  BY <1>1, <1>2, DocumentOfWhole DEF Holds
<1>4. KeptTypeOK'
  <2>1. Idle \in Frame
    BY DEF Idle, Frame, Document
  <2> QED
    BY <1>1, <1>2, <2>1 DEF KeptInductive, KeptTypeOK
<1>5. EitherHappenedOrDidNot' /\ (Holds(real))' \subseteq answered'
  <2>1. WholeInPlace'
    BY <1>1, <1>2 DEF WholeInPlace, IsWhole
  <2> QED
    BY <1>1, <1>2, <1>3, <2>1 DEF KeptInductive, EitherHappenedOrDidNot
<1>6. Holder'
  <2> SUFFICES ASSUME NEW u \in Thread
               PROVE  HolderOf(u)'
    BY DEF Holder
  <2>1. CASE u = t
    BY <1>1, <1>2, <2>1 DEF KeptInductive, KeptTypeOK, HolderOf, Idle
  <2>2. CASE u # t
    <3>1. frame'[u] = frame[u] /\ frame[u].at \in {"idle", "hold"} /\ frame[u].change # c
      BY <1>1, <1>2, <2>2 DEF KeptInductive, KeptTypeOK, Frame, Holder, HolderOf, Own
    <3>2. HolderOf(u) /\ writing' # u
      BY <1>2 DEF KeptInductive, Holder
    <3> QED
      BY <1>2, <3>1, <3>2, OtherRests
  <2> QED
    BY <2>1, <2>2
<1>7. Own'
  BY <1>2 DEF KeptInductive, KeptTypeOK, Own, Idle
<1> QED
  BY <1>2, <1>4, <1>5, <1>6, <1>7 DEF KeptInductive

LEMMA FailuresKeep ==
    ASSUME KeptInductive, NEW t \in Thread, WriteFails(t) \/ StepFails(t)
    PROVE  KeptInductive'
BY RefusedKeeps DEF WriteFails, StepFails, disk

\* Nobody is left who has written anything.
LEMMA CoreDiesKeeps ==
    ASSUME KeptInductive, CoreDies
    PROVE  KeptInductive'
<1> USE NothingAssumption, DiskAssumption
<1>1. /\ frame' = [t \in Thread |-> Idle] /\ writing' = Nobody /\ dead' \in 0..MostDeaths
      /\ UNCHANGED <<real, beside, content, asked, answered, refused>>
  BY DEF CoreDies, disk, told, KeptInductive, KeptTypeOK
<1>2. KeptTypeOK'
  <2>1. Idle \in Frame
    BY DEF Idle, Frame, Document
  <2> QED
    BY <1>1, <2>1 DEF KeptInductive, KeptTypeOK
<1>3. (Holds(real))' = Holds(real) /\ WholeInPlace'
  BY <1>1, InPlaceKept DEF KeptInductive, EitherHappenedOrDidNot
<1>4. Holder' /\ Own'
  BY <1>1 DEF Holder, HolderOf, Own, Idle
<1> QED
  BY <1>1, <1>2, <1>3, <1>4 DEF KeptInductive, EitherHappenedOrDidNot

\* Of a store whose lock is held (file/backlog.rs:183 and session.rs:144), the
\* invariant holds of every reachable state, for any number of threads, changes,
\* files and pieces, and any failures and deaths.
THEOREM StoreInductive == Holding => (KeptSpec => []KeptInductive)
<1> SUFFICES ASSUME Holding
             PROVE  KeptSpec => []KeptInductive
  OBVIOUS
<1>1. KeptInit => KeptInductive
  BY InitInductive
<1>2. KeptInductive /\ [KeptNext]_keptVars => KeptInductive'
  <2> SUFFICES ASSUME KeptInductive, [KeptNext]_keptVars
               PROVE  KeptInductive'
    OBVIOUS
  <2>1. ASSUME NEW t \in Thread, KeptStep(t)
        PROVE  KeptInductive'
    BY <2>1, BeginKeeps, HoldKeeps, ReadKeeps, OpenKeeps, WriteKeeps, FailuresKeep, RenameKeeps
       DEF KeptStep
  <2>2. CASE UNCHANGED keptVars
    BY <2>2 DEF keptVars, disk, told, KeptInductive, KeptTypeOK, EitherHappenedOrDidNot,
                WholeInPlace, Holder, HolderOf, Own, Holds
  <2> QED
    BY <2>1, <2>2, CoreDiesKeeps DEF KeptNext
<1> QED
  BY <1>1, <1>2, PTL DEF KeptSpec

\* "Renaming is the one step that either happened or did not" (kept.rs:85): what
\* such a store holds is one whole document, with every change that was said to
\* have been made and none that was said not to have been.
THEOREM StoreEitherHappenedOrDidNot == Holding => (KeptSpec => []EitherHappenedOrDidNot)
<1>1. KeptInductive => EitherHappenedOrDidNot
  BY DEF KeptInductive
<1> QED
  BY <1>1, StoreInductive, PTL

----------------------------------------------------------------------------
(* The ledger, for any number of writers, runs and bytes to a line.        *)

\* A byte of the file, or of what is left of a line.
Bytes == [run : 0..LastRun, piece : 0..Pieces]
Texts == Seq(Bytes)

\* What a write adds to the file, and what it leaves.
Longer(s, t, n) == s \o SubSeq(t, 1, n)
Rest(t, n) == SubSeq(t, n + 1, Len(t))

Adds(s, t, n) ==
    /\ Longer(s, t, n) \in Texts /\ Len(Longer(s, t, n)) = Len(s) + n
    /\ \A i \in 1..Len(s) : Longer(s, t, n)[i] = s[i]
    /\ \A q \in 1..n : Longer(s, t, n)[Len(s) + q] = t[q]
    /\ Rest(t, n) \in Texts /\ Len(Rest(t, n)) = Len(t) - n
    /\ \A q \in 1..(Len(t) - n) : Rest(t, n)[q] = t[n + q]

LEMMA SomeMore == \A s, t \in Texts : \A n \in 1..Len(t) : Adds(s, t, n)
  BY DEF Adds, Texts, Longer, Rest

\* The line of a run, alone and after the end of another.
LEMMA LineIs ==
    ASSUME NEW r \in Run
    PROVE  /\ Line(r) \in Seq(Bytes)
           /\ Len(Line(r)) = Pieces + 1
           /\ \A p \in 1..(Pieces + 1) : Line(r)[p] = ByteOf(r, p)
           /\ <<NewLine>> \o Line(r) \in Seq(Bytes)
           /\ Len(<<NewLine>> \o Line(r)) = Pieces + 2
           /\ \A q \in 1..(Pieces + 2) : (<<NewLine>> \o Line(r))[q] = ByteOf(r, q - 1)
<1> DEFINE words == [p \in 1..Pieces |-> [run |-> r, piece |-> p]]
<1>0. Pieces \in Nat /\ Pieces # 0 /\ LastRun \in Nat
  BY DiskAssumption, LedgerAssumption
<1>1. NewLine \in Bytes
  BY <1>0 DEF NewLine, Bytes
<1>2. words \in [1..Pieces -> Bytes]
  BY <1>0 DEF Run, Bytes
<1>3. words \in Seq(Bytes) /\ Len(words) = Pieces
  <2>1. words \in Seq(Bytes)
    BY <1>0, <1>2, SeqDef
  <2>2. DOMAIN words = 1..Len(words) /\ Len(words) \in Nat
    BY <2>1, LenProperties
  <2>3. 1..Len(words) = 1..Pieces
    BY <2>2
  <2> QED
    BY <1>0, <2>1, <2>2, <2>3, SameInterval
<1>4. \A p \in 1..Pieces : words[p] = [run |-> r, piece |-> p]
  OBVIOUS
<1>5. Line(r) = words \o <<NewLine>>
  BY DEF Line
<1> HIDE DEF words
<1>6. /\ Line(r) \in Seq(Bytes)
      /\ Len(Line(r)) = Pieces + 1
      /\ \A p \in 1..Pieces : Line(r)[p] = words[p]
      /\ Line(r)[Pieces + 1] = NewLine
  BY <1>0, <1>1, <1>3, <1>5
<1>7. \A p \in 1..(Pieces + 1) : Line(r)[p] = ByteOf(r, p)
  <2> SUFFICES ASSUME NEW p \in 1..(Pieces + 1)
               PROVE  Line(r)[p] = ByteOf(r, p)
    OBVIOUS
  <2>1. CASE p \in 1..Pieces
    BY <2>1, <1>4, <1>6 DEF ByteOf
  <2>2. CASE p = Pieces + 1
    BY <2>2, <1>0, <1>6 DEF ByteOf
  <2> QED
    BY <1>0, <2>1, <2>2
<1>8. /\ <<NewLine>> \o Line(r) \in Seq(Bytes)
      /\ Len(<<NewLine>> \o Line(r)) = Pieces + 2
      /\ (<<NewLine>> \o Line(r))[1] = NewLine
      /\ \A p \in 1..(Pieces + 1) : (<<NewLine>> \o Line(r))[p + 1] = Line(r)[p]
  BY <1>0, <1>1, <1>6
<1>9. \A q \in 1..(Pieces + 2) : (<<NewLine>> \o Line(r))[q] = ByteOf(r, q - 1)
  <2> SUFFICES ASSUME NEW q \in 1..(Pieces + 2)
               PROVE  (<<NewLine>> \o Line(r))[q] = ByteOf(r, q - 1)
    OBVIOUS
  <2>1. CASE q = 1
    BY <2>1, <1>8 DEF ByteOf
  <2>2. CASE q # 1
    <3>1. q - 1 \in 1..(Pieces + 1) /\ (q - 1) + 1 = q
      BY <2>2, <1>0
    <3> QED
      BY <3>1, <1>7, <1>8
  <2> QED
    BY <2>1, <2>2
<1> QED
  BY <1>6, <1>7, <1>8, <1>9

\* A line that is whole stays whole, whatever is put after it.
LEMMA WholeStays ==
    ASSUME NEW r, NEW i, WholeAt(r, i), Pieces \in Nat \ {0}, Len(ledger) \in Nat,
           Len(ledger') \in Nat, Len(ledger) <= Len(ledger'),
           \A j \in 1..Len(ledger) : ledger'[j] = ledger[j]
    PROVE  WholeAt(r, i)'
<1>1. i \in 1..(Len(ledger) - Pieces)
  BY DEF WholeAt
<1>2. i \in 1..(Len(ledger') - Pieces)
  BY <1>1
<1>3. i # 1 => i - 1 \in 1..Len(ledger)
  BY <1>1
<1>4. \A p \in 1..Pieces : i + p - 1 \in 1..Len(ledger)
  BY <1>1
<1>5. i + Pieces \in 1..Len(ledger)
  BY <1>1
<1> QED
  BY <1>2, <1>3, <1>4, <1>5 DEF WholeAt, NewLine

\* What the types say of the hands.
Hands == [Writer -> [at : {"idle", "lock", "look", "write"}, run : 0..LastRun, left : Seq(Bytes)]]

\* The conjuncts of the invariant a step of one writer need only speak of it for.
LEMMA OneWriter ==
    ASSUME LedgerInductive, NEW w \in Writer, ledger' = ledger,
           hand' \in Hands,
           \A v \in Writer \ {w} : hand'[v] = hand[v],
           turn' \in Writer \cup {Nobody}, runs' \in 0..LastRun, runs <= runs',
           noted' \subseteq 1..runs', deaths' = deaths,
           turn' = turn \/ (turn' = w /\ turn = Nobody) \/ (turn' = Nobody /\ turn = w),
           hand'[w].at \in {"look", "write"} => turn' = w,
           IF hand'[w].at = "idle" THEN hand'[w] = Empty
           ELSE /\ hand'[w].run \in (1..runs') \ noted'
                /\ \A v \in Writer \ {w} : hand[v].run # hand'[w].run,
           \A r \in noted' \ noted : r = hand[w].run,
           \A i \in 1..Len(ledger) : hand'[w].at # "idle" /\ ledger[i].run = hand'[w].run
                                         => ledger[i].piece \in 1..Laid(w)',
           hand'[w].at = "write" => LaidSoFar(w)',
           \A r \in noted' \ noted : \E i \in 1..Len(ledger) : WholeAt(r, i)
    PROVE  LedgerInductive'
<1> USE DEF LedgerInductive
<1>0. Nobody \notin Writer /\ LastRun \in Nat /\ Pieces \in Nat
  BY LedgerAssumption, DiskAssumption
<1>1. LedgerTypeOK'
  BY DEF LedgerTypeOK, Bytes, Hands
<1>2. OneTurn'
  BY <1>0 DEF OneTurn
<1>3. OneHand'
  <2> SUFFICES ASSUME NEW v \in Writer
               PROVE  IF hand'[v].at = "idle" THEN hand'[v] = Empty
                      ELSE /\ hand'[v].run \in (1..runs') \ noted'
                           /\ \A u \in Writer \ {v} : hand'[u].run # hand'[v].run
    BY DEF OneHand, Empty
  <2>1. CASE v = w
    BY <2>1
  <2>2. CASE v # w /\ hand[v].at = "idle"
    BY <2>2 DEF OneHand
  <2>3. CASE v # w /\ hand[v].at # "idle"
    <3>1. /\ hand'[v] = hand[v]
          /\ hand[v].run \in (1..runs) \ noted
          /\ \A u \in Writer \ {v} : hand[u].run # hand[v].run
      BY <2>3 DEF OneHand
    <3>2. hand[v].run \in 1..runs'
      BY <1>0, <3>1 DEF LedgerTypeOK
    <3>3. hand[v].run \notin noted'
      BY <2>3, <3>1
    <3>4. hand'[w].run # hand[v].run
      <4>1. CASE hand'[w].at = "idle"
        BY <3>1, <4>1 DEF Empty
      <4>2. CASE hand'[w].at # "idle"
        BY <2>3, <4>2
      <4> QED
        BY <4>1, <4>2
    <3> QED
      BY <2>3, <3>1, <3>2, <3>3, <3>4
  <2> QED
    BY <2>1, <2>2, <2>3
<1>4. \A v \in Writer \ {w} : Laid(v)' = Laid(v)
  BY DEF Laid
<1>5. OnlyLaid'
  <2>1. \A i \in 1..Len(ledger) : ledger[i].run \in 0..runs'
    <3>1. runs \in Nat /\ runs' \in Nat /\ 0..runs \subseteq 0..runs'
      BY <1>0 DEF LedgerTypeOK
    <3>2. \A i \in 1..Len(ledger) : ledger[i].run \in 0..runs
      BY DEF OnlyLaid
    <3> QED
      BY <3>1, <3>2
  <2>2. \A v \in Writer, i \in 1..Len(ledger) :
           hand'[v].at # "idle" /\ ledger[i].run = hand'[v].run => ledger[i].piece \in 1..Laid(v)'
    BY <1>4 DEF OnlyLaid
  <2> QED
    BY <2>1, <2>2 DEF OnlyLaid
<1>6. \A v \in Writer : hand'[v].at = "write" => LaidSoFar(v)'
  <2> SUFFICES ASSUME NEW v \in Writer \ {w}, hand'[v].at = "write"
               PROVE  LaidSoFar(v)'
    OBVIOUS
  <2>1. LaidSoFar(v)
    OBVIOUS
  <2>2. hand'[v] = hand[v] /\ Laid(v)' = Laid(v) /\ ledger' = ledger
    BY <1>4
  <2> HIDE DEF LedgerInductive
  <2> QED
    BY ONLY <2>1, <2>2 DEF LaidSoFar
<1>7. \A r \in noted' : \E i \in 1..Len(ledger') : WholeAt(r, i)'
  <2>1. ledger' = ledger
    OBVIOUS
  <2>2. \A r, i : WholeAt(r, i) => WholeAt(r, i)'
    BY ONLY <2>1 DEF WholeAt
  <2>3. \A r \in noted : \E i \in 1..Len(ledger) : WholeAt(r, i)
    OBVIOUS
  <2> QED
    BY <2>1, <2>2, <2>3
<1> QED
  BY <1>1, <1>2, <1>3, <1>5, <1>6, <1>7

LEMMA AppendRunKeeps ==
    ASSUME LedgerInductive, NEW w \in Writer, AppendRun(w)
    PROVE  LedgerInductive'
<1>0. LastRun \in Nat /\ runs \in 0..LastRun /\ hand \in Hands /\ noted \subseteq 1..runs
  BY LedgerAssumption DEF LedgerInductive, LedgerTypeOK, Hands, Bytes
<1>1. runs' = runs + 1 /\ runs' \in 0..LastRun /\ runs <= runs' /\ runs' \in 1..runs'
  BY <1>0 DEF AppendRun
<1>2. /\ hand' \in Hands
      /\ \A v \in Writer \ {w} : hand'[v] = hand[v]
      /\ hand'[w].at = "lock" /\ hand'[w].run = runs'
  BY <1>0, <1>1 DEF AppendRun, Hands
<1>3. runs' \notin 0..runs
  BY <1>0, <1>1
<1>4. \A v \in Writer : hand[v].run \in 0..runs
  BY <1>0 DEF LedgerInductive, OneHand, Empty
<1>5. \A i \in 1..Len(ledger) : ledger[i].run \in 0..runs
  BY DEF LedgerInductive, OnlyLaid
<1>6. UNCHANGED <<ledger, turn, noted, deaths>>
  BY DEF AppendRun
<1>7. noted' \subseteq 1..runs' /\ noted' = noted
  BY <1>0, <1>1, <1>6
<1>8. runs' \notin noted'
  <2>1. noted \subseteq 0..runs
    BY <1>0
  <2> QED
    BY <1>3, <1>7, <2>1
<1>9. turn' \in Writer \cup {Nobody}
  BY <1>6 DEF LedgerInductive, LedgerTypeOK
<1>10. /\ hand'[w].at # "idle" /\ hand'[w].at \notin {"look", "write"} /\ hand'[w].at # "write"
       /\ hand'[w].run \in (1..runs') \ noted'
       /\ \A v \in Writer \ {w} : hand[v].run # hand'[w].run
       /\ \A i \in 1..Len(ledger) : ledger[i].run # hand'[w].run
  BY <1>1, <1>2, <1>3, <1>4, <1>5, <1>8
<1> QED
  BY <1>1, <1>2, <1>6, <1>7, <1>9, <1>10, OneWriter

\* The lock is free: nobody looks or writes.
LEMMA LockKeeps ==
    ASSUME LedgerInductive, NEW w \in Writer, Lock(w)
    PROVE  LedgerInductive'
<1>0. LastRun \in Nat /\ runs \in 0..LastRun /\ hand \in Hands /\ noted \subseteq 1..runs
  BY LedgerAssumption DEF LedgerInductive, LedgerTypeOK, Hands, Bytes
<1>2. /\ hand' \in Hands
      /\ \A v \in Writer \ {w} : hand'[v] = hand[v]
      /\ hand'[w].at = "look" /\ hand'[w].run = hand[w].run /\ hand[w].at = "lock"
  BY <1>0 DEF Lock, Hands
<1>3. UNCHANGED <<ledger, runs, noted, deaths>> /\ turn = Nobody /\ turn' = w
  BY DEF Lock
<1>4. /\ hand[w].run \in (1..runs) \ noted
      /\ \A v \in Writer \ {w} : hand[v].run # hand[w].run
  BY <1>2 DEF LedgerInductive, OneHand
<1>5. Laid(w) = 0 /\ Laid(w)' = 0
  BY <1>2 DEF Laid
<1>6. \A i \in 1..Len(ledger) : ledger[i].run # hand[w].run
  BY <1>2, <1>5 DEF LedgerInductive, OnlyLaid
<1>7. runs <= runs'
  BY <1>0, <1>3
<1>8. /\ hand'[w].at # "idle" /\ hand'[w].at # "write"
      /\ hand'[w].run \in (1..runs') \ noted'
      /\ \A v \in Writer \ {w} : hand[v].run # hand'[w].run
      /\ \A i \in 1..Len(ledger) : ledger[i].run # hand'[w].run
  BY <1>2, <1>3, <1>4, <1>6
<1>9. turn' \in Writer \cup {Nobody} /\ noted' = noted /\ noted' \subseteq 1..runs' /\ runs' \in 0..LastRun
  BY <1>0, <1>3
<1> QED
  BY <1>2, <1>3, <1>7, <1>8, <1>9, OneWriter

\* A file that does not end part way through a line ends with the end of one.
LEMMA LookKeeps ==
    ASSUME LedgerInductive, NEW w \in Writer, Look(w)
    PROVE  LedgerInductive'
<1>0. /\ LastRun \in Nat /\ runs \in 0..LastRun /\ hand \in Hands /\ noted \subseteq 1..runs
      /\ Pieces \in Nat \ {0} /\ ledger \in Seq(Bytes)
  BY LedgerAssumption, DiskAssumption DEF LedgerInductive, LedgerTypeOK, Hands, Bytes
<1>1. UNCHANGED <<ledger, turn, runs, noted, deaths>> /\ hand[w].at = "look" /\ turn = w
  BY DEF Look, LedgerInductive, OneTurn
<1>2. /\ hand[w].run \in (1..runs) \ noted
      /\ \A v \in Writer \ {w} : hand[v].run # hand[w].run
  BY <1>1 DEF LedgerInductive, OneHand
<1>3. hand[w].run \in Run
  BY <1>0, <1>2 DEF Run
<1> DEFINE line == (IF Unfinished THEN <<NewLine>> ELSE <<>>) \o Line(hand[w].run)
<1>4. Unfinished => line = <<NewLine>> \o Line(hand[w].run)
  OBVIOUS
<1>5. ~Unfinished => line = Line(hand[w].run)
  BY <1>3, LineIs
<1>6. line \in Seq(Bytes)
  BY <1>3, <1>4, <1>5, LineIs
<1>7. hand' = [hand EXCEPT ![w].at = "write", ![w].left = line]
  BY DEF Look
<1> HIDE DEF line
<1>8. /\ hand' \in Hands
      /\ \A v \in Writer \ {w} : hand'[v] = hand[v]
      /\ hand'[w].at = "write" /\ hand'[w].run = hand[w].run /\ hand'[w].left = line
  BY <1>0, <1>6, <1>7 DEF Hands
<1>9. Laid(w)' = Pieces + 1 - Len(line)
  BY <1>8 DEF Laid
<1>10. \A i \in 1..Len(ledger) : ledger[i].run # hand[w].run
  BY <1>1 DEF LedgerInductive, OnlyLaid, Laid
<1>11. Len(line) = IF Unfinished THEN Pieces + 2 ELSE Pieces + 1
  BY <1>3, <1>4, <1>5, LineIs
<1>12. LaidSoFar(w)'
  <2>1. CASE Unfinished
    <3>1. Laid(w)' = -1 /\ Len(line) = Pieces + 2
      BY <1>0, <1>9, <1>11, <2>1
    <3>2. \A q \in 1..(Pieces + 2) : line[q] = ByteOf(hand[w].run, q - 1)
      BY <1>3, <1>4, <2>1, LineIs
    <3>3. \A q \in 1..(Pieces + 2) : -1 + q = q - 1
      BY <1>0
    <3>4. Len(ledger') \in Nat
      BY <1>0, <1>1, LenProperties
    <3> QED
      BY <1>8, <3>1, <3>2, <3>3, <3>4 DEF LaidSoFar
  <2>2. CASE ~Unfinished
    <3>1. Laid(w)' = 0 /\ Len(line) = Pieces + 1
      BY <1>0, <1>9, <1>11, <2>2
    <3>2. \A q \in 1..(Pieces + 1) : line[q] = ByteOf(hand[w].run, 0 + q)
      <4>1. \A q \in 1..(Pieces + 1) : 0 + q = q
        BY <1>0
      <4> QED
        BY <1>3, <1>5, <2>2, <4>1, LineIs
    <3>3. Len(ledger') \in Nat /\ ledger' = ledger
      BY <1>0, <1>1, LenProperties
    <3>4. Len(ledger) # 0 => ledger[Len(ledger) - 0] = NewLine
      BY <1>0, <2>2, <3>3 DEF Unfinished
    <3>5. Laid(w)' \in 0..(Len(ledger') - 1) => ledger'[Len(ledger') - Laid(w)'] = NewLine
      BY <3>1, <3>3, <3>4
    <3> QED
      BY <1>8, <3>1, <3>2, <3>3, <3>5 DEF LaidSoFar
  <2> QED
    BY <2>1, <2>2
<1>13. /\ hand'[w].at # "idle"
       /\ hand'[w].run \in (1..runs') \ noted'
       /\ \A v \in Writer \ {w} : hand[v].run # hand'[w].run
       /\ \A i \in 1..Len(ledger) : ledger[i].run # hand'[w].run
  BY <1>1, <1>2, <1>8, <1>10
<1>14. /\ turn' \in Writer \cup {Nobody} /\ noted' = noted /\ noted' \subseteq 1..runs'
       /\ runs' \in 0..LastRun /\ runs <= runs'
  BY <1>0, <1>1
<1> QED
  BY <1>1, <1>8, <1>12, <1>13, <1>14, OneWriter

\* All of the line is down: it is the last of the file, and whole.
LEMMA NotedKeeps ==
    ASSUME LedgerInductive, NEW w \in Writer, Noted(w)
    PROVE  LedgerInductive'
<1> DEFINE r == hand[w].run
           L == Len(ledger)
<1>0. /\ LastRun \in Nat /\ runs \in 0..LastRun /\ hand \in Hands /\ noted \subseteq 1..runs
      /\ Pieces \in Nat \ {0} /\ ledger \in Seq(Bytes)
  BY LedgerAssumption, DiskAssumption DEF LedgerInductive, LedgerTypeOK, Hands, Bytes
<1>1. /\ UNCHANGED <<ledger, runs, deaths>> /\ turn = w /\ turn' = Nobody
      /\ hand[w].at = "write" /\ Len(hand[w].left) = 0
      /\ hand' = [hand EXCEPT ![w] = Empty] /\ noted' = noted \cup {r}
  BY DEF Noted, LetsGo, LedgerInductive, OneTurn
<1>2. r \in (1..runs) \ noted
  BY <1>1 DEF LedgerInductive, OneHand
<1>3. /\ hand' \in Hands
      /\ \A v \in Writer \ {w} : hand'[v] = hand[v]
      /\ hand'[w] = Empty /\ hand'[w].at = "idle"
  <2>1. Empty \in [at : {"idle", "lock", "look", "write"}, run : 0..LastRun, left : Seq(Bytes)]
    BY <1>0 DEF Empty
  <2> QED
    BY <1>0, <1>1, <2>1 DEF Hands, Empty
<1>4. LaidSoFar(w) /\ Laid(w) = Pieces + 1 /\ L \in Nat
  BY <1>0, <1>1, LenProperties DEF LedgerInductive, Laid
<1>5. /\ Pieces + 1 <= L
      /\ \A p \in 1..(Pieces + 1) : ledger[L - (Pieces + 1) + p] = ByteOf(r, p)
      /\ Pieces + 1 <= L - 1 => ledger[L - (Pieces + 1)] = NewLine
  BY <1>0, <1>4 DEF LaidSoFar
<1>6. WholeAt(r, L - Pieces)
  <2>1. L - Pieces \in 1..(L - Pieces)
    BY <1>0, <1>4, <1>5
  <2>2. L - Pieces = 1 \/ ledger[(L - Pieces) - 1] = NewLine
    <3>1. L - Pieces # 1 => Pieces + 1 <= L - 1 /\ L - (Pieces + 1) = (L - Pieces) - 1
      BY <1>0, <1>4, <1>5
    <3> QED
      BY <1>5, <3>1
  <2>3. ASSUME NEW p \in 1..Pieces
        PROVE  ledger[(L - Pieces) + p - 1] = [run |-> r, piece |-> p]
    <3>1. p \in 1..(Pieces + 1) /\ L - (Pieces + 1) + p = (L - Pieces) + p - 1
      BY <1>0, <1>4
    <3> QED
      BY <1>5, <3>1 DEF ByteOf
  <2>4. ledger[(L - Pieces) + Pieces] = NewLine
    <3>1. /\ Pieces + 1 \in 1..(Pieces + 1) /\ Pieces + 1 \notin 1..Pieces
          /\ L - (Pieces + 1) + (Pieces + 1) = (L - Pieces) + Pieces
      BY <1>0, <1>4
    <3> QED
      BY <1>5, <3>1 DEF ByteOf
  <2> QED
    BY <2>1, <2>2, <2>3, <2>4 DEF WholeAt
<1>7. L - Pieces \in 1..Len(ledger)
  BY <1>0, <1>4, <1>5
<1>8. /\ \A q \in noted' \ noted : q = hand[w].run
      /\ \A q \in noted' \ noted : \E i \in 1..Len(ledger) : WholeAt(q, i)
  BY <1>1, <1>6, <1>7
<1>9. /\ turn' \in Writer \cup {Nobody}
      /\ runs' \in 0..LastRun /\ runs <= runs'
      /\ hand'[w].at \notin {"look", "write"} /\ hand'[w].at # "write"
  BY <1>0, <1>1, <1>3
<1>10. noted' \subseteq 1..runs'
  <2>1. r \in 1..runs /\ runs' = runs
    BY <1>1, <1>2
  <2> HIDE DEF r
  <2> QED
    BY <1>0, <1>1, <2>1
<1> QED
  BY <1>1, <1>3, <1>8, <1>9, <1>10, OneWriter

\* What was put down of a run that is let go of stays, and nobody adds to it.
LEMMA AppendFailsKeeps ==
    ASSUME LedgerInductive, NEW w \in Writer, AppendFails(w)
    PROVE  LedgerInductive'
<1>0. /\ LastRun \in Nat /\ runs \in 0..LastRun /\ hand \in Hands /\ noted \subseteq 1..runs
  BY LedgerAssumption, DiskAssumption DEF LedgerInductive, LedgerTypeOK, Hands, Bytes
<1>1. /\ UNCHANGED <<ledger, runs, noted, deaths>> /\ turn = w /\ turn' = Nobody
      /\ hand' = [hand EXCEPT ![w] = Empty]
  BY DEF AppendFails, LetsGo, LedgerInductive, OneTurn
<1>3. /\ hand' \in Hands
      /\ \A v \in Writer \ {w} : hand'[v] = hand[v]
      /\ hand'[w] = Empty /\ hand'[w].at = "idle"
  <2>1. Empty \in [at : {"idle", "lock", "look", "write"}, run : 0..LastRun, left : Seq(Bytes)]
    BY <1>0 DEF Empty
  <2> QED
    BY <1>0, <1>1, <2>1 DEF Hands, Empty
<1>9. /\ turn' \in Writer \cup {Nobody} /\ noted' \subseteq 1..runs' /\ noted' = noted
      /\ runs' \in 0..LastRun /\ runs <= runs'
      /\ hand'[w].at \notin {"look", "write"} /\ hand'[w].at # "write"
  BY <1>0, <1>1, <1>3
<1> QED
  BY <1>1, <1>3, <1>9, OneWriter

\* A death leaves the file to the next who looks at it.
LEMMA WritersDieKeeps ==
    ASSUME LedgerInductive, WritersDie
    PROVE  LedgerInductive'
<1>0. LastRun \in Nat /\ MostDeaths \in Nat /\ deaths \in 0..MostDeaths
  BY LedgerAssumption, DiskAssumption DEF LedgerInductive, LedgerTypeOK
<1>1. /\ UNCHANGED <<ledger, runs, noted>> /\ turn' = Nobody /\ deaths' \in 0..MostDeaths
      /\ hand' = [w \in Writer |-> Empty]
  BY <1>0 DEF WritersDie
<1>2. Empty \in [at : {"idle", "lock", "look", "write"}, run : 0..LastRun, left : Seq(Bytes)]
  BY <1>0 DEF Empty
<1>3. hand' \in Hands /\ \A w \in Writer : hand'[w] = Empty /\ hand'[w].at = "idle"
  BY <1>1, <1>2 DEF Hands, Empty
<1>4. LedgerTypeOK'
  BY <1>1, <1>3 DEF LedgerInductive, LedgerTypeOK, Hands, Bytes
<1>5. OneTurn' /\ OneHand'
  BY <1>3 DEF OneTurn, OneHand, Empty
<1>6. OnlyLaid'
  BY <1>1, <1>3 DEF LedgerInductive, OnlyLaid
<1>7. \A r, i : WholeAt(r, i) => WholeAt(r, i)'
  BY ONLY <1>1 DEF WholeAt
<1>8. \A r \in noted' : \E i \in 1..Len(ledger') : WholeAt(r, i)'
  BY <1>1, <1>7 DEF LedgerInductive
<1> QED
  BY <1>3, <1>4, <1>5, <1>6, <1>8 DEF LedgerInductive

\* Which byte a byte of a run's line is.
LEMMA ByteIs ==
    ASSUME NEW r \in Nat \ {0}, NEW p \in Int
    PROVE  /\ ByteOf(r, p).run \in {0, r}
           /\ ByteOf(r, p).run # 0 => ByteOf(r, p).piece = p /\ p \in 1..Pieces
           /\ p = 0 => ByteOf(r, p) = NewLine
<1>1. CASE p \in 1..Pieces
  BY <1>1 DEF ByteOf
<1>2. CASE p \notin 1..Pieces
  BY <1>2 DEF ByteOf, NewLine
<1> QED
  BY <1>1, <1>2

\* The next bytes of a line follow those that are down; no other run's are among
\* them, and none that was there before.
LEMMA PutDownKeeps ==
    ASSUME LedgerInductive, NEW w \in Writer, PutDown(w)
    PROVE  LedgerInductive'
<1> DEFINE r == hand[w].run
           L == Len(ledger)
           k == Laid(w)
           left == hand[w].left
<1>0. /\ LastRun \in Nat /\ runs \in 0..LastRun /\ hand \in Hands /\ noted \subseteq 1..runs
      /\ Pieces \in Nat \ {0} /\ ledger \in Seq(Bytes)
  BY LedgerAssumption, DiskAssumption DEF LedgerInductive, LedgerTypeOK, Hands, Bytes
<1>1. PICK n \in 1..Len(left) :
          /\ ledger' = ledger \o SubSeq(left, 1, n)
          /\ hand' = [hand EXCEPT ![w].left = SubSeq(left, n + 1, Len(left))]
  BY DEF PutDown
<1>2. /\ UNCHANGED <<turn, runs, noted, deaths>> /\ hand[w].at = "write" /\ turn = w
  BY DEF PutDown, LedgerInductive, OneTurn
<1>3. left \in Seq(Bytes) /\ Len(left) \in Nat /\ L \in Nat /\ n \in Nat /\ n # 0 /\ n <= Len(left)
  BY <1>0, <1>1, LenProperties DEF Hands
<1> DEFINE rest == Rest(left, n)
<1>4. /\ ledger' \in Seq(Bytes) /\ Len(ledger') = L + n
      /\ \A i \in 1..L : ledger'[i] = ledger[i]
      /\ \A q \in 1..n : ledger'[L + q] = left[q]
      /\ rest \in Seq(Bytes) /\ Len(rest) = Len(left) - n
      /\ \A q \in 1..(Len(left) - n) : rest[q] = left[n + q]
  <2>1. left \in Texts /\ ledger \in Texts
    BY <1>0, <1>3 DEF Texts
  <2>2. ledger' = Longer(ledger, left, n)
    BY <1>1 DEF Longer
  <2> HIDE DEF left
  <2>3. Adds(ledger, left, n)
    BY <2>1, SomeMore
  <2> QED
    BY <2>2, <2>3 DEF Adds, Texts
<1>6. hand' = [hand EXCEPT ![w].left = rest]
  BY <1>1 DEF Rest
<1> HIDE DEF rest
<1>7. /\ hand' \in Hands
      /\ \A v \in Writer \ {w} : hand'[v] = hand[v]
      /\ hand'[w].at = "write" /\ hand'[w].run = hand[w].run /\ hand'[w].left = rest
  BY <1>0, <1>2, <1>4, <1>6 DEF Hands
<1>8. /\ k = Pieces + 1 - Len(left)
      /\ Laid(w)' = Pieces + 1 - Len(rest)
      /\ \A v \in Writer \ {w} : Laid(v)' = Laid(v)
  BY <1>2, <1>7 DEF Laid
<1>9. /\ r \in (1..runs) \ noted
      /\ \A v \in Writer \ {w} : hand[v].run # r
  BY <1>2 DEF LedgerInductive, OneHand
<1>10. LaidSoFar(w)
  BY <1>2 DEF LedgerInductive
<1>11. /\ k \in -1..L
       /\ \A q \in 1..Len(left) : left[q] = ByteOf(r, k + q)
       /\ \A p \in 1..k : ledger[L - k + p] = ByteOf(r, p)
       /\ k \in 0..(L - 1) => ledger[L - k] = NewLine
  BY <1>10 DEF LaidSoFar
<1>12. k \in Int /\ r \in Nat \ {0} /\ runs \in Nat /\ Laid(w)' = k + n
  <2>1. runs \in Nat /\ Pieces \in Nat
    BY <1>0
  <2>2. r \in 1..runs
    BY <1>9
  <2> HIDE DEF r, L, k, left
  <2>3. r \in Nat \ {0}
    BY <2>1, <2>2
  <2> QED
    BY <1>3, <1>4, <1>8, <2>1, <2>3
<1>13. \A i \in 1..L : /\ ledger[i].run \in 0..runs
                       /\ ledger[i].run = r => ledger[i].piece \in 1..k
  BY <1>2 DEF LedgerInductive, OnlyLaid
<1>14. /\ \A v \in Writer \ {w} : hand[v].at # "idle" => hand[v].run \in 1..runs
       /\ \A v \in Writer \ {w}, i \in 1..L :
             hand[v].at # "idle" /\ ledger[i].run = hand[v].run => ledger[i].piece \in 1..Laid(v)
       /\ \A i, j \in 1..L : ledger[i] = ledger[j] /\ ledger[i].run # 0 => i = j
  BY DEF LedgerInductive, OneHand, OnlyLaid
<1>15. \A v \in Writer \ {w} : hand'[v].at # "write"
  BY <1>2, <1>7 DEF LedgerInductive, OneTurn
<1>16. \A q \in noted : \E i \in 1..L : WholeAt(q, i)
  BY DEF LedgerInductive
<1>17. turn \in Writer \cup {Nobody} /\ deaths \in 0..MostDeaths
  BY DEF LedgerInductive, LedgerTypeOK
<1>18. OneTurn /\ OneHand
  BY DEF LedgerInductive
<1> HIDE DEF r, L, k, left
<1>19. \A q \in 1..n : /\ ledger'[L + q] = ByteOf(r, k + q)
                       /\ ledger'[L + q].run \in {0, r}
                       /\ ledger'[L + q].run # 0 => ledger'[L + q].piece = k + q /\ k + q \in 1..Pieces
  <2> SUFFICES ASSUME NEW q \in 1..n
               PROVE  /\ ledger'[L + q] = ByteOf(r, k + q)
                      /\ ledger'[L + q].run \in {0, r}
                      /\ ledger'[L + q].run # 0 => ledger'[L + q].piece = k + q
                                                   /\ k + q \in 1..Pieces
    OBVIOUS
  <2>1. q \in 1..Len(left) /\ k + q \in Int
    BY <1>3, <1>12
  <2>2. ledger'[L + q] = ByteOf(r, k + q)
    BY <1>4, <1>11, <2>1
  <2> QED
    BY <1>12, <2>1, <2>2, ByteIs
<1>20. \A i \in 1..Len(ledger') : i \in 1..L \/ \E q \in 1..n : i = L + q
  <2> SUFFICES ASSUME NEW i \in 1..Len(ledger'), i \notin 1..L
               PROVE  i - L \in 1..n /\ i = L + (i - L)
    OBVIOUS
  <2> QED
    BY <1>3, <1>4
<1>21. \A i \in 1..Len(ledger') : ledger'[i].run \in 0..runs'
  <2> SUFFICES ASSUME NEW i \in 1..Len(ledger')
               PROVE  ledger'[i].run \in 0..runs
    BY <1>2
  <2>1. CASE i \in 1..L
    BY <1>4, <1>13, <2>1
  <2>2. CASE \E q \in 1..n : i = L + q
    <3>1. {0, r} \subseteq 0..runs
      BY <1>9, <1>12
    <3> QED
      BY <1>19, <2>2, <3>1
  <2> QED
    BY <1>20, <2>1, <2>2
<1>22. ASSUME NEW i \in 1..Len(ledger'), ledger'[i].run = r
       PROVE  ledger'[i].piece \in 1..(k + n)
  <2>1. CASE i \in 1..L
    <3>1. 1..k \subseteq 1..(k + n)
      BY <1>3, <1>12
    <3> QED
      BY <1>4, <1>13, <1>22, <2>1, <3>1
  <2>2. CASE \E q \in 1..n : i = L + q
    <3>1. PICK q \in 1..n : i = L + q
      BY <2>2
    <3>2. ledger'[i].piece = k + q /\ k + q \in 1..Pieces
      BY <1>12, <1>19, <1>22, <3>1
    <3> QED
      BY <1>3, <1>12, <3>2
  <2> QED
    BY <1>20, <2>1, <2>2
<1>23. ASSUME NEW v \in Writer \ {w}, NEW i \in 1..Len(ledger'),
              hand[v].at # "idle", ledger'[i].run = hand[v].run
       PROVE  ledger'[i].piece \in 1..Laid(v)
  <2>1. CASE i \in 1..L
    BY <1>4, <1>14, <1>23, <2>1
  <2>2. CASE \E q \in 1..n : i = L + q
    <3>1. hand[v].run \in {0, r}
      BY <1>19, <1>23, <2>2
    <3>2. hand[v].run # 0 /\ hand[v].run # r
      BY <1>9, <1>12, <1>14, <1>23
    <3> QED
      BY <3>1, <3>2
  <2> QED
    BY <1>20, <2>1, <2>2
<1>24. ASSUME NEW i \in 1..L, NEW q \in 1..n, ledger'[i] = ledger'[L + q], ledger'[i].run # 0
       PROVE  FALSE
  <2>1. ledger'[i].run = r /\ ledger'[i].piece = k + q
    BY <1>19, <1>24
  <2>2. k + q \in 1..k
    BY <1>4, <1>13, <2>1
  <2> QED
    BY <1>3, <1>12, <2>2
<1>25. ASSUME NEW i \in 1..Len(ledger'), NEW j \in 1..Len(ledger'),
              ledger'[i] = ledger'[j], ledger'[i].run # 0
       PROVE  i = j
  <2>1. CASE i \in 1..L /\ j \in 1..L
    BY <1>4, <1>14, <1>25, <2>1
  <2>2. CASE i \in 1..L /\ \E q \in 1..n : j = L + q
    BY <1>24, <1>25, <2>2
  <2>3. CASE j \in 1..L /\ \E q \in 1..n : i = L + q
    BY <1>24, <1>25, <2>3
  <2>4. CASE (\E q \in 1..n : i = L + q) /\ (\E q \in 1..n : j = L + q)
    <3>1. PICK q \in 1..n : i = L + q
      BY <2>4
    <3>2. PICK p \in 1..n : j = L + p
      BY <2>4
    <3>3. ledger'[i].piece = k + q /\ ledger'[j].piece = k + p
      BY <1>19, <1>25, <3>1, <3>2
    <3>4. k + q = k + p
      BY <1>25, <3>3
    <3>5. q = p
      BY <1>3, <1>12, <3>4
    <3> QED
      BY <3>1, <3>2, <3>5
  <2> QED
    BY <1>20, <2>1, <2>2, <2>3, <2>4
<1>26. OnlyLaid'
  <2>1. \A v \in Writer, i \in 1..Len(ledger') :
           hand'[v].at # "idle" /\ ledger'[i].run = hand'[v].run => ledger'[i].piece \in 1..Laid(v)'
    <3> SUFFICES ASSUME NEW v \in Writer, NEW i \in 1..Len(ledger'),
                        hand'[v].at # "idle", ledger'[i].run = hand'[v].run
                 PROVE  ledger'[i].piece \in 1..Laid(v)'
      OBVIOUS
    <3>1. CASE v = w
      BY <1>7, <1>12, <1>22, <3>1 DEF r
    <3>2. CASE v # w
      BY <1>7, <1>8, <1>23, <3>2
    <3> QED
      BY <3>1, <3>2
  <2> QED
    BY <1>21, <1>25, <2>1 DEF OnlyLaid
<1>27. LaidSoFar(w)'
  <2>1. k + n \in -1..Len(ledger')
    BY <1>3, <1>4, <1>11, <1>12
  <2>2. \A q \in 1..Len(rest) : rest[q] = ByteOf(r, (k + n) + q)
    <3> SUFFICES ASSUME NEW q \in 1..Len(rest)
                 PROVE  rest[q] = ByteOf(r, (k + n) + q)
      OBVIOUS
    <3>1. /\ q \in 1..(Len(left) - n) /\ n + q \in 1..Len(left)
          /\ k + (n + q) = (k + n) + q
      BY <1>3, <1>4, <1>12
    <3> QED
      BY <1>4, <1>11, <3>1
  <2>3. \A p \in 1..(k + n) : ledger'[Len(ledger') - (k + n) + p] = ByteOf(r, p)
    <3> SUFFICES ASSUME NEW p \in 1..(k + n)
                 PROVE  ledger'[Len(ledger') - (k + n) + p] = ByteOf(r, p)
      OBVIOUS
    <3>1. Len(ledger') - (k + n) + p = L - k + p
      BY <1>3, <1>4, <1>12
    <3>2. CASE p <= k
      <4>1. p \in 1..k /\ L - k + p \in 1..L
        BY <1>3, <1>11, <1>12, <3>2
      <4> QED
        BY <1>4, <1>11, <3>1, <4>1
    <3>3. CASE p > k
      <4>1. p - k \in 1..n /\ L - k + p = L + (p - k) /\ k + (p - k) = p
        BY <1>3, <1>12, <3>3
      <4> QED
        BY <1>19, <3>1, <4>1
    <3> QED
      BY <1>12, <3>2, <3>3
  <2>4. k + n \in 0..(Len(ledger') - 1) => ledger'[Len(ledger') - (k + n)] = NewLine
    <3> SUFFICES ASSUME k + n \in 0..(Len(ledger') - 1)
                 PROVE  ledger'[Len(ledger') - (k + n)] = NewLine
      OBVIOUS
    <3>1. Len(ledger') - (k + n) = L - k /\ k <= L - 1
      BY <1>3, <1>4, <1>12
    <3>2. CASE k >= 0
      <4>1. L - k \in 1..L /\ k \in 0..(L - 1)
        BY <1>3, <1>11, <1>12, <3>1, <3>2
      <4> QED
        BY <1>4, <1>11, <3>1, <4>1
    <3>3. CASE k = -1
      <4>1. 1 \in 1..n /\ k + 1 = 0 /\ k + 1 \in Int /\ L - k = L + 1
        BY <1>3, <3>3
      <4> QED
        BY <1>12, <1>19, <3>1, <4>1, ByteIs
    <3> QED
      BY <1>11, <1>12, <3>2, <3>3
  <2> QED
    BY <1>7, <1>12, <2>1, <2>2, <2>3, <2>4 DEF LaidSoFar, r
<1>28. \A q \in noted' : \E i \in 1..Len(ledger') : WholeAt(q, i)'
  <2> SUFFICES ASSUME NEW q \in noted
               PROVE  \E i \in 1..Len(ledger') : WholeAt(q, i)'
    BY <1>2
  <2>1. PICK i \in 1..L : WholeAt(q, i)
    BY <1>16
  <2>2. WholeAt(q, i)'
    <3>1. Len(ledger) \in Nat /\ Len(ledger') \in Nat /\ Len(ledger) <= Len(ledger')
      BY <1>3, <1>4 DEF L
    <3>2. \A j \in 1..Len(ledger) : ledger'[j] = ledger[j]
      BY <1>4 DEF L
    <3> QED
      BY <1>0, <2>1, <3>1, <3>2, WholeStays
  <2>3. i \in 1..Len(ledger')
    BY <1>3, <1>4
  <2> QED
    BY <2>2, <2>3
<1>29. LedgerTypeOK'
  BY <1>0, <1>2, <1>4, <1>7, <1>17 DEF LedgerTypeOK, Hands, Bytes
<1>30. OneTurn'
  BY <1>2, <1>7, <1>18 DEF OneTurn
<1>31. OneHand'
  <2> SUFFICES ASSUME NEW v \in Writer
               PROVE  IF hand'[v].at = "idle" THEN hand'[v] = Empty
                      ELSE /\ hand'[v].run \in (1..runs) \ noted
                           /\ \A u \in Writer \ {v} : hand'[u].run # hand'[v].run
    BY <1>2 DEF OneHand, Empty
  <2>1. \A u \in Writer : hand'[u].at = hand[u].at /\ hand'[u].run = hand[u].run
    BY <1>2, <1>7
  <2>2. v # w => hand'[v] = hand[v]
    BY <1>7
  <2> QED
    BY <1>2, <1>7, <1>18, <2>1, <2>2 DEF OneHand
<1> QED
  BY <1>7, <1>15, <1>26, <1>27, <1>28, <1>29, <1>30, <1>31 DEF LedgerInductive

\* The invariant of the ledger.
THEOREM LedgerSound == LedgerSpec => []LedgerInductive
<1>1. LedgerInit => LedgerInductive
  <2> SUFFICES ASSUME LedgerInit
               PROVE  LedgerInductive
    OBVIOUS
  <2>0. LastRun \in Nat /\ MostDeaths \in Nat
    BY LedgerAssumption, DiskAssumption
  <2>1. <<>> \in Seq(Bytes) /\ Len(<<>>) = 0
    OBVIOUS
  <2>2. Empty \in [at : {"idle", "lock", "look", "write"}, run : 0..LastRun, left : Seq(Bytes)]
    BY <2>0, <2>1 DEF Empty
  <2>3. hand \in Hands /\ \A w \in Writer : hand[w] = Empty /\ hand[w].at = "idle"
    BY <2>2 DEF LedgerInit, Hands, Empty
  <2>4. LedgerTypeOK
    <3>1. /\ ledger \in Seq(Bytes) /\ hand \in Hands /\ turn \in Writer \cup {Nobody}
          /\ runs \in 0..LastRun /\ noted \subseteq 1..runs /\ deaths \in 0..MostDeaths
      BY <2>0, <2>1, <2>3 DEF LedgerInit
    <3> QED
      BY <3>1 DEF LedgerTypeOK, Hands, Bytes
  <2>5. OneTurn /\ OneHand
    BY <2>3 DEF OneTurn, OneHand
  <2>6. 1..Len(ledger) = {} /\ noted = {}
    BY <2>1 DEF LedgerInit
  <2> QED
    BY <2>3, <2>4, <2>5, <2>6 DEF LedgerInductive, OnlyLaid
<1>2. LedgerInductive /\ [LedgerNext]_ledgerVars => LedgerInductive'
  <2> SUFFICES ASSUME LedgerInductive, [LedgerNext]_ledgerVars
               PROVE  LedgerInductive'
    OBVIOUS
  <2>1. ASSUME NEW w \in Writer,
               AppendRun(w) \/ Lock(w) \/ Look(w) \/ PutDown(w) \/ Noted(w) \/ AppendFails(w)
        PROVE  LedgerInductive'
    BY <2>1, AppendRunKeeps, LockKeeps, LookKeeps, PutDownKeeps, NotedKeeps, AppendFailsKeeps
  <2>2. CASE WritersDie
    BY <2>2, WritersDieKeeps
  <2>3. CASE UNCHANGED ledgerVars
    <3>1. UNCHANGED <<ledger, hand, turn, runs, noted, deaths>>
      BY <2>3 DEF ledgerVars
    <3>2. LedgerTypeOK' /\ OneTurn' /\ OneHand'
      BY <3>1 DEF LedgerInductive, LedgerTypeOK, OneTurn, OneHand
    <3>3. \A w \in Writer : Laid(w)' = Laid(w)
      BY <3>1 DEF Laid
    <3>4. OnlyLaid'
      BY <3>1, <3>3 DEF LedgerInductive, OnlyLaid
    <3>5. \A w \in Writer : LaidSoFar(w) => LaidSoFar(w)'
      BY ONLY <3>1, <3>3 DEF LaidSoFar
    <3>6. \A r, i : WholeAt(r, i) => WholeAt(r, i)'
      BY ONLY <3>1 DEF WholeAt
    <3> QED
      BY <3>1, <3>2, <3>4, <3>5, <3>6 DEF LedgerInductive
  <2> QED
    BY <2>1, <2>2, <2>3 DEF LedgerNext
<1> QED
  BY <1>1, <1>2, PTL DEF LedgerSpec

\* A record stands where its first byte is, and which run it is of is on it.
ReadRight ==
    \A i \in 1..Len(ledger) : /\ \A r \in Run : StandsAt(r, i) <=> Stands(i) = r
                              /\ Stands(i) # 0 => Stands(i) \in Run

LEMMA StandsIs == LedgerInductive => ReadRight
<1> SUFFICES ASSUME LedgerInductive, NEW i \in 1..Len(ledger)
             PROVE  /\ \A r \in Run : StandsAt(r, i) <=> Stands(i) = r
                    /\ Stands(i) # 0 => Stands(i) \in Run
  BY DEF ReadRight
<1>0. Pieces \in Nat \ {0} /\ LastRun \in Nat /\ 0 \notin Run /\ Len(ledger) \in Nat
  BY DiskAssumption, LedgerAssumption, LenProperties DEF Run, LedgerInductive, LedgerTypeOK
<1>1. ASSUME NEW r \in Run, StandsAt(r, i)
      PROVE  ledger[i].run = r
  <2>1. 1 \in 1..Pieces /\ i + 1 - 1 = i
    BY <1>0
  <2>2. ledger[i + 1 - 1] = [run |-> r, piece |-> 1]
    BY <1>1, <2>1 DEF StandsAt
  <2> QED
    BY <2>1, <2>2
<1>2. ASSUME NEW r \in Run, StandsAt(r, i)
      PROVE  Stands(i) = r
  <2>1. Stands(i) = CHOOSE q \in Run : StandsAt(q, i)
    BY <1>2 DEF Stands
  <2>2. Stands(i) \in Run /\ StandsAt(Stands(i), i)
    BY <1>2, <2>1
  <2> QED
    BY <1>1, <1>2, <2>2
<1>3. (~ \E r \in Run : StandsAt(r, i)) => Stands(i) = 0
  BY DEF Stands
<1>4. ASSUME NEW r \in Run, Stands(i) = r
      PROVE  StandsAt(r, i)
  BY <1>0, <1>2, <1>3, <1>4
<1> QED
  BY <1>2, <1>3, <1>4

\* `EveryNotedRunStands`: "a death that cost one run's line would cost the next
\* run's as well" (run.rs:119-122) is what looking at the end of the file is
\* for: every run that was noted is read back, and once.
THEOREM LedgerEveryRunStands == LedgerSpec => []EveryNotedRunStands
<1>1. LedgerInductive => EveryNotedRunStands
  <2> SUFFICES ASSUME LedgerInductive, NEW r \in noted
               PROVE  Cardinality({i \in DOMAIN Records : Records[i] = r}) = 1
    BY DEF EveryNotedRunStands
  <2>0. /\ Pieces \in Nat \ {0} /\ LastRun \in Nat /\ runs \in 0..LastRun /\ noted \subseteq 1..runs
        /\ Len(ledger) \in Nat
    BY DiskAssumption, LedgerAssumption, LenProperties DEF LedgerInductive, LedgerTypeOK
  <2>1. r \in Run /\ r # 0
    BY <2>0 DEF Run
  <2>2. PICK i \in 1..Len(ledger) : WholeAt(r, i)
    BY DEF LedgerInductive
  <2>3. StandsAt(r, i)
    <3>1. i + Pieces - 1 <= Len(ledger)
      BY <2>0, <2>2 DEF WholeAt
    <3> QED
      BY <2>2, <3>1 DEF WholeAt, StandsAt
  <2>4. ASSUME NEW j \in 1..Len(ledger), StandsAt(r, j)
        PROVE  ledger[j] = [run |-> r, piece |-> 1]
    <3>1. 1 \in 1..Pieces /\ j + 1 - 1 = j
      BY <2>0
    <3> QED
      BY <2>4, <3>1 DEF StandsAt
  <2>5. ASSUME NEW j \in 1..Len(ledger), StandsAt(r, j)
        PROVE  j = i
    BY <2>1, <2>3, <2>4, <2>5 DEF LedgerInductive, OnlyLaid
  <2>6. \A j \in 1..Len(ledger) : Stands(j) = r <=> j = i
    BY <2>1, <2>3, <2>5, StandsIs DEF ReadRight
  <2>7. {j \in DOMAIN Records : Records[j] = r} = {i}
    BY <2>1, <2>6 DEF Records
  <2> QED
    BY <2>7, FS_Singleton
<1> QED
  BY <1>1, LedgerSound, PTL

LEMMA StandsIsNext == LedgerInductive' => ReadRight'
  BY StandsIs, PTL

\* A line that stands at the end of the file is stood by: what is put down next
\* ends it.
LEMMA StandsStill ==
    ASSUME LedgerInductive, LedgerInductive', NEW w \in Writer, PutDown(w),
           NEW r \in Run, NEW i \in 1..Len(ledger), StandsAt(r, i)
    PROVE  StandsAt(r, i)'
<1> DEFINE q == hand[w].run
           L == Len(ledger)
           k == Laid(w)
<1>0. /\ Pieces \in Nat \ {0} /\ LastRun \in Nat /\ runs \in 0..LastRun
      /\ ledger \in Texts /\ hand \in Hands
  BY LedgerAssumption, DiskAssumption DEF LedgerInductive, LedgerTypeOK, Hands, Bytes, Texts
<1>1. PICK n \in 1..Len(hand[w].left) : ledger' = Longer(ledger, hand[w].left, n)
  BY DEF PutDown, Longer
<1>2. hand[w].left \in Texts /\ hand[w].at = "write"
  BY <1>0 DEF Hands, Texts, PutDown
<1>3. Adds(ledger, hand[w].left, n) /\ Len(hand[w].left) \in Nat /\ L \in Nat
  BY <1>0, <1>1, <1>2, SomeMore, LenProperties DEF Texts
<1>4. /\ Len(ledger') = L + n
      /\ \A j \in 1..L : ledger'[j] = ledger[j]
      /\ ledger'[L + 1] = hand[w].left[1]
  <2>1. 1 \in 1..n
    BY <1>1, <1>3
  <2> QED
    BY <1>1, <1>3, <2>1 DEF Adds
<1>5. q \in Nat \ {0}
  <2>1. q \in 1..runs
    BY <1>2 DEF LedgerInductive, OneHand
  <2> HIDE DEF q
  <2> QED
    BY <1>0, <2>1
<1>6. LaidSoFar(w)
  BY <1>2 DEF LedgerInductive
<1>7. /\ k \in -1..L
      /\ hand[w].left[1] = ByteOf(q, k + 1)
      /\ \A p \in 1..k : ledger[L - k + p] = ByteOf(q, p)
      /\ k \in 0..(L - 1) => ledger[L - k] = NewLine
  <2>1. 1 \in 1..Len(hand[w].left)
    BY <1>1, <1>3
  <2> QED
    BY <1>6, <2>1 DEF LaidSoFar
<1>8. /\ i = 1 \/ ledger[i - 1] = NewLine
      /\ i + Pieces - 1 <= L
      /\ \A p \in 1..Pieces : ledger[i + p - 1] = [run |-> r, piece |-> p]
      /\ i + Pieces <= L => ledger[i + Pieces] = NewLine
  BY DEF StandsAt
<1>9. r \in Nat \ {0}
  BY <1>0 DEF Run
<1>10. i \in 1..L
  OBVIOUS
<1>11. n \in Nat \ {0}
  BY <1>1, <1>3
<1> HIDE DEF q, L, k
<1>12. CASE i + Pieces <= L
  <2>1. /\ i = 1 \/ i - 1 \in 1..L
        /\ \A p \in 1..Pieces : i + p - 1 \in 1..L
        /\ i + Pieces \in 1..L
        /\ i + Pieces - 1 <= L + n
    BY <1>0, <1>3, <1>10, <1>11, <1>12
  <2> QED
    BY <1>4, <1>8, <1>12, <2>1 DEF StandsAt
<1>13. CASE i + Pieces = L + 1
  <2>1. /\ i = 1 \/ i - 1 \in 1..L
        /\ \A p \in 1..Pieces : i + p - 1 \in 1..L
        /\ i + Pieces - 1 <= L + n
        /\ Pieces \in 1..Pieces /\ i + Pieces - 1 = L
    BY <1>0, <1>3, <1>10, <1>11, <1>13
  <2>2. ledger[L] = [run |-> r, piece |-> Pieces]
    BY <1>8, <2>1
  <2>3. ledger[L].piece = Pieces /\ ledger[L].run = r /\ ledger[L] # NewLine
    BY <1>9, <2>2 DEF NewLine
  <2>4. k + 1 = 0 \/ k + 1 = Pieces + 1
    <3>1. k # 0
      <4>1. k = 0 => k \in 0..(L - 1) /\ L - k = L
        BY <1>3, <1>10
      <4> QED
        BY <1>7, <2>3, <4>1
    <3>2. CASE k \in 1..L
      <4>1. k \in 1..k /\ L - k + k = L /\ k \in Int
        BY <1>3, <3>2
      <4>2. ledger[L] = ByteOf(q, k)
        BY <1>7, <4>1
      <4>3. ByteOf(q, k).piece = k
        BY <1>5, <1>9, <2>3, <4>1, <4>2, ByteIs
      <4> QED
        BY <2>3, <4>2, <4>3
    <3> QED
      BY <1>3, <1>7, <3>1, <3>2
  <2>5. ledger'[i + Pieces] = NewLine
    <3>1. ledger'[i + Pieces] = ByteOf(q, k + 1)
      BY <1>4, <1>7, <1>13
    <3>2. k + 1 \notin 1..Pieces
      BY <1>0, <2>4
    <3> QED
      BY <3>1, <3>2 DEF ByteOf
  <2> QED
    BY <1>4, <1>8, <2>1, <2>5 DEF StandsAt
<1> QED
  BY <1>0, <1>3, <1>8, <1>10, <1>12, <1>13

\* What stands and did not ends beyond where the file ended, and is of the run
\* in hand.
LEMMA StandsAnew ==
    ASSUME LedgerInductive, LedgerInductive', NEW w \in Writer, PutDown(w),
           NEW r \in Run, NEW i \in 1..Len(ledger'), StandsAt(r, i)',
           ~(i \in 1..Len(ledger) /\ StandsAt(r, i))
    PROVE  i + Pieces - 1 > Len(ledger) /\ r = hand[w].run
<1> DEFINE q == hand[w].run
           L == Len(ledger)
           k == Laid(w)
           left == hand[w].left
<1>0. /\ Pieces \in Nat \ {0} /\ LastRun \in Nat /\ runs \in 0..LastRun
      /\ ledger \in Texts /\ hand \in Hands
  BY LedgerAssumption, DiskAssumption DEF LedgerInductive, LedgerTypeOK, Hands, Bytes, Texts
<1>1. PICK n \in 1..Len(left) : ledger' = Longer(ledger, left, n)
  BY DEF PutDown, Longer
<1>2. left \in Texts /\ hand[w].at = "write"
  BY <1>0 DEF Hands, Texts, PutDown
<1>3. Adds(ledger, left, n) /\ Len(left) \in Nat /\ L \in Nat
  BY <1>0, <1>1, <1>2, SomeMore, LenProperties DEF Texts
<1>4. /\ Len(ledger') = L + n
      /\ \A j \in 1..L : ledger'[j] = ledger[j]
      /\ \A j \in 1..n : ledger'[L + j] = left[j]
  BY <1>1, <1>3 DEF Adds
<1>5. q \in Nat \ {0}
  <2>1. q \in 1..runs
    BY <1>2 DEF LedgerInductive, OneHand
  <2> HIDE DEF q
  <2> QED
    BY <1>0, <2>1
<1>6. k \in Int /\ \A j \in 1..Len(left) : left[j] = ByteOf(q, k + j)
  <2>1. LaidSoFar(w)
    BY <1>2 DEF LedgerInductive
  <2> QED
    BY <2>1 DEF LaidSoFar
<1>7. /\ i = 1 \/ ledger'[i - 1] = NewLine
      /\ i + Pieces - 1 <= L + n
      /\ \A p \in 1..Pieces : ledger'[i + p - 1] = [run |-> r, piece |-> p]
      /\ i + Pieces <= L + n => ledger'[i + Pieces] = NewLine
  BY <1>4 DEF StandsAt
<1>8. i \in Nat \ {0} /\ n \in Nat \ {0} /\ n <= Len(left) /\ r \in Nat \ {0}
  BY <1>0, <1>1, <1>3, <1>4 DEF Run
<1>9. ~(i \in 1..L /\ StandsAt(r, i))
  OBVIOUS
<1> HIDE DEF L, k, left
<1>10. i + Pieces - 1 > L
  <2> SUFFICES ASSUME i + Pieces - 1 <= L
               PROVE  i \in 1..L /\ StandsAt(r, i)
    BY <1>0, <1>3, <1>8, <1>9
  <2>1. /\ i = 1 \/ i - 1 \in 1..L
        /\ \A p \in 1..Pieces : i + p - 1 \in 1..L
        /\ i + Pieces <= L => i + Pieces \in 1..L /\ i + Pieces <= L + n
        /\ i \in 1..L
    BY <1>0, <1>3, <1>8
  <2> QED
    BY <1>4, <1>7, <2>1 DEF StandsAt, L
<1>11. r = q
  <2> DEFINE j == i + Pieces - 1 - L
  <2>1. /\ j \in 1..n /\ j \in 1..Len(left) /\ L + j = i + Pieces - 1 /\ Pieces \in 1..Pieces
        /\ k + j \in Int
    BY <1>0, <1>3, <1>6, <1>7, <1>8, <1>10
  <2>2. ledger'[i + Pieces - 1] = ByteOf(q, k + j)
    BY <1>4, <1>6, <2>1
  <2>3. ledger'[i + Pieces - 1].run = r
    <3>1. Pieces \in 1..Pieces
      BY <2>1
    <3>2. ledger'[i + Pieces - 1] = [run |-> r, piece |-> Pieces]
      BY ONLY <1>7, <3>1
    <3> QED
      BY ONLY <3>2
  <2> QED
    BY <1>5, <1>8, <2>1, <2>2, <2>3, ByteIs
<1> QED
  BY <1>10, <1>11 DEF L

\* `OneMoreAtTheEnd`: "a run that ended must not be able to displace a run that
\* ended before it" (run.rs:4-6): what reading answers with only grows, at its
\* end, by the run whose writer holds the lock.
THEOREM LedgerOneMoreAtTheEnd == LedgerSpec => OneMoreAtTheEnd
<1> DEFINE Grows == \/ Records' = Records
                    \/ \E w \in Writer, i \in 1..Len(ledger') :
                          /\ turn = w
                          /\ \A j \in DOMAIN Records : j < i
                          /\ Records' = [j \in DOMAIN Records \cup {i} |->
                                            IF j = i THEN hand[w].run ELSE Records[j]]
<1>1. ASSUME LedgerInductive, LedgerInductive', NEW w \in Writer, PutDown(w)
      PROVE  Grows
  <2> DEFINE L == Len(ledger)
             M == Len(ledger')
             q == hand[w].run
             Stood == {j \in 1..L : Stands(j) # 0}
             Stand == {j \in 1..M : Stands(j)' # 0}
  <2>0. /\ Pieces \in Nat \ {0} /\ LastRun \in Nat /\ L \in Nat /\ M \in Nat /\ L <= M /\ 0 \notin Run
    <3>1. ledger \in Texts /\ hand \in Hands
      BY <1>1 DEF LedgerInductive, LedgerTypeOK, Hands, Bytes, Texts
    <3>2. hand[w].left \in Texts
      BY <3>1 DEF Hands, Texts
    <3>3. PICK n \in 1..Len(hand[w].left) : ledger' = Longer(ledger, hand[w].left, n)
      BY <1>1 DEF PutDown, Longer
    <3>4. Adds(ledger, hand[w].left, n)
      BY <3>1, <3>2, <3>3, SomeMore
    <3>5. Len(hand[w].left) \in Nat /\ L \in Nat
      BY <3>1, <3>2, LenProperties DEF Texts
    <3>6. M = L + n
      BY <3>3, <3>4 DEF Adds
    <3> QED
      BY <3>3, <3>5, <3>6, LedgerAssumption, DiskAssumption DEF Run
  <2>1. /\ \A i \in 1..L, r \in Run : StandsAt(r, i) <=> Stands(i) = r
        /\ \A i \in 1..L : Stands(i) # 0 => Stands(i) \in Run
    BY <1>1, StandsIs DEF ReadRight
  <2>2. /\ \A i \in 1..M, r \in Run : StandsAt(r, i)' <=> Stands(i)' = r
        /\ \A i \in 1..M : Stands(i)' # 0 => Stands(i)' \in Run
    BY <1>1, StandsIsNext DEF ReadRight
  <2>3. ASSUME NEW i \in Stood
        PROVE  i \in Stand /\ Stands(i)' = Stands(i)
    <3>1. Stands(i) \in Run /\ i \in 1..L /\ i \in 1..M
      BY <2>0, <2>1
    <3>2. PICK r \in Run : r = Stands(i)
      BY <3>1
    <3>3. StandsAt(r, i)
      BY <2>1, <3>1, <3>2
    <3>4. StandsAt(r, i)'
      BY <1>1, <3>1, <3>3, StandsStill
    <3>5. Stands(i)' = r
      BY <2>2, <3>1, <3>4
    <3> QED
      BY <2>0, <3>1, <3>2, <3>5
  <2>4. ASSUME NEW i \in Stand, i \notin Stood
        PROVE  i + Pieces - 1 > L /\ Stands(i)' = q
    <3>1. Stands(i)' \in Run /\ i \in 1..M
      BY <2>2
    <3>2. PICK r \in Run : r = Stands(i)'
      BY <3>1
    <3>3. StandsAt(r, i)'
      BY <2>2, <3>1, <3>2
    <3>4. ~(i \in 1..L /\ StandsAt(r, i))
      <4>1. i \in 1..L /\ StandsAt(r, i) => Stands(i) # 0
        BY <2>0, <2>1
      <4> QED
        BY <2>4, <4>1
    <3>5. i + Pieces - 1 > Len(ledger) /\ r = hand[w].run
      BY <1>1, <3>1, <3>3, <3>4, StandsAnew
    <3> QED
      BY <3>2, <3>5
  <2>5. ASSUME NEW i \in Stood
        PROVE  i + Pieces - 1 <= L
    <3>1. PICK r \in Run : r = Stands(i)
      BY <2>1
    <3>2. StandsAt(r, i)
      BY <2>1, <3>1
    <3> QED
      BY <3>2 DEF StandsAt
  <2>6. ASSUME NEW i \in Stand, NEW j \in Stand, Stands(i)' = Stands(j)'
        PROVE  i = j
    <3>1. PICK r \in Run : r = Stands(i)' /\ r = Stands(j)'
      BY <2>2, <2>6
    <3>2. StandsAt(r, i)' /\ StandsAt(r, j)'
      BY <2>2, <3>1
    <3>3. 1 \in 1..Pieces /\ i + 1 - 1 = i /\ j + 1 - 1 = j /\ i \in 1..M /\ j \in 1..M
      BY <2>0
    <3>4. ledger'[i + 1 - 1] = [run |-> r, piece |-> 1] /\ ledger'[j + 1 - 1] = [run |-> r, piece |-> 1]
      BY <3>2, <3>3 DEF StandsAt
    <3>5. ledger'[i] = ledger'[j] /\ ledger'[i].run # 0
      BY <2>0, <3>3, <3>4
    <3>6. OnlyLaid'
      BY <1>1 DEF LedgerInductive
    <3> QED
      BY <3>3, <3>5, <3>6 DEF OnlyLaid
  <2>7. /\ Records = [i \in Stood |-> Stands(i)]
        /\ Records' = [i \in Stand |-> Stands(i)']
    BY DEF Records
  <2>8. turn = w
    BY <1>1 DEF LedgerInductive, OneTurn, PutDown
  <2>9. Stood \subseteq 1..L /\ Stand \subseteq 1..M
    OBVIOUS
  <2> HIDE DEF L, M, q, Stood, Stand
  <2>10. CASE \A i \in Stand : i \in Stood
    <3>1. Stand = Stood
      BY <2>3, <2>10
    <3>2. Records' = Records
      BY <2>3, <2>7, <3>1
    <3> QED
      BY <3>2
  <2>11. CASE \E i \in Stand : i \notin Stood
    <3>1. PICK i \in Stand : i \notin Stood
      BY <2>11
    <3>2. i + Pieces - 1 > L /\ Stands(i)' = q /\ i \in 1..M
      BY <2>4, <2>9, <3>1
    <3>3. Stand = Stood \cup {i}
      <4>1. \A j \in Stand : j \in Stood \/ j = i
        BY <2>4, <2>6, <3>1
      <4> QED
        BY <2>3, <3>1, <4>1
    <3>4. DOMAIN Records = Stood
      BY <2>7
    <3>5. \A j \in DOMAIN Records : j < i
      <4> SUFFICES ASSUME NEW j \in Stood
                   PROVE  j < i
        BY <3>4
      <4>1. j + Pieces - 1 <= L /\ j \in 1..L
        BY <2>5, <2>9
      <4> QED
        BY <2>0, <3>2, <4>1
    <3>6. Records' = [j \in Stood \cup {i} |-> IF j = i THEN q ELSE Records[j]]
      BY <2>3, <2>7, <3>1, <3>2, <3>3
    <3> QED
      BY <2>8, <3>2, <3>4, <3>5, <3>6 DEF M, q
  <2> QED
    BY <2>10, <2>11
<1>2. ASSUME ledger' = ledger
      PROVE  Records' = Records
  <2>1. \A r, i : StandsAt(r, i)' <=> StandsAt(r, i)
    BY ONLY <1>2 DEF StandsAt
  <2>2. \A i : Stands(i)' = Stands(i)
    BY <2>1 DEF Stands
  <2> QED
    BY <1>2, <2>2 DEF Records
<1>3. LedgerInductive /\ LedgerInductive' /\ [LedgerNext]_ledgerVars => [Grows]_ledgerVars
  <2> SUFFICES ASSUME LedgerInductive, LedgerInductive', LedgerNext
               PROVE  Grows
    OBVIOUS
  <2>1. CASE \E w \in Writer : PutDown(w)
    BY <1>1, <2>1
  <2>2. CASE ~ \E w \in Writer : PutDown(w)
    <3>1. ledger' = ledger
      BY <2>2 DEF LedgerNext, AppendRun, Lock, Look, Noted, AppendFails, WritersDie
    <3> QED
      BY <1>2, <3>1
  <2> QED
    BY <2>1, <2>2
<1> QED
  BY <1>3, LedgerSound, PTL DEF LedgerSpec, OneMoreAtTheEnd

----------------------------------------------------------------------------
(* The trace: what the helpers of a reading answer with.                   *)

\* A set of numbers that is not empty has a least one.
LEMMA LeastNumber ==
  ASSUME NEW S \in SUBSET Nat, S # {}
  PROVE  \E m \in S : \A n \in S : m <= n
<1>1. PICK m \in S : \A n \in S : ~ (<<n, m>> \in OpToRel(<, Nat))
  BY NatLessThanWellFounded, WFMin, Zenon
<1>2. ASSUME NEW n \in S PROVE m <= n
  <2>1. m \in Nat /\ n \in Nat
      OBVIOUS
  <2>2. <<n, m>> \in Nat \X Nat
      BY <2>1
  <2>3. ~ (n < m)
      BY <1>1, <2>2 DEF OpToRel
  <2> QED
      BY <2>1, <2>3
<1> QED
  BY <1>2

\* A set of numbers that has nought, and with each the next, has all of them.
LEMMA EveryNumber ==
  ASSUME NEW S \in SUBSET Nat, 0 \in S, \A n \in S : n + 1 \in S
  PROVE  S = Nat
<1> SUFFICES ASSUME Nat \ S # {} PROVE FALSE
  OBVIOUS
<1>1. PICK m \in Nat \ S : \A n \in Nat \ S : m <= n
  BY LeastNumber
<1>2. m # 0 /\ m - 1 \in Nat
  BY <1>1
<1>3. m - 1 \in S
  BY <1>1, <1>2
<1>4. m - 1 + 1 = m
  BY <1>2
<1> QED
  BY <1>3, <1>4, <1>1

\* A set of numbers none of which is above n, and that is not empty, has a
\* greatest one.
LEMMA GreatestOf ==
    ASSUME NEW n \in Nat, NEW S \in SUBSET (1..n), S # {}
    PROVE  \E m \in S : \A k \in S : k <= m
<1> DEFINE P(k) == \A Q \in SUBSET (1..k) : Q # {} => \E m \in Q : \A j \in Q : j <= m
           Known == {k \in Nat : P(k)}
<1>1. P(0)
  <2>1. 1..0 = {}
    OBVIOUS
  <2> QED
    BY <2>1
<1>2. ASSUME NEW k \in Nat, P(k) PROVE P(k + 1)
  <2> SUFFICES ASSUME NEW Q \in SUBSET (1..(k+1)), Q # {}
               PROVE  \E m \in Q : \A j \in Q : j <= m
    OBVIOUS
  <2>1. CASE k + 1 \in Q
    BY <2>1
  <2>2. CASE k + 1 \notin Q
    <3>1. Q \in SUBSET (1..k)
      BY <2>2
    <3> QED
      BY <3>1, <1>2
  <2> QED
    BY <2>1, <2>2
<1> HIDE DEF P
<1>3. 0 \in Known /\ Known \in SUBSET Nat /\ \A k \in Known : k + 1 \in Known
  BY <1>1, <1>2
<1> HIDE DEF Known
<1>4. Known = Nat
  BY <1>3, EveryNumber
<1>5. P(n)
  BY <1>4 DEF Known
<1> QED
  BY <1>5 DEF P

\* A function on the first n numbers is a sequence of n.
LEMMA RowOf ==
    ASSUME NEW n \in Nat, NEW S, NEW f \in [1..n -> S]
    PROVE  f \in Seq(S) /\ Len(f) = n /\ DOMAIN f = 1..n
<1>1. f \in Seq(S)
  BY SeqDef
<1>2. DOMAIN f = 1..Len(f) /\ Len(f) \in Nat
  BY <1>1, LenProperties
<1>3. DOMAIN f = 1..n
  OBVIOUS
<1> QED
  BY <1>1, <1>2, <1>3, SameInterval

LEMMA ItemsOf ==
    ASSUME NEW S, NEW s \in Seq(S)
    PROVE  \A j \in DOMAIN s : s[j] \in S
  OBVIOUS

\* A row told up to each of its places.
WayTo(row, f, n) ==
    f = [i \in 0..n |-> IF i = 0 THEN <<>>
                        ELSE IF row[i] = 0 THEN f[i - 1] ELSE Append(f[i - 1], row[i])]

LEMMA WayExists ==
    ASSUME NEW row, NEW n \in Nat
    PROVE  \E f : WayTo(row, f, n)
<1> DEFINE Next1(f, i) == IF row[i] = 0 THEN f[i - 1] ELSE Append(f[i - 1], row[i])
           P(k) == \E f : WayTo(row, f, k)
           Known == {k \in Nat : P(k)}
<1>1. P(0)
  <2> DEFINE first == [i \in 0..0 |-> <<>>]
  <2>1. WayTo(row, first, 0)
    BY DEF WayTo
  <2> QED
    BY <2>1
<1>2. ASSUME NEW k \in Nat, P(k) PROVE P(k + 1)
  <2>1. PICK f : WayTo(row, f, k)
    BY <1>2
  <2> DEFINE more == [i \in 0..(k+1) |-> IF i = 0 THEN <<>> ELSE Next1(f, i)]
  <2>2. ASSUME NEW i \in 0..k PROVE more[i] = f[i]
    <3>1. i \in 0..(k+1)
      OBVIOUS
    <3>2. f[i] = IF i = 0 THEN <<>> ELSE Next1(f, i)
      BY <2>1 DEF WayTo
    <3> HIDE DEF Next1
    <3> QED
      BY <3>1, <3>2
  <2>3. ASSUME NEW i \in 0..(k+1), i # 0 PROVE more[i - 1] = f[i - 1]
    <3>1. i - 1 \in 0..k
      BY <2>3
    <3> QED
      BY <2>2, <3>1
  <2>4. WayTo(row, more, k + 1)
    BY <2>3 DEF WayTo
  <2> QED
    BY <2>4
<1> HIDE DEF P
<1>3. 0 \in Known /\ Known \in SUBSET Nat /\ \A k \in Known : k + 1 \in Known
  BY <1>1, <1>2
<1> HIDE DEF Known
<1>4. Known = Nat
  BY <1>3, EveryNumber
<1> QED
  BY <1>4 DEF Known, P

LEMMA ToldIsWay ==
    ASSUME NEW row, Len(row) \in Nat
    PROVE  \E f : /\ WayTo(row, f, Len(row))
                  /\ Told(row) = f[Len(row)]
<1> DEFINE f == CHOOSE g : WayTo(row, g, Len(row))
<1>1. WayTo(row, f, Len(row))
  BY WayExists
<1>2. Told(row) = f[Len(row)]
  BY DEF Told, WayTo
<1> QED
  BY <1>1, <1>2

\* A set that has nought, and with each number below n the next, has all of them
\* up to n.
LEMMA EachUpTo ==
    ASSUME NEW n \in Nat, NEW T \in SUBSET (0..n), 0 \in T,
           \A k \in T : k < n => k + 1 \in T
    PROVE  T = 0..n
<1> DEFINE Known == {k \in Nat : k <= n => k \in T}
<1>1. 0 \in Known /\ Known \in SUBSET Nat
  OBVIOUS
<1>2. ASSUME NEW k \in Known PROVE k + 1 \in Known
  <2> SUFFICES ASSUME k + 1 <= n PROVE k + 1 \in T
    OBVIOUS
  <2>1. k \in T /\ k < n
    OBVIOUS
  <2> QED
    BY <2>1
<1>3. Known = Nat
  <2> HIDE DEF Known
  <2> QED
    BY <1>1, <1>2, EveryNumber
<1>4. ASSUME NEW k \in 0..n PROVE k \in T
  <2>1. k \in Known
    BY <1>3
  <2> QED
    BY <2>1
<1> QED
  BY <1>4

\* One place further.
LEMMA WayOn ==
    ASSUME NEW row, NEW f, NEW n \in Nat, WayTo(row, f, n)
    PROVE  /\ f[0] = <<>>
           /\ \A k \in 0..n : k < n =>
                 f[k + 1] = IF row[k + 1] = 0 THEN f[k] ELSE Append(f[k], row[k + 1])
<1>1. f[0] = <<>>
  BY DEF WayTo
<1>2. ASSUME NEW k \in 0..n, k < n
      PROVE  f[k + 1] = IF row[k + 1] = 0 THEN f[k] ELSE Append(f[k], row[k + 1])
  <2>1. k + 1 \in 0..n /\ k + 1 # 0 /\ k + 1 - 1 = k
    BY <1>2
  <2>2. \A j \in 0..n : f[j] = IF j = 0 THEN <<>>
                               ELSE IF row[j] = 0 THEN f[j - 1] ELSE Append(f[j - 1], row[j])
    BY Zenon DEF WayTo
  <2> QED
    BY <2>1, <2>2
<1> QED
  BY <1>1, <1>2

\* What is told is some of the row.
LEMMA WayHas ==
    ASSUME NEW S, NEW row \in Seq(S), NEW f, WayTo(row, f, Len(row))
    PROVE  \A k \in 0..Len(row) :
              /\ f[k] \in Seq(S \ {0})
              /\ \A q \in DOMAIN f[k] : \E i \in 1..k : row[i] = f[k][q]
<1> DEFINE n == Len(row)
           P(k) == /\ f[k] \in Seq(S \ {0})
                   /\ \A q \in DOMAIN f[k] : \E i \in 1..k : row[i] = f[k][q]
           T == {k \in 0..n : P(k)}
<1>0. n \in Nat /\ DOMAIN row = 1..n
  OBVIOUS
<1>1. 0 \in T
  <2>1. f[0] = <<>>
    BY <1>0, WayOn
  <2>2. <<>> \in Seq(S \ {0}) /\ Len(<<>>) = 0
    BY EmptySeq
  <2>3. DOMAIN f[0] = {}
    BY <2>1, <2>2
  <2>4. P(0)
    BY <2>1, <2>2, <2>3
  <2> QED
    BY <2>4, <1>0
<1>2. ASSUME NEW k \in T, k < n PROVE k + 1 \in T
  <2>1. f[k + 1] = IF row[k + 1] = 0 THEN f[k] ELSE Append(f[k], row[k + 1])
    BY <1>0, <1>2, WayOn
  <2>2. k \in 0..n /\ P(k) /\ k + 1 \in 1..n /\ row[k + 1] \in S
    BY <1>0, <1>2
  <2>3. CASE row[k + 1] = 0
    <3>1. f[k + 1] = f[k]
      BY <2>1, <2>3
    <3>2. 1..k \subseteq 1..(k+1)
      BY <2>2
    <3> QED
      BY <3>1, <3>2, <2>2
  <2>4. CASE row[k + 1] # 0
    <3> DEFINE was == f[k]
               x == row[k + 1]
    <3>1. was \in Seq(S \ {0}) /\ x \in S \ {0} /\ f[k + 1] = Append(was, x)
      BY <2>1, <2>2, <2>4
    <3>2. \A q \in DOMAIN was : \E i \in 1..k : row[i] = was[q]
      BY <2>2
    <3> HIDE DEF was, x
    <3>3. /\ Append(was, x) \in Seq(S \ {0})
          /\ DOMAIN Append(was, x) = 1..(Len(was) + 1)
          /\ DOMAIN was = 1..Len(was) /\ Len(was) \in Nat
          /\ \A q \in 1..Len(was) : Append(was, x)[q] = was[q]
          /\ Append(was, x)[Len(was) + 1] = x
      BY <3>1, AppendProperties
    <3>4. ASSUME NEW q \in DOMAIN Append(was, x)
          PROVE  \E i \in 1..(k+1) : row[i] = Append(was, x)[q]
      <4>1. CASE q = Len(was) + 1
        BY <4>1, <3>3, <2>2 DEF x
      <4>2. CASE q # Len(was) + 1
        <5>1. q \in DOMAIN was /\ Append(was, x)[q] = was[q]
          BY <4>2, <3>3
        <5>2. PICK i \in 1..k : row[i] = was[q]
          BY <5>1, <3>2
        <5>3. i \in 1..(k+1)
          BY <2>2
        <5> QED
          BY <5>1, <5>2, <5>3
      <4> QED
        BY <4>1, <4>2
    <3>5. P(k + 1)
      BY <3>1, <3>3, <3>4
    <3> QED
      BY <3>5, <2>2
  <2> QED
    BY <2>3, <2>4
<1>3. T = 0..n
  <2> HIDE DEF P, n
  <2>1. T \in SUBSET (0..n)
    OBVIOUS
  <2> HIDE DEF T
  <2> QED
    BY <1>0, <1>1, <1>2, <2>1, EachUpTo
<1> QED
  BY <1>3

LEMMA ToldHas ==
    ASSUME NEW S, NEW row \in Seq(S)
    PROVE  /\ Told(row) \in Seq(S \ {0})
           /\ \A q \in DOMAIN Told(row) : \E i \in DOMAIN row : row[i] = Told(row)[q]
<1>1. Len(row) \in Nat /\ DOMAIN row = 1..Len(row) /\ Len(row) \in 0..Len(row)
  OBVIOUS
<1>2. PICK f : WayTo(row, f, Len(row)) /\ Told(row) = f[Len(row)]
  BY <1>1, ToldIsWay
<1>3. \A k \in 0..Len(row) :
         /\ f[k] \in Seq(S \ {0})
         /\ \A q \in DOMAIN f[k] : \E i \in 1..k : row[i] = f[k][q]
  BY <1>2, WayHas
<1>4. /\ f[Len(row)] \in Seq(S \ {0})
      /\ \A q \in DOMAIN f[Len(row)] : \E i \in 1..Len(row) : row[i] = f[Len(row)][q]
  BY <1>1, <1>3, Zenon
<1>5. DOMAIN row = 1..Len(row)
  BY <1>1
<1> QED
  BY <1>2, <1>4, <1>5, Zenon

\* A row that has nothing twice is told without anything twice.
LEMMA ToldOnce ==
    ASSUME NEW S, NEW row \in Seq(S),
           \A i, j \in DOMAIN row : row[i] = row[j] /\ row[i] # 0 => i = j
    PROVE  \A p, q \in DOMAIN Told(row) : Told(row)[p] = Told(row)[q] => p = q
<1> DEFINE n == Len(row)
<1>0. n \in Nat /\ DOMAIN row = 1..n /\ n \in 0..n
  OBVIOUS
<1>1. PICK f : WayTo(row, f, n) /\ Told(row) = f[n]
  BY <1>0, ToldIsWay
<1> DEFINE P(k) == \A p, q \in DOMAIN f[k] : f[k][p] = f[k][q] => p = q
           T == {k \in 0..n : P(k)}
<1>2. 0 \in T
  <2>1. f[0] = <<>>
    BY <1>0, <1>1, WayOn
  <2>2. Len(<<>>) = 0 /\ <<>> \in Seq({})
    BY EmptySeq
  <2>3. DOMAIN f[0] = {}
    BY <2>1, <2>2
  <2>4. P(0)
    BY <2>3
  <2> QED
    BY <2>4, <1>0
<1>3. ASSUME NEW k \in T, k < n PROVE k + 1 \in T
  <2>1. f[k + 1] = IF row[k + 1] = 0 THEN f[k] ELSE Append(f[k], row[k + 1])
    BY <1>0, <1>1, <1>3, WayOn
  <2>2. k \in 0..n /\ k + 1 \in 0..n /\ k + 1 \in 1..n /\ row[k + 1] \in S /\ P(k)
    BY <1>0, <1>3
  <2>3. CASE row[k + 1] = 0
    BY <2>1, <2>2, <2>3
  <2>4. CASE row[k + 1] # 0
    <3> DEFINE was == f[k]
               x == row[k + 1]
    <3>1. was \in Seq(S \ {0}) /\ \A q \in DOMAIN was : \E i \in 1..k : row[i] = was[q]
      <4>1. \A j \in 0..Len(row) :
               /\ f[j] \in Seq(S \ {0})
               /\ \A q \in DOMAIN f[j] : \E i \in 1..j : row[i] = f[j][q]
        BY <1>1, WayHas
      <4> QED
        BY <4>1, <2>2
    <3>2. x \in S \ {0} /\ f[k + 1] = Append(was, x)
      BY <2>1, <2>2, <2>4
    <3>3. ASSUME NEW q \in DOMAIN was PROVE was[q] # x
      <4>1. PICK i \in 1..k : row[i] = was[q]
        BY <3>1
      <4>2. i \in 1..n /\ i # k + 1
        BY <2>2
      <4> QED
        BY <4>1, <4>2, <2>2, <2>4, <1>0
    <3>4. \A p, q \in DOMAIN was : was[p] = was[q] => p = q
      BY <2>2
    <3> HIDE DEF was, x
    <3>5. /\ DOMAIN Append(was, x) = 1..(Len(was) + 1)
          /\ DOMAIN was = 1..Len(was) /\ Len(was) \in Nat
          /\ \A q \in 1..Len(was) : Append(was, x)[q] = was[q]
          /\ Append(was, x)[Len(was) + 1] = x
      BY <3>1, <3>2, AppendProperties
    <3>6. ASSUME NEW p \in DOMAIN Append(was, x), NEW q \in DOMAIN Append(was, x),
                 Append(was, x)[p] = Append(was, x)[q]
          PROVE  p = q
      <4>1. \A r \in DOMAIN Append(was, x) : r \in DOMAIN was \/ r = Len(was) + 1
        BY <3>5
      <4>2. CASE p \in DOMAIN was /\ q \in DOMAIN was
        BY <4>2, <3>4, <3>5, <3>6
      <4>3. CASE p \in DOMAIN was /\ q = Len(was) + 1
        BY <4>3, <3>3, <3>5, <3>6
      <4>4. CASE q \in DOMAIN was /\ p = Len(was) + 1
        BY <4>4, <3>3, <3>5, <3>6
      <4> QED
        BY <4>1, <4>2, <4>3, <4>4
    <3>7. P(k + 1)
      BY <3>2, <3>6
    <3> QED
      BY <3>7, <2>2
  <2> QED
    BY <2>3, <2>4
<1>4. T = 0..n
  <2> HIDE DEF P, n
  <2>1. T \in SUBSET (0..n)
    OBVIOUS
  <2> HIDE DEF T
  <2> QED
    BY <1>0, <1>2, <1>3, <2>1, EachUpTo
<1>5. P(n)
  BY <1>0, <1>4
<1> QED
  BY <1>1, <1>5

\* Of a row of nothing nothing is told.
LEMMA ToldNone ==
    ASSUME NEW row, Len(row) \in Nat, \A i \in 1..Len(row) : row[i] = 0
    PROVE  Told(row) = <<>>
<1> DEFINE n == Len(row)
<1>1. PICK f : WayTo(row, f, n) /\ Told(row) = f[n]
  BY ToldIsWay
<1> DEFINE T == {k \in 0..n : f[k] = <<>>}
<1>2. 0 \in T
  BY <1>1, WayOn
<1>3. ASSUME NEW k \in T, k < n PROVE k + 1 \in T
  <2>1. f[k + 1] = IF row[k + 1] = 0 THEN f[k] ELSE Append(f[k], row[k + 1])
    BY <1>1, <1>3, WayOn
  <2>2. k + 1 \in 1..n
    BY <1>3
  <2> QED
    BY <2>1, <2>2
<1>4. T = 0..n
  <2>0. n \in Nat
    OBVIOUS
  <2> HIDE DEF n
  <2>1. T \in SUBSET (0..n)
    OBVIOUS
  <2> HIDE DEF T
  <2> QED
    BY <1>2, <1>3, <2>0, <2>1, EachUpTo
<1> QED
  BY <1>1, <1>4

\* Rows that begin alike are told alike up to there.
Alike(s, t, m) == \A i \in 1..m : s[i] = t[i]

LEMMA WaysAlike ==
    ASSUME NEW s, NEW t, NEW f, NEW g, NEW m \in Nat, NEW n \in Nat, m <= n,
           WayTo(s, f, m), WayTo(t, g, n), Alike(s, t, m)
    PROVE  f[m] = g[m]
<1> DEFINE T == {k \in 0..m : f[k] = g[k]}
<1>1. 0 \in T
  BY WayOn
<1>2. ASSUME NEW k \in T, k < m PROVE k + 1 \in T
  <2>1. f[k + 1] = IF s[k + 1] = 0 THEN f[k] ELSE Append(f[k], s[k + 1])
    BY <1>2, WayOn
  <2>2. k \in 0..n /\ k < n
    BY <1>2
  <2>3. g[k + 1] = IF t[k + 1] = 0 THEN g[k] ELSE Append(g[k], t[k + 1])
    BY <2>2, WayOn
  <2>4. k + 1 \in 1..m
    BY <1>2
  <2> QED
    BY <2>1, <2>3, <2>4 DEF Alike
<1>3. T = 0..m
  <2>1. T \in SUBSET (0..m)
    OBVIOUS
  <2> HIDE DEF T
  <2> QED
    BY <1>1, <1>2, <2>1, EachUpTo
<1> QED
  BY <1>3

\* Two rows in one are told one after the other.
LEMMA ToldJoined ==
    ASSUME NEW S, NEW s \in Seq(S), NEW t \in Seq(S)
    PROVE  Told(s \o t) = Told(s) \o Told(t)
<1> DEFINE row == s \o t
           m == Len(s)
           n == Len(t)
           U == S \ {0}
<1>1. /\ m \in Nat /\ n \in Nat /\ row \in Seq(S) /\ Len(row) = m + n
      /\ \A i \in 1..m : row[i] = s[i]
      /\ \A i \in 1..n : row[m + i] = t[i]
  <2>1. /\ Len(row) = m + n /\ row \in Seq(S) /\ m \in Nat /\ n \in Nat
        /\ \A i \in 1..(m + n) : row[i] = IF i <= m THEN s[i] ELSE t[i - m]
    BY ConcatProperties
  <2> HIDE DEF row, m, n
  <2>2. ASSUME NEW i \in 1..n PROVE row[m + i] = t[i]
    <3>1. m + i \in 1..(m + n) /\ ~ (m + i <= m) /\ m + i - m = i
      BY <2>1
    <3> QED
      BY <2>1, <3>1
  <2>3. ASSUME NEW i \in 1..m PROVE row[i] = s[i]
    <3>1. i \in 1..(m + n) /\ i <= m
      BY <2>1
    <3> QED
      BY <2>1, <3>1
  <2> QED
    BY <2>1, <2>2, <2>3
<1>2. PICK f : WayTo(s, f, m) /\ Told(s) = f[m]
  BY <1>1, ToldIsWay
<1>3. PICK g : WayTo(t, g, n) /\ Told(t) = g[n]
  BY <1>1, ToldIsWay
<1>4. PICK h : WayTo(row, h, m + n) /\ Told(row) = h[m + n]
  <2>1. Len(row) \in Nat /\ Len(row) = m + n
    BY <1>1
  <2> HIDE DEF row, m, n
  <2>2. \E h : WayTo(row, h, Len(row)) /\ Told(row) = h[Len(row)]
    BY <2>1, ToldIsWay
  <2> QED
    BY <2>1, <2>2
<1>5. f[m] = h[m]
  <2> HIDE DEF row, m, n
  <2> DEFINE all == m + n
  <2>1. all \in Nat /\ m \in Nat /\ m <= all /\ Alike(s, row, m)
    BY <1>1 DEF Alike
  <2>2. WayTo(row, h, all)
    BY <1>4
  <2> HIDE DEF all
  <2> QED
    BY <1>2, <2>1, <2>2, WaysAlike
<1>6. f[m] \in Seq(U) /\ \A k \in 0..n : g[k] \in Seq(U)
  <2>1. m \in 0..m
    BY <1>1
  <2> QED
    BY <2>1, <1>2, <1>3, WayHas
<1> DEFINE T == {k \in 0..n : h[m + k] = f[m] \o g[k]}
<1>7. 0 \in T
  <2>1. g[0] = <<>>
    BY <1>1, <1>3, WayOn
  <2>2. f[m] \o <<>> = f[m]
    BY <1>6, ConcatEmptySeq
  <2>3. m + 0 = m /\ 0 \in 0..n
    BY <1>1
  <2> QED
    BY <2>1, <2>2, <2>3, <1>5
<1>8. ASSUME NEW k \in T, k < n PROVE k + 1 \in T
  <2>0. k \in 0..n /\ h[m + k] = f[m] \o g[k] /\ k + 1 \in 1..n /\ k + 1 \in 0..n /\ t[k + 1] \in S
    <3>1. k \in 0..n /\ h[m + k] = f[m] \o g[k]
      OBVIOUS
    <3>2. k + 1 \in 1..n /\ k + 1 \in 0..n
      BY <3>1, <1>1, <1>8
    <3> QED
      BY <3>1, <3>2
  <2>1. g[k + 1] = IF t[k + 1] = 0 THEN g[k] ELSE Append(g[k], t[k + 1])
    BY <1>1, <1>3, <1>8, WayOn
  <2>2. m + k \in 0..(m + n) /\ m + k < m + n /\ m + k + 1 = m + (k + 1)
    BY <1>1, <1>8
  <2>3. h[m + (k + 1)] = IF row[m + (k + 1)] = 0 THEN h[m + k]
                         ELSE Append(h[m + k], row[m + (k + 1)])
    <3> HIDE DEF row
    <3>1. m + n \in Nat
      BY <1>1
    <3> QED
      BY <1>4, <2>2, <3>1, WayOn
  <2>4. row[m + (k + 1)] = t[k + 1]
    BY <1>1, <2>0
  <2>5. CASE t[k + 1] = 0
    BY <2>0, <2>1, <2>3, <2>4, <2>5
  <2>6. CASE t[k + 1] # 0
    <3> DEFINE a == f[m]
               b == g[k]
               x == t[k + 1]
    <3>1. a \in Seq(U) /\ b \in Seq(U) /\ x \in U
      BY <1>6, <2>0, <2>6
    <3>2. g[k + 1] = Append(b, x) /\ h[m + (k + 1)] = Append(a \o b, x)
      BY <2>0, <2>1, <2>3, <2>4, <2>6
    <3> HIDE DEF a, b, x, U
    <3>3. a \o b \in Seq(U) /\ <<x>> \in Seq(U)
      BY <3>1, ConcatProperties
    <3>4. Append(a \o b, x) = (a \o b) \o <<x>> /\ Append(b, x) = b \o <<x>>
      BY <3>1, <3>3, AppendIsConcat
    <3>5. (a \o b) \o <<x>> = a \o (b \o <<x>>)
      BY <3>1, <3>3, ConcatAssociative
    <3>6. h[m + (k + 1)] = a \o g[k + 1]
      BY <3>2, <3>4, <3>5
    <3> QED
      BY <3>6, <2>0 DEF a
  <2> QED
    BY <2>5, <2>6
<1>9. T = 0..n
  <2>1. T \in SUBSET (0..n)
    OBVIOUS
  <2> HIDE DEF T
  <2> QED
    BY <1>1, <1>7, <1>8, <2>1, EachUpTo
<1>10. h[m + n] = f[m] \o g[n]
  <2>1. n \in T
    <3>1. n \in 0..n
      BY <1>1
    <3> HIDE DEF T, n
    <3> QED
      BY <3>1, <1>9
  <2> QED
    BY <2>1
<1> QED
  BY <1>2, <1>3, <1>4, <1>10

----------------------------------------------------------------------------
(* What a line says, of whatever bytes and lengths.                        *)

TraceBytes == [line : 1..LastLine, part : Part]
Lengths == Seq(1..Longest)
Known(t, n) == \A p \in DOMAIN t : t[p].line \in DOMAIN n

Tabs(line) == {i \in DOMAIN line : line[i].part = "tab"}
FirstTab(line) == CHOOSE i \in Tabs(line) : \A j \in Tabs(line) : i <= j
Words(line) == SubSeq(line, FirstTab(line) + 1, Len(line) - 1)
SaysIn(line, n) ==
    IF /\ Tabs(line) # {}
       /\ Words(line) # <<>>
       /\ Words(line) = [i \in 1..n[Words(line)[1].line] |-> Byte(Words(line)[1].line, "said")]
    THEN Words(line)[1].line ELSE 0
SaysAt(t, n, i) == IF i \in Ends(t) THEN SaysIn(SubSeq(t, From(t, i), i), n) ELSE 0

LEMMA EventInSays == \A line : EventIn(line) = SaysIn(line, lines)
<1> SUFFICES ASSUME NEW line PROVE EventIn(line) = SaysIn(line, lines)
  OBVIOUS
<1> QED
  BY DEF EventIn, SaysIn, Words, FirstTab, Tabs

LEMMA EventAtSays == \A t, i : EventAt(t, i) = SaysAt(t, lines, i)
  BY EventInSays, Zenon DEF EventAt, SaysAt

\* The words of a line are what stands between its first tab and its last byte.
LEMMA WordsAre ==
    ASSUME NEW line \in Seq(TraceBytes), Tabs(line) # {}
    PROVE  /\ FirstTab(line) \in 1..Len(line)
           /\ Words(line) \in Seq(TraceBytes)
           /\ Len(Words(line)) = IF FirstTab(line) < Len(line) THEN Len(line) - 1 - FirstTab(line) ELSE 0
           /\ \A i \in 1..(Len(line) - 1 - FirstTab(line)) :
                 FirstTab(line) + i \in DOMAIN line /\ Words(line)[i] = line[FirstTab(line) + i]
<1> DEFINE tabs == Tabs(line)
           tab == FirstTab(line)
           last == Len(line) - 1
<1>1. /\ tabs # {} /\ tabs \in SUBSET Nat /\ tabs \subseteq DOMAIN line
      /\ DOMAIN line = 1..Len(line) /\ Len(line) \in Nat
  BY DEF Tabs
<1>2. \E m \in tabs : \A k \in tabs : m <= k
  <2> HIDE DEF tabs
  <2> QED
    BY <1>1, LeastNumber
<1>3. tab \in tabs
  BY <1>2, Zenon DEF FirstTab
<1>4. tab \in 1..Len(line)
  BY <1>1, <1>3
<1>5. tab + 1 \in Int /\ last \in Int /\ tab \in Int
  BY <1>1, <1>4
<1>6. \A i \in (tab + 1)..last : i \in 1..Len(line)
  BY <1>1, <1>4
<1>7. \A i \in (tab + 1)..last : line[i] \in TraceBytes
  BY <1>6
<1>8. /\ SubSeq(line, tab + 1, last) \in Seq(TraceBytes)
      /\ Len(SubSeq(line, tab + 1, last)) = IF tab + 1 <= last THEN last - (tab + 1) + 1 ELSE 0
      /\ \A i \in 1..(last - (tab + 1) + 1) : SubSeq(line, tab + 1, last)[i] = line[tab + 1 + i - 1]
  <2> HIDE DEF tab, last
  <2> QED
    BY <1>5, <1>7, SubSeqProperties
<1>9. ASSUME NEW i \in 1..(last - tab)
      PROVE  tab + i \in DOMAIN line /\ Words(line)[i] = line[tab + i]
  <2> HIDE DEF tab, last
  <2>1. i \in 1..(last - (tab + 1) + 1) /\ tab + 1 + i - 1 = tab + i /\ tab + i \in (tab + 1)..last
    BY <1>5
  <2>2. SubSeq(line, tab + 1, last)[i] = line[tab + i]
    BY <1>8, <2>1
  <2> QED
    BY <2>1, <2>2, <1>1, <1>6 DEF Words, tab, last
<1>10. Len(Words(line)) = IF tab < Len(line) THEN Len(line) - 1 - tab ELSE 0
  <2>1. Len(Words(line)) = IF tab + 1 <= last THEN last - (tab + 1) + 1 ELSE 0
    BY <1>8 DEF Words
  <2>2. last = Len(line) - 1
    OBVIOUS
  <2> HIDE DEF tab, last
  <2> QED
    BY <2>1, <2>2, <1>1, <1>4
<1>11. Words(line) \in Seq(TraceBytes)
  BY <1>8 DEF Words
<1> QED
  BY <1>4, <1>9, <1>10, <1>11

\* A line that says something holds the whole of it, before its last byte.
LEMMA SaysIs ==
    ASSUME NEW line \in Seq(TraceBytes), NEW n \in Lengths, Known(line, n), SaysIn(line, n) # 0
    PROVE  /\ SaysIn(line, n) \in 1..LastLine
           /\ SaysIn(line, n) \in DOMAIN n
           /\ \E p \in 1..Len(line) :
                 /\ p + n[SaysIn(line, n)] < Len(line)
                 /\ \A j \in 1..n[SaysIn(line, n)] : line[p + j] = Byte(SaysIn(line, n), "said")
<1> DEFINE words == Words(line)
           l == words[1].line
           tab == FirstTab(line)
<1>1. /\ Tabs(line) # {}
      /\ words # <<>>
      /\ words = [i \in 1..n[l] |-> Byte(l, "said")]
      /\ SaysIn(line, n) = l
  BY Zenon DEF SaysIn
<1>2. /\ tab \in 1..Len(line) /\ words \in Seq(TraceBytes) /\ Len(line) \in Nat
      /\ Len(words) = IF tab < Len(line) THEN Len(line) - 1 - tab ELSE 0
      /\ \A i \in 1..(Len(line) - 1 - tab) : tab + i \in DOMAIN line /\ words[i] = line[tab + i]
  BY <1>1, WordsAre
<1>3. Len(words) \in Nat /\ Len(words) # 0 /\ DOMAIN words = 1..Len(words)
  <2> HIDE DEF words
  <2> QED
    BY <1>1, <1>2
<1>4. tab < Len(line) /\ Len(words) = Len(line) - 1 - tab /\ 1 \in 1..(Len(line) - 1 - tab)
  <2> HIDE DEF words, tab
  <2> QED
    BY <1>2, <1>3
<1>5. tab + 1 \in DOMAIN line /\ words[1] = line[tab + 1]
  <2> HIDE DEF words, tab
  <2> QED
    BY <1>2, <1>4
<1>6. l \in 1..LastLine /\ l \in DOMAIN n
  <2>1. words[1] \in TraceBytes
    BY <1>2, <1>5
  <2>2. line[tab + 1].line \in DOMAIN n
    BY <1>5 DEF Known
  <2> HIDE DEF words, tab
  <2> QED
    BY <2>1, <2>2, <1>5 DEF TraceBytes
<1>7. n[l] \in Nat
  BY <1>6, TracesAssumption DEF Lengths
<1>8. Len(words) = n[l]
  <2>1. DOMAIN words = 1..n[l]
    <3> HIDE DEF words, l
    <3> QED
      BY <1>1
  <2> HIDE DEF words, l
  <2> QED
    BY <2>1, <1>3, <1>7, SameInterval
<1>9. ASSUME NEW j \in 1..n[l] PROVE line[tab + j] = Byte(l, "said")
  <2> HIDE DEF words, l, tab
  <2>1. words[j] = Byte(l, "said")
    BY <1>1
  <2> QED
    BY <2>1, <1>2, <1>4, <1>8
<1>10. tab + n[l] < Len(line)
  <2> HIDE DEF words, l, tab
  <2> QED
    BY <1>2, <1>4, <1>8
<1> HIDE DEF words, l, tab
<1> QED
  BY <1>1, <1>2, <1>6, <1>9, <1>10

\* What a line says stays what it says where more lines are known.
LEMMA SaysStill ==
    ASSUME NEW line \in Seq(TraceBytes), NEW n \in Lengths, NEW m, Known(line, n),
           \A l \in DOMAIN n : m[l] = n[l]
    PROVE  SaysIn(line, m) = SaysIn(line, n)
<1> DEFINE words == Words(line)
           l == words[1].line
<1>1. CASE Tabs(line) = {}
  BY <1>1 DEF SaysIn
<1>2. CASE words = <<>>
  BY <1>2 DEF SaysIn
<1>3. CASE Tabs(line) # {} /\ words # <<>>
  <2> DEFINE tab == FirstTab(line)
  <2>1. /\ words \in Seq(TraceBytes) /\ Len(line) \in Nat /\ tab \in 1..Len(line)
        /\ Len(words) = IF tab < Len(line) THEN Len(line) - 1 - tab ELSE 0
        /\ \A i \in 1..(Len(line) - 1 - tab) : tab + i \in DOMAIN line /\ words[i] = line[tab + i]
    BY <1>3, WordsAre
  <2>2. tab + 1 \in DOMAIN line /\ words[1] = line[tab + 1]
    <3>1. words # <<>>
      BY <1>3
    <3> HIDE DEF words, tab
    <3>2. Len(words) \in Nat /\ Len(words) # 0
      BY <2>1, <3>1
    <3> QED
      BY <2>1, <3>2
  <2>3. l \in DOMAIN n
    BY <2>2 DEF Known
  <2>4. m[l] = n[l]
    BY <2>3
  <2> QED
    BY <2>4 DEF SaysIn
<1> QED
  BY <1>1, <1>2, <1>3

\* A line begins after the last end before.
LEMMA FromIs ==
    ASSUME NEW t, Len(t) \in Nat, DOMAIN t = 1..Len(t), NEW i \in DOMAIN t
    PROVE  /\ From(t, i) \in 1..i
           /\ From(t, i) = 1 \/ From(t, i) - 1 \in Ends(t)
           /\ \A j \in Ends(t) : j < i => j < From(t, i)
<1> DEFINE before == {j \in Ends(t) : j < i}
<1>1. CASE before = {}
  <2>1. From(t, i) = 1
    BY <1>1 DEF From
  <2>2. \A j \in Ends(t) : ~ (j < i)
    BY <1>1
  <2> QED
    BY <2>1, <2>2
<1>2. CASE before # {}
  <2>1. before \in SUBSET (1..Len(t))
    BY DEF Ends
  <2>2. \E j \in before : \A k \in before : k <= j
    <3> HIDE DEF before
    <3> QED
      BY <1>2, <2>1, GreatestOf
  <2>3. PICK last \in before : /\ \A k \in before : k <= last
                               /\ From(t, i) = 1 + last
    <3> DEFINE last == CHOOSE j \in before : \A k \in before : k <= j
    <3>1. last \in before /\ \A k \in before : k <= last
      BY <2>2
    <3>2. From(t, i) = 1 + last
      BY <1>2 DEF From
    <3> HIDE DEF last
    <3> QED
      BY <3>1, <3>2
  <2>4. last \in 1..Len(t) /\ last \in Ends(t) /\ last < i
    BY <2>1, <2>3
  <2>5. ASSUME NEW j \in Ends(t), j < i PROVE j < 1 + last
    <3>1. j \in before
      BY <2>5
    <3>2. j <= last /\ j \in 1..Len(t)
      BY <2>1, <2>3, <3>1
    <3> QED
      BY <3>2, <2>4
  <2> QED
    BY <2>3, <2>4, <2>5
<1> QED
  BY <1>1, <1>2

\* And there is one such place.
LEMMA FromIsThere ==
    ASSUME NEW t, Len(t) \in Nat, DOMAIN t = 1..Len(t), NEW i \in DOMAIN t, NEW f \in 1..i,
           f = 1 \/ f - 1 \in Ends(t), \A j \in Ends(t) : j < i => j < f
    PROVE  From(t, i) = f
<1>1. /\ From(t, i) \in 1..i
      /\ From(t, i) = 1 \/ From(t, i) - 1 \in Ends(t)
      /\ \A j \in Ends(t) : j < i => j < From(t, i)
  BY FromIs
<1>2. From(t, i) <= f
  <2> SUFFICES ASSUME From(t, i) # 1 PROVE From(t, i) <= f
    BY <1>1
  <2>1. From(t, i) - 1 < f
    BY <1>1
  <2> QED
    BY <2>1, <1>1
<1>3. f <= From(t, i)
  <2> SUFFICES ASSUME f # 1 PROVE f <= From(t, i)
    BY <1>1
  <2>1. f - 1 < From(t, i)
    BY <1>1
  <2> QED
    BY <2>1, <1>1
<1> QED
  BY <1>1, <1>2, <1>3

\* Where a line says something, its words are in one piece before its end.
LEMMA SaysAtIs ==
    ASSUME NEW t \in Seq(TraceBytes), NEW n \in Lengths, Known(t, n), NEW i \in DOMAIN t,
           SaysAt(t, n, i) # 0
    PROVE  /\ SaysAt(t, n, i) \in 1..LastLine
           /\ SaysAt(t, n, i) \in DOMAIN n
           /\ i \in Ends(t)
           /\ \E p \in 0..Len(t) :
                 /\ From(t, i) <= p
                 /\ p + n[SaysAt(t, n, i)] < i
                 /\ \A j \in 1..n[SaysAt(t, n, i)] :
                       p + j \in DOMAIN t /\ t[p + j] = Byte(SaysAt(t, n, i), "said")
<1> DEFINE f == From(t, i)
           line == SubSeq(t, f, i)
           l == SaysAt(t, n, i)
<1>1. i \in Ends(t) /\ l = SaysIn(line, n)
  BY DEF SaysAt
<1>2. /\ Len(t) \in Nat /\ DOMAIN t = 1..Len(t) /\ i \in 1..Len(t)
      /\ f \in 1..i
  <2>1. Len(t) \in Nat /\ DOMAIN t = 1..Len(t)
    OBVIOUS
  <2> QED
    BY <2>1, FromIs
<1>3. /\ line \in Seq(TraceBytes) /\ Len(line) = i - f + 1
      /\ \A k \in 1..(i - f + 1) : f + k - 1 \in DOMAIN t /\ line[k] = t[f + k - 1]
  <2> HIDE DEF f
  <2>1. \A k \in f..i : t[k] \in TraceBytes
    <3>1. \A k \in f..i : k \in 1..Len(t)
      BY <1>2
    <3> QED
      BY <3>1
  <2>2. f \in Int /\ i \in Int /\ f <= i
    BY <1>2
  <2>3. /\ line \in Seq(TraceBytes) /\ Len(line) = IF f <= i THEN i - f + 1 ELSE 0
        /\ \A k \in 1..(i - f + 1) : line[k] = t[f + k - 1]
    BY <2>1, <2>2, SubSeqProperties
  <2>4. \A k \in 1..(i - f + 1) : f + k - 1 \in 1..Len(t)
    BY <1>2
  <2> QED
    BY <1>2, <2>2, <2>3, <2>4
<1>4. Known(line, n)
  <2> SUFFICES ASSUME NEW p \in DOMAIN line PROVE line[p].line \in DOMAIN n
    BY DEF Known
  <2>1. p \in 1..(i - f + 1)
    <3> HIDE DEF line, f
    <3> QED
      BY <1>3
  <2>2. f + p - 1 \in DOMAIN t /\ line[p] = t[f + p - 1]
    <3> HIDE DEF line, f
    <3> QED
      BY <1>3, <2>1
  <2>3. t[f + p - 1].line \in DOMAIN n
    BY <2>2 DEF Known
  <2> QED
    BY <2>2, <2>3
<1>5. SaysIn(line, n) # 0
  BY <1>1
<1>6. /\ l \in 1..LastLine /\ l \in DOMAIN n
      /\ \E p \in 1..Len(line) : /\ p + n[l] < Len(line)
                                 /\ \A j \in 1..n[l] : line[p + j] = Byte(l, "said")
  <2> HIDE DEF line, l
  <2> QED
    BY <1>1, <1>3, <1>4, <1>5, SaysIs
<1>7. PICK p \in 1..Len(line) : /\ p + n[l] < Len(line)
                                /\ \A j \in 1..n[l] : line[p + j] = Byte(l, "said")
  BY <1>6
<1>8. n[l] \in Nat
  BY <1>6, TracesAssumption DEF Lengths
<1> DEFINE q == f + p - 1
<1> HIDE DEF line, l, f
<1>9. q \in 0..Len(t) /\ f <= q /\ q + n[l] < i
  BY <1>2, <1>3, <1>7, <1>8
<1>10. ASSUME NEW j \in 1..n[l] PROVE q + j \in DOMAIN t /\ t[q + j] = Byte(l, "said")
  <2>1. p + j \in 1..(i - f + 1) /\ f + (p + j) - 1 = q + j
    BY <1>2, <1>3, <1>7, <1>8
  <2>2. line[p + j] = Byte(l, "said")
    BY <1>7
  <2> HIDE DEF q
  <2> QED
    BY <1>3, <2>1, <2>2
<1>11. \E r \in 0..Len(t) : /\ f <= r /\ r + n[l] < i
                            /\ \A j \in 1..n[l] : r + j \in DOMAIN t /\ t[r + j] = Byte(l, "said")
  <2> HIDE DEF q
  <2> QED
    BY <1>9, <1>10
<1> QED
  BY <1>1, <1>6, <1>11 DEF l, f

LEMMA SaysAtSome ==
    ASSUME NEW t \in Seq(TraceBytes), NEW n \in Lengths, Known(t, n), NEW i \in DOMAIN t
    PROVE  SaysAt(t, n, i) \in 0..LastLine
<1>1. CASE SaysAt(t, n, i) = 0
  BY <1>1, TracesAssumption
<1>2. CASE SaysAt(t, n, i) # 0
  <2>1. SaysAt(t, n, i) \in 1..LastLine
    BY <1>2, SaysAtIs
  <2> QED
    BY <2>1, TracesAssumption
<1> QED
  BY <1>1, <1>2

\* What a chunk says, and what of a file fits up to a place.
EventsOf(c, n) == Told([i \in DOMAIN c |-> SaysAt(c, n, i)])
FitAt(t, n, i) == IF i - From(t, i) < AtMost THEN SaysAt(t, n, i) ELSE 0
FitTo(t, n, b) == Told([i \in 1..b |-> FitAt(t, n, i)])
Apart(t, n) ==
    \A p, q \in DOMAIN t : t[p] = t[q] /\ t[p].part = "said" => q - p < n[t[p].line]

LEMMA EventsAre == \A c : Events(c) = EventsOf(c, lines)
  BY EventAtSays, Zenon DEF Events, EventsOf

LEMMA FittingToIs == \A b : FittingTo(b) = FitTo(trace, lines, b)
<1>1. \A i : FittingAt(i) = FitAt(trace, lines, i)
  BY EventAtSays, Zenon DEF FittingAt, FitAt
<1> QED
  BY <1>1, Zenon DEF FittingTo, FitTo

LEMMA EventsRow ==
    ASSUME NEW c \in Seq(TraceBytes), NEW n \in Lengths, Known(c, n)
    PROVE  /\ [i \in DOMAIN c |-> SaysAt(c, n, i)] \in Seq(0..LastLine)
           /\ Len([i \in DOMAIN c |-> SaysAt(c, n, i)]) = Len(c)
           /\ DOMAIN [i \in DOMAIN c |-> SaysAt(c, n, i)] = DOMAIN c
<1> DEFINE row == [i \in DOMAIN c |-> SaysAt(c, n, i)]
<1>1. DOMAIN c = 1..Len(c) /\ Len(c) \in Nat
  OBVIOUS
<1>2. row \in [1..Len(c) -> 0..LastLine]
  BY <1>1, SaysAtSome
<1> HIDE DEF row
<1>3. row \in Seq(0..LastLine) /\ Len(row) = Len(c) /\ DOMAIN row = 1..Len(c)
  BY <1>1, <1>2, RowOf
<1> QED
  BY <1>1, <1>3 DEF row

\* An event is of a line that ends in the chunk.
LEMMA EventsHave ==
    ASSUME NEW c \in Seq(TraceBytes), NEW n \in Lengths, Known(c, n)
    PROVE  /\ EventsOf(c, n) \in Seq(1..LastLine)
           /\ \A q \in DOMAIN EventsOf(c, n) :
                 \E i \in DOMAIN c : SaysAt(c, n, i) = EventsOf(c, n)[q]
<1> DEFINE row == [i \in DOMAIN c |-> SaysAt(c, n, i)]
<1>1. row \in Seq(0..LastLine) /\ DOMAIN row = DOMAIN c
  BY EventsRow
<1>2. \A i \in DOMAIN c : row[i] = SaysAt(c, n, i)
  OBVIOUS
<1>3. EventsOf(c, n) = Told(row)
  BY DEF EventsOf
<1> HIDE DEF row
<1>4. /\ Told(row) \in Seq((0..LastLine) \ {0})
      /\ \A q \in DOMAIN Told(row) : \E i \in DOMAIN row : row[i] = Told(row)[q]
  BY <1>1, ToldHas
<1>5. (0..LastLine) \ {0} = 1..LastLine
  BY TracesAssumption
<1> QED
  BY <1>1, <1>2, <1>3, <1>4, <1>5

\* And where what is said is said once, so is each event.
LEMMA EventsOnce ==
    ASSUME NEW c \in Seq(TraceBytes), NEW n \in Lengths, Known(c, n), Apart(c, n)
    PROVE  \A p, q \in DOMAIN EventsOf(c, n) : EventsOf(c, n)[p] = EventsOf(c, n)[q] => p = q
<1> DEFINE row == [i \in DOMAIN c |-> SaysAt(c, n, i)]
<1>1. row \in Seq(0..LastLine) /\ DOMAIN row = DOMAIN c
  BY EventsRow
<1>2. ASSUME NEW i \in DOMAIN c, NEW j \in DOMAIN c, i < j,
             SaysAt(c, n, i) = SaysAt(c, n, j), SaysAt(c, n, i) # 0
      PROVE  FALSE
  <2> DEFINE l == SaysAt(c, n, i)
  <2>1. /\ l \in DOMAIN n /\ i \in Ends(c)
        /\ \E p \in 0..Len(c) :
              /\ From(c, i) <= p /\ p + n[l] < i
              /\ \A k \in 1..n[l] : p + k \in DOMAIN c /\ c[p + k] = Byte(l, "said")
    BY <1>2, SaysAtIs
  <2>2. \E q \in 0..Len(c) :
           /\ From(c, j) <= q /\ q + n[l] < j
           /\ \A k \in 1..n[l] : q + k \in DOMAIN c /\ c[q + k] = Byte(l, "said")
    <3>1. SaysAt(c, n, j) # 0
      BY <1>2
    <3>2. \E q \in 0..Len(c) :
           /\ From(c, j) <= q /\ q + n[SaysAt(c, n, j)] < j
           /\ \A k \in 1..n[SaysAt(c, n, j)] :
                 q + k \in DOMAIN c /\ c[q + k] = Byte(SaysAt(c, n, j), "said")
      BY <3>1, SaysAtIs
    <3> QED
      BY <3>2, <1>2
  <2> HIDE DEF l
  <2>3. PICK p \in 0..Len(c) :
           /\ From(c, i) <= p /\ p + n[l] < i
           /\ \A k \in 1..n[l] : p + k \in DOMAIN c /\ c[p + k] = Byte(l, "said")
    BY <2>1
  <2>4. PICK q \in 0..Len(c) :
           /\ From(c, j) <= q /\ q + n[l] < j
           /\ \A k \in 1..n[l] : q + k \in DOMAIN c /\ c[q + k] = Byte(l, "said")
    BY <2>2
  <2>5. n[l] \in Nat /\ 1 \in 1..n[l]
    <3>1. n[l] \in 1..Longest /\ Longest \in Nat
      BY <2>1, TracesAssumption DEF Lengths
    <3> QED
      BY <3>1
  <2>6. /\ p + 1 \in DOMAIN c /\ c[p + 1] = Byte(l, "said")
        /\ q + 1 \in DOMAIN c /\ c[q + 1] = Byte(l, "said")
    BY <2>3, <2>4, <2>5
  <2>7. (q + 1) - (p + 1) < n[l]
    <3>1. Byte(l, "said").part = "said" /\ Byte(l, "said").line = l
      BY DEF Byte
    <3> QED
      BY <2>6, <3>1 DEF Apart
  <2>8. i < From(c, j) /\ From(c, j) \in Nat
    <3>1. /\ From(c, j) \in 1..j
          /\ \A k \in Ends(c) : k < j => k < From(c, j)
      <4>1. Len(c) \in Nat /\ DOMAIN c = 1..Len(c)
        OBVIOUS
      <4> QED
        BY <4>1, FromIs
    <3> QED
      BY <3>1, <2>1, <1>2
  <2>9. i \in Nat
    OBVIOUS
  <2> QED
    BY <2>3, <2>4, <2>5, <2>7, <2>8, <2>9
<1>3. ASSUME NEW i \in DOMAIN row, NEW j \in DOMAIN row, row[i] = row[j], row[i] # 0
      PROVE  i = j
  <2>1. /\ i \in DOMAIN c /\ j \in DOMAIN c
        /\ SaysAt(c, n, i) = SaysAt(c, n, j) /\ SaysAt(c, n, i) # 0
        /\ SaysAt(c, n, j) # 0
    BY <1>1, <1>3
  <2>2. ~ (i < j) /\ ~ (j < i)
    BY <1>2, <2>1
  <2>3. i \in 1..Len(c) /\ j \in 1..Len(c)
    BY <2>1
  <2> QED
    BY <2>2, <2>3
<1>4. EventsOf(c, n) = Told(row)
  BY DEF EventsOf
<1> HIDE DEF row
<1>5. \A p, q \in DOMAIN Told(row) : Told(row)[p] = Told(row)[q] => p = q
  BY <1>1, <1>3, ToldOnce
<1> QED
  BY <1>4, <1>5

\* A chunk is the next bytes, as many as one read takes.
ChunkOf(t, a) == SubSeq(t, a + 1, IF a + AtMost < Len(t) THEN a + AtMost ELSE Len(t))

LEMMA ChunkIsOf == \A a : Chunk(a) = ChunkOf(trace, a)
  BY DEF Chunk, ChunkOf

LEMMA ChunkIs ==
    ASSUME NEW t \in Seq(TraceBytes), NEW a \in 0..Len(t)
    PROVE  /\ ChunkOf(t, a) \in Seq(TraceBytes)
           /\ Len(ChunkOf(t, a)) <= AtMost
           /\ a + Len(ChunkOf(t, a)) <= Len(t)
           /\ Len(ChunkOf(t, a)) = AtMost \/ a + Len(ChunkOf(t, a)) = Len(t)
           /\ \A i \in 1..Len(ChunkOf(t, a)) : a + i \in DOMAIN t /\ ChunkOf(t, a)[i] = t[a + i]
           /\ Len(ChunkOf(t, a)) \in Nat
           /\ DOMAIN ChunkOf(t, a) = 1..Len(ChunkOf(t, a))
<1> DEFINE last == IF a + AtMost < Len(t) THEN a + AtMost ELSE Len(t)
           c == SubSeq(t, a + 1, last)
<1>0. DOMAIN t = 1..Len(t)
  OBVIOUS
<1>1. Len(t) \in Nat /\ a \in Nat /\ a <= Len(t) /\ AtMost \in Nat
  BY TracesAssumption
<1>2. last \in Nat /\ a <= last /\ last <= Len(t) /\ last <= a + AtMost /\ (last = Len(t) \/ last = a + AtMost)
  BY <1>1
<1>3. ChunkOf(t, a) = c
  BY DEF ChunkOf
<1> HIDE DEF last
<1>4. \A i \in (a + 1)..last : t[i] \in TraceBytes
  <2>1. \A i \in (a + 1)..last : i \in 1..Len(t)
    BY <1>1, <1>2
  <2> QED
    BY <2>1
<1>5. /\ c \in Seq(TraceBytes)
      /\ Len(c) = IF a + 1 <= last THEN last - (a + 1) + 1 ELSE 0
      /\ \A i \in 1..(last - (a + 1) + 1) : c[i] = t[a + 1 + i - 1]
  <2>1. a + 1 \in Int /\ last \in Int
    BY <1>1, <1>2
  <2> QED
    BY <1>4, <2>1, SubSeqProperties
<1>6. Len(c) = last - a
  <2> HIDE DEF c
  <2> QED
    BY <1>1, <1>2, <1>5
<1>7. ASSUME NEW i \in 1..Len(c) PROVE a + i \in DOMAIN t /\ c[i] = t[a + i]
  <2> HIDE DEF c
  <2>1. i \in 1..(last - (a + 1) + 1) /\ a + 1 + i - 1 = a + i /\ a + i \in 1..Len(t)
    BY <1>1, <1>2, <1>6
  <2>2. c[i] = t[a + 1 + i - 1]
    BY <1>5, <2>1
  <2> QED
    BY <1>0, <2>1, <2>2
<1>8. DOMAIN c = 1..Len(c)
  <2> HIDE DEF c
  <2> QED
    BY <1>5
<1> HIDE DEF c
<1> QED
  BY <1>1, <1>2, <1>3, <1>5, <1>6, <1>7, <1>8

LEMMA ChunkKnown ==
    ASSUME NEW t \in Seq(TraceBytes), NEW n, Known(t, n), NEW a \in 0..Len(t)
    PROVE  Known(ChunkOf(t, a), n)
<1> DEFINE c == ChunkOf(t, a)
<1>1. \A i \in DOMAIN c : a + i \in DOMAIN t /\ c[i] = t[a + i]
  BY ChunkIs
<1> HIDE DEF c
<1>2. ASSUME NEW i \in DOMAIN c PROVE c[i].line \in DOMAIN n
  BY <1>1 DEF Known
<1> QED
  BY <1>2 DEF Known, c

LEMMA ChunkApart ==
    ASSUME NEW t \in Seq(TraceBytes), NEW n, Apart(t, n), NEW a \in 0..Len(t)
    PROVE  Apart(ChunkOf(t, a), n)
<1> DEFINE c == ChunkOf(t, a)
<1>1. /\ \A i \in DOMAIN c : a + i \in DOMAIN t /\ c[i] = t[a + i]
      /\ DOMAIN c = 1..Len(c) /\ Len(c) \in Nat
  BY ChunkIs
<1> HIDE DEF c
<1>2. ASSUME NEW p \in DOMAIN c, NEW q \in DOMAIN c, c[p] = c[q], c[p].part = "said"
      PROVE  q - p < n[c[p].line]
  <2>1. a + p \in DOMAIN t /\ a + q \in DOMAIN t /\ t[a + p] = c[p] /\ t[a + q] = c[q]
    BY <1>1
  <2>2. (a + q) - (a + p) < n[c[p].line]
    BY <1>2, <2>1 DEF Apart
  <2>3. (a + q) - (a + p) = q - p
    BY <1>1
  <2> QED
    BY <2>2, <2>3
<1> QED
  BY <1>2 DEF Apart, c

\* Where it starts at a line, it says what the file says there, and all of that fits.
LEMMA ChunkFits ==
    ASSUME NEW t \in Seq(TraceBytes), NEW n, NEW a \in 0..Len(t), a = 0 \/ a \in Ends(t),
           NEW i \in DOMAIN ChunkOf(t, a)
    PROVE  FitAt(t, n, a + i) = SaysAt(ChunkOf(t, a), n, i)
<1> DEFINE c == ChunkOf(t, a)
           f == From(c, i)
<1>1. /\ c \in Seq(TraceBytes) /\ Len(c) \in Nat /\ DOMAIN c = 1..Len(c) /\ Len(c) <= AtMost
      /\ a + Len(c) <= Len(t)
      /\ \A j \in DOMAIN c : a + j \in DOMAIN t /\ c[j] = t[a + j]
  BY ChunkIs
<1>2. Len(t) \in Nat /\ DOMAIN t = 1..Len(t) /\ AtMost \in Nat /\ a \in Nat
  BY TracesAssumption
<1>3. i \in DOMAIN c
  OBVIOUS
<1> HIDE DEF c
<1>4. \A j \in DOMAIN c : j \in Ends(c) <=> a + j \in Ends(t)
  BY <1>1 DEF Ends
<1>5. /\ f \in 1..i /\ (f = 1 \/ f - 1 \in Ends(c))
      /\ \A j \in Ends(c) : j < i => j < f
  BY <1>1, <1>3, FromIs
<1> HIDE DEF f
<1>6. From(t, a + i) = a + f
  <2>1. a + i \in DOMAIN t /\ a + f \in 1..(a + i)
    BY <1>1, <1>2, <1>3, <1>5
  <2>2. a + f = 1 \/ (a + f) - 1 \in Ends(t)
    <3>1. CASE f = 1 /\ a = 0
      BY <3>1
    <3>2. CASE f = 1 /\ a # 0
      <4>1. (a + f) - 1 = a
        BY <3>2, <1>2
      <4> QED
        BY <3>2, <4>1
    <3>3. CASE f # 1
      <4>1. f - 1 \in Ends(c) /\ f - 1 \in DOMAIN c
        BY <3>3, <1>5 DEF Ends
      <4>2. a + (f - 1) \in Ends(t)
        BY <4>1, <1>4
      <4>3. a + (f - 1) = (a + f) - 1
        BY <1>2, <1>5
      <4> QED
        BY <4>2, <4>3
    <3> QED
      BY <3>1, <3>2, <3>3
  <2>3. ASSUME NEW j \in Ends(t), j < a + i PROVE j < a + f
    <3>1. j \in 1..Len(t)
      BY <1>2 DEF Ends
    <3>2. CASE j <= a
      BY <3>1, <3>2, <1>2, <1>5
    <3>3. CASE j > a
      <4>1. j - a \in DOMAIN c /\ a + (j - a) = j /\ j - a < i
        BY <3>1, <3>3, <2>3, <1>1, <1>2, <1>3
      <4>2. j - a \in Ends(c)
        BY <4>1, <1>4
      <4>3. j - a < f
        BY <4>1, <4>2, <1>5
      <4> QED
        BY <4>3, <3>1, <1>2, <1>5
    <3> QED
      BY <3>1, <3>2, <3>3, <1>2
  <2> DEFINE g == a + f
             k == a + i
  <2>4. /\ k \in DOMAIN t /\ g \in 1..k /\ (g = 1 \/ g - 1 \in Ends(t))
        /\ \A j \in Ends(t) : j < k => j < g
    <3>1. k \in DOMAIN t /\ g \in 1..k
      BY <2>1
    <3>2. g = 1 \/ g - 1 \in Ends(t)
      BY <2>2, Zenon
    <3>3. \A j \in Ends(t) : j < k => j < g
      BY <2>3
    <3> QED
      BY <3>1, <3>2, <3>3
  <2> HIDE DEF g, k
  <2>5. From(t, k) = g
    BY <2>4, <1>2, FromIsThere
  <2> QED
    BY <2>5 DEF g, k
<1>7. (a + i) - From(t, a + i) < AtMost
  <2> DEFINE from == From(t, a + i)
  <2>1. from = a + f
    BY <1>6
  <2> HIDE DEF from
  <2>2. (a + i) - from < AtMost
    BY <2>1, <1>1, <1>2, <1>3, <1>5
  <2> QED
    BY <2>2 DEF from
<1>8. SubSeq(t, a + f, a + i) = SubSeq(c, f, i)
  <2> DEFINE left == SubSeq(t, a + f, a + i)
             right == SubSeq(c, f, i)
  <2>1. /\ a + f \in Int /\ a + i \in Int /\ f \in Int /\ i \in Int /\ f <= i
    BY <1>1, <1>2, <1>3, <1>5
  <2>2. \A k \in (a + f)..(a + i) : k \in DOMAIN t
    BY <1>1, <1>2, <1>3, <1>5
  <2>3. \A k \in f..i : k \in DOMAIN c
    BY <1>1, <1>3, <1>5
  <2>4. /\ left \in Seq(TraceBytes)
        /\ Len(left) = IF a + f <= a + i THEN (a + i) - (a + f) + 1 ELSE 0
        /\ \A k \in 1..((a + i) - (a + f) + 1) : left[k] = t[(a + f) + k - 1]
    <3>1. \A k \in (a + f)..(a + i) : t[k] \in TraceBytes
      BY <2>2
    <3> QED
      BY <3>1, <2>1, SubSeqProperties
  <2>5. /\ right \in Seq(TraceBytes)
        /\ Len(right) = IF f <= i THEN i - f + 1 ELSE 0
        /\ \A k \in 1..(i - f + 1) : right[k] = c[f + k - 1]
    <3>1. \A k \in f..i : c[k] \in TraceBytes
      BY <2>3, <1>1
    <3> QED
      BY <3>1, <2>1, SubSeqProperties
  <2> HIDE DEF left, right
  <2>6. Len(left) = i - f + 1 /\ Len(right) = i - f + 1
    BY <2>1, <2>4, <2>5, <1>2
  <2>7. ASSUME NEW k \in 1..Len(left) PROVE left[k] = right[k]
    <3>1. /\ k \in 1..(i - f + 1) /\ k \in 1..((a + i) - (a + f) + 1)
          /\ (a + f) + k - 1 = a + (f + k - 1) /\ f + k - 1 \in f..i
      BY <2>1, <2>6, <1>2
    <3>2. left[k] = t[a + (f + k - 1)] /\ right[k] = c[f + k - 1]
      BY <2>4, <2>5, <3>1
    <3> QED
      BY <3>1, <3>2, <2>3, <1>1
  <2>8. left = right
    BY <2>4, <2>5, <2>6, <2>7, SeqEqual
  <2> QED
    BY <2>8 DEF left, right
<1>9. SaysAt(t, n, a + i) = SaysAt(c, n, i)
  <2>1. i \in Ends(c) <=> a + i \in Ends(t)
    BY <1>3, <1>4
  <2> QED
    BY <2>1, <1>6, <1>8 DEF SaysAt, f
<1>10. FitAt(t, n, a + i) = SaysAt(t, n, a + i)
  <2>1. \A k : k - From(t, k) < AtMost => FitAt(t, n, k) = SaysAt(t, n, k)
    BY DEF FitAt
  <2> QED
    BY <1>7, <2>1, Zenon
<1> QED
  BY <1>9, <1>10 DEF c

\* A row is told up to a place and then from there on.
Before(row, a) == [i \in 1..a |-> row[i]]
After(row, a, n) == [i \in 1..(n - a) |-> row[a + i]]

LEMMA ToldSplit ==
    ASSUME NEW S, NEW n \in Nat, NEW a \in 0..n, NEW row \in [1..n -> S]
    PROVE  /\ Before(row, a) \in Seq(S)
           /\ After(row, a, n) \in Seq(S)
           /\ Told(row) = Told(Before(row, a)) \o Told(After(row, a, n))
<1> DEFINE s == [i \in 1..a |-> row[i]]
           b == n - a
           t == [i \in 1..b |-> row[a + i]]
<1>1. a \in Nat /\ b \in Nat /\ a + b = n
  OBVIOUS
<1>2. s \in [1..a -> S] /\ t \in [1..b -> S]
  OBVIOUS
<1>3. /\ \A i \in 1..a : s[i] = row[i]
      /\ \A i \in 1..b : t[i] = row[a + i]
  OBVIOUS
<1> HIDE DEF s, t, b
<1>4. s \in Seq(S) /\ Len(s) = a /\ t \in Seq(S) /\ Len(t) = b
  BY <1>1, <1>2, RowOf
<1>5. row \in Seq(S) /\ Len(row) = n
  BY RowOf
<1> DEFINE u == s \o t
<1>6. /\ u \in Seq(S) /\ Len(u) = a + b
      /\ \A i \in 1..(a + b) : u[i] = IF i <= a THEN s[i] ELSE t[i - a]
  BY <1>4, ConcatProperties
<1> HIDE DEF u
<1>7. ASSUME NEW i \in 1..Len(row) PROVE row[i] = u[i]
  <2>1. i \in 1..(a + b)
    BY <1>1, <1>5
  <2>2. CASE i <= a
    <3>1. i \in 1..a
      BY <2>1, <2>2, <1>1
    <3> QED
      BY <3>1, <2>1, <2>2, <1>3, <1>6
  <2>3. CASE ~ (i <= a)
    <3>1. i - a \in 1..b /\ a + (i - a) = i
      BY <2>1, <2>3, <1>1
    <3>2. t[i - a] = row[i]
      BY <3>1, <1>3
    <3> QED
      BY <3>2, <2>1, <2>3, <1>6
  <2> QED
    BY <2>2, <2>3
<1>8. row = u
  <2>1. Len(row) = Len(u)
    BY <1>1, <1>5, <1>6
  <2> QED
    BY <2>1, <1>5, <1>6, <1>7, SeqEqual
<1>9. Told(u) = Told(s) \o Told(t)
  BY <1>4, ToldJoined DEF u
<1> QED
  BY <1>4, <1>8, <1>9 DEF s, t, b, Before, After

\* What of a file fits, up to a place and then from there on.
LEMMA FitSplit ==
    ASSUME NEW t \in Seq(TraceBytes), NEW n \in Lengths, Known(t, n), NEW b \in 0..Len(t), NEW a \in 0..b
    PROVE  /\ FitTo(t, n, a) \in Seq(1..LastLine)
           /\ FitTo(t, n, b) = FitTo(t, n, a) \o Told([i \in 1..(b - a) |-> FitAt(t, n, a + i)])
<1> DEFINE row == [i \in 1..b |-> FitAt(t, n, i)]
           S == 0..LastLine
<1>1. b \in Nat /\ \A i \in 1..b : i \in DOMAIN t
  OBVIOUS
<1>2. \A i \in 1..b : FitAt(t, n, i) \in S
  <2>1. 0 \in S
    BY TracesAssumption
  <2> HIDE DEF S
  <2>2. ASSUME NEW i \in 1..b PROVE FitAt(t, n, i) \in S
    <3>1. SaysAt(t, n, i) \in S
      BY <1>1, SaysAtSome DEF S
    <3> QED
      BY <2>1, <3>1 DEF FitAt
  <2> QED
    BY <2>2
<1>3. row \in [1..b -> S]
  BY <1>2
<1>4. /\ \A i \in 1..a : row[i] = FitAt(t, n, i)
      /\ \A i \in 1..(b - a) : row[a + i] = FitAt(t, n, a + i)
  <2>1. \A i \in 1..a : i \in 1..b
    BY <1>1
  <2>2. \A i \in 1..(b - a) : a + i \in 1..b
    BY <1>1
  <2> QED
    BY <2>1, <2>2
<1> HIDE DEF row
<1>5. /\ Before(row, a) = [i \in 1..a |-> FitAt(t, n, i)]
      /\ After(row, a, b) = [i \in 1..(b - a) |-> FitAt(t, n, a + i)]
  BY <1>4 DEF Before, After
<1>6. /\ Before(row, a) \in Seq(S)
      /\ Told(row) = Told(Before(row, a)) \o Told(After(row, a, b))
  <2> HIDE DEF S
  <2>1. b \in Nat
    BY <1>1
  <2>2. Before(row, a) \in Seq(S)
    BY <1>3, <2>1, ToldSplit
  <2>3. Told(row) = Told(Before(row, a)) \o Told(After(row, a, b))
    BY <1>3, <2>1, ToldSplit
  <2> QED
    BY <2>2, <2>3
<1>7. FitTo(t, n, b) = Told(row)
  BY DEF row, FitTo
<1>8. FitTo(t, n, a) = Told(Before(row, a))
  BY <1>5, Zenon DEF FitTo
<1>9. Told(Before(row, a)) \in Seq(S \ {0})
  <2> HIDE DEF S
  <2> QED
    BY <1>6, ToldHas
<1>10. S \ {0} = 1..LastLine
  BY TracesAssumption
<1> HIDE DEF S
<1>11. FitTo(t, n, a) \in Seq(1..LastLine)
  BY <1>8, <1>9, <1>10
<1>12. FitTo(t, n, b) = FitTo(t, n, a) \o Told([i \in 1..(b - a) |-> FitAt(t, n, a + i)])
  BY <1>5, <1>6, <1>7, <1>8, Zenon
<1> QED
  BY <1>11, <1>12

\* What is stepped over adds nothing.
LEMMA FitOver ==
    ASSUME NEW t \in Seq(TraceBytes), NEW n \in Lengths, Known(t, n), NEW b \in 0..Len(t), NEW a \in 0..b,
           \A i \in 1..(b - a) : FitAt(t, n, a + i) = 0
    PROVE  FitTo(t, n, b) = FitTo(t, n, a)
<1> DEFINE row == [i \in 1..(b - a) |-> FitAt(t, n, a + i)]
<1>1. /\ FitTo(t, n, a) \in Seq(1..LastLine)
      /\ FitTo(t, n, b) = FitTo(t, n, a) \o Told(row)
  BY FitSplit
<1> DEFINE m == b - a
<1>3. \A i \in 1..m : row[i] = 0
  OBVIOUS
<1>2. row \in [1..m -> {0}]
  BY <1>3
<1>6. m \in Nat
  OBVIOUS
<1> HIDE DEF row, m
<1>4. Len(row) = m /\ m \in Nat
  BY <1>2, <1>6, RowOf
<1>5. Told(row) = <<>>
  BY <1>3, <1>4, ToldNone DEF m
<1> QED
  BY <1>1, <1>5, ConcatEmptySeq

LEMMA LastEndIs ==
    ASSUME NEW c \in Seq(TraceBytes), Ends(c) # {}
    PROVE  /\ LastEnd(c) \in Ends(c) /\ LastEnd(c) \in 1..Len(c)
           /\ \A i \in Ends(c) : i <= LastEnd(c)
           /\ FirstEnd(c) \in Ends(c) /\ FirstEnd(c) \in 1..Len(c)
           /\ \A i \in Ends(c) : FirstEnd(c) <= i
<1>1. Ends(c) \in SUBSET (1..Len(c)) /\ Len(c) \in Nat
  BY DEF Ends
<1>2. \E m \in Ends(c) : \A k \in Ends(c) : k <= m
  BY <1>1, GreatestOf
<1>3. \E m \in Ends(c) : \A k \in Ends(c) : m <= k
  <2>1. Ends(c) \in SUBSET Nat
    BY <1>1
  <2> QED
    BY <2>1, LeastNumber
<1>4. LastEnd(c) \in Ends(c) /\ \A i \in Ends(c) : i <= LastEnd(c)
  BY <1>2, Zenon DEF LastEnd
<1>5. FirstEnd(c) \in Ends(c) /\ \A i \in Ends(c) : i >= FirstEnd(c)
  <2>1. \E m \in Ends(c) : \A k \in Ends(c) : k >= m
    BY <1>1, <1>3
  <2> QED
    BY <2>1, Zenon DEF FirstEnd
<1> QED
  BY <1>1, <1>4, <1>5

\* A chunk says what it says up to the last end in it.
LEMMA EventsToLast ==
    ASSUME NEW c \in Seq(TraceBytes), NEW n \in Lengths, Known(c, n), Ends(c) # {}
    PROVE  EventsOf(c, n) = Told([i \in 1..LastEnd(c) |-> SaysAt(c, n, i)])
<1> DEFINE row == [i \in DOMAIN c |-> SaysAt(c, n, i)]
           S == 0..LastLine
           m == Len(c)
           a == LastEnd(c)
           rest == After(row, a, m)
<1>1. /\ DOMAIN c = 1..m /\ m \in Nat /\ a \in 1..m
      /\ \A i \in Ends(c) : i <= a
  BY LastEndIs
<1>2. row \in [1..m -> S]
  BY <1>1, SaysAtSome
<1>3. \A i \in 1..m : row[i] = SaysAt(c, n, i)
  BY <1>1
<1>4. EventsOf(c, n) = Told(row)
  BY DEF EventsOf
<1> HIDE DEF row, S, m, a
<1>5. a \in 0..m /\ m - a \in Nat
  BY <1>1
<1>6. /\ Before(row, a) \in Seq(S)
      /\ Told(row) = Told(Before(row, a)) \o Told(rest)
  <2>1. m \in Nat
    BY <1>1
  <2>2. Before(row, a) \in Seq(S)
    BY <1>2, <1>5, <2>1, ToldSplit
  <2>3. Told(row) = Told(Before(row, a)) \o Told(After(row, a, m))
    BY <1>2, <1>5, <2>1, ToldSplit
  <2> QED
    BY <2>2, <2>3
<1>7. Before(row, a) = [i \in 1..a |-> SaysAt(c, n, i)]
  <2>1. \A i \in 1..a : i \in 1..m
    BY <1>1
  <2> QED
    BY <2>1, <1>3 DEF Before
<1>8. Told(rest) = <<>>
  <2>1. \A i \in 1..(m - a) : rest[i] = 0
    <3>1. ASSUME NEW i \in 1..(m - a) PROVE row[a + i] = 0
      <4>1. a + i \in 1..m /\ ~ (a + i <= a)
        BY <1>1
      <4>2. a + i \notin Ends(c)
        BY <4>1, <1>1
      <4> QED
        BY <4>1, <4>2, <1>3 DEF SaysAt
    <3> QED
      BY <3>1 DEF After
  <2> DEFINE k == m - a
  <2>2. rest \in [1..k -> {0}]
    BY <2>1 DEF After
  <2>3. k \in Nat /\ \A i \in 1..k : rest[i] = 0
    BY <1>5, <2>1
  <2> HIDE DEF rest, k
  <2>4. Len(rest) = k
    BY <2>2, <2>3, RowOf
  <2> QED
    BY <2>3, <2>4, ToldNone
<1>9. Told(Before(row, a)) \in Seq(S \ {0})
  BY <1>6, ToldHas
<1>10. Told(row) = Told(Before(row, a))
  <2> HIDE DEF rest
  <2> QED
    BY <1>6, <1>8, <1>9, ConcatEmptySeq
<1> QED
  BY <1>4, <1>7, <1>10 DEF a

\* What a read that starts at a line says is what fits next.
LEMMA FitNext ==
    ASSUME NEW t \in Seq(TraceBytes), NEW n \in Lengths, Known(t, n), NEW a \in 0..Len(t),
           a = 0 \/ a \in Ends(t), Ends(ChunkOf(t, a)) # {}
    PROVE  FitTo(t, n, a + LastEnd(ChunkOf(t, a))) = FitTo(t, n, a) \o EventsOf(ChunkOf(t, a), n)
<1> DEFINE c == ChunkOf(t, a)
           e == LastEnd(c)
           b == a + e
<1>1. /\ c \in Seq(TraceBytes) /\ a + Len(c) <= Len(t) /\ Len(c) \in Nat
      /\ DOMAIN c = 1..Len(c)
  BY ChunkIs
<1>2. Known(c, n)
  BY ChunkKnown
<1>3. e \in 1..Len(c)
  <2> HIDE DEF c
  <2> QED
    BY <1>1, LastEndIs DEF c
<1>4. EventsOf(c, n) = Told([i \in 1..e |-> SaysAt(c, n, i)])
  <2>1. Ends(c) # {}
    OBVIOUS
  <2> HIDE DEF c
  <2> QED
    BY <1>1, <1>2, <2>1, EventsToLast
<1>5. \A i \in 1..e : FitAt(t, n, a + i) = SaysAt(c, n, i)
  <2>1. ASSUME NEW i \in DOMAIN c PROVE FitAt(t, n, a + i) = SaysAt(c, n, i)
    BY ChunkFits
  <2>2. \A i \in 1..e : i \in DOMAIN c
    <3> HIDE DEF c, e
    <3> QED
      BY <1>1, <1>3
  <2> QED
    BY <2>1, <2>2
<1> HIDE DEF c, e
<1>6. b \in 0..Len(t) /\ a \in 0..b /\ b - a = e
  <2>1. Len(t) \in Nat /\ a \in Nat
    OBVIOUS
  <2> QED
    BY <2>1, <1>1, <1>3
<1> HIDE DEF b
<1>7. FitTo(t, n, b) = FitTo(t, n, a) \o Told([i \in 1..(b - a) |-> FitAt(t, n, a + i)])
  BY <1>6, FitSplit
<1>8. [i \in 1..(b - a) |-> FitAt(t, n, a + i)] = [i \in 1..e |-> SaysAt(c, n, i)]
  BY <1>5, <1>6
<1> QED
  BY <1>4, <1>7, <1>8 DEF b, e, c

\* The line that ends at a byte is of the bytes of the file.
LEMMA LineOfIs ==
    ASSUME NEW t \in Seq(TraceBytes), NEW n, Known(t, n), NEW i \in DOMAIN t
    PROVE  SubSeq(t, From(t, i), i) \in Seq(TraceBytes) /\ Known(SubSeq(t, From(t, i), i), n)
<1> DEFINE f == From(t, i)
           line == SubSeq(t, f, i)
<1>1. Len(t) \in Nat /\ DOMAIN t = 1..Len(t)
  OBVIOUS
<1>2. f \in 1..i
  BY <1>1, FromIs
<1> HIDE DEF f
<1>3. f \in Int /\ i \in Int /\ f <= i /\ \A k \in f..i : k \in DOMAIN t
  BY <1>1, <1>2
<1>4. /\ line \in Seq(TraceBytes) /\ Len(line) = IF f <= i THEN i - f + 1 ELSE 0
      /\ \A k \in 1..(i - f + 1) : line[k] = t[f + k - 1]
  <2>1. \A k \in f..i : t[k] \in TraceBytes
    BY <1>3
  <2> QED
    BY <1>3, <2>1, SubSeqProperties
<1> HIDE DEF line
<1>5. ASSUME NEW p \in DOMAIN line PROVE line[p].line \in DOMAIN n
  <2>1. p \in 1..(i - f + 1) /\ f + p - 1 \in f..i
    BY <1>3, <1>4
  <2>2. f + p - 1 \in DOMAIN t
    BY <1>3, <2>1
  <2>3. line[p] = t[f + p - 1]
    BY <1>4, <2>1
  <2> QED
    BY <2>2, <2>3 DEF Known
<1> QED
  BY <1>4, <1>5 DEF Known, f, line

\* What fits stays what it is where more lines are begun.
LEMMA FitStill ==
    ASSUME NEW t \in Seq(TraceBytes), NEW n \in Lengths, NEW m, Known(t, n),
           \A l \in DOMAIN n : m[l] = n[l], NEW b \in 0..Len(t)
    PROVE  FitTo(t, m, b) = FitTo(t, n, b)
<1>1. ASSUME NEW i \in DOMAIN t PROVE SaysAt(t, m, i) = SaysAt(t, n, i)
  <2> DEFINE line == SubSeq(t, From(t, i), i)
  <2>1. line \in Seq(TraceBytes) /\ Known(line, n)
    BY LineOfIs
  <2> HIDE DEF line
  <2>2. SaysIn(line, m) = SaysIn(line, n)
    BY <2>1, SaysStill
  <2> QED
    BY <2>2, Zenon DEF SaysAt, line
<1>2. \A i \in DOMAIN t : FitAt(t, m, i) = FitAt(t, n, i)
  BY <1>1, Zenon DEF FitAt
<1>3. \A i \in 1..b : i \in DOMAIN t
  OBVIOUS
<1>4. [i \in 1..b |-> FitAt(t, m, i)] = [i \in 1..b |-> FitAt(t, n, i)]
  BY <1>2, <1>3
<1> QED
  BY <1>4 DEF FitTo

----------------------------------------------------------------------------
(* The invariant, of whatever file and reading.                            *)

ComeOf(f) == IF f.at = "judge" THEN f.cursor ELSE f.since

CameOf(t, n, f, s) ==
    /\ f.at = "past" => f.past >= f.since
    /\ \A k \in DOMAIN s :
          /\ s[k] \in DOMAIN n
          /\ \E p \in 0..Len(t) :
                /\ p + n[s[k]] <= ComeOf(f)
                /\ \A j \in 1..n[s[k]] : p + j \in DOMAIN t /\ t[p + j] = Byte(s[k], "said")

AtALine(t, p) == p = 0 \/ p = Len(t) \/ p \in Ends(t)
OverOf(t, f) ==
    /\ \A i \in Ends(t) : i <= f.since \/ i > f.past
    /\ f.past >= f.since + AtMost \/ f.past = Len(t)

SoFarOf(t, n, f, s) ==
    /\ f.at = "rest" => s = <<>>
    /\ f.at # "rest" /\ f.alone /\ ~ f.gone =>
          /\ s = FitTo(t, n, ComeOf(f))
          /\ AtALine(t, ComeOf(f))
          /\ f.at = "past" => OverOf(t, f)
          /\ f.at = "judge" /\ f.cursor = f.since => ComeOf(f) = Len(t)
          /\ f.at = "finished" => ComeOf(f) = Len(t)

OnceOf(s) == \A i, j \in DOMAIN s : s[i] = s[j] => i = j

Places(m) ==
    [at : {"rest", "ask", "read", "past", "judge", "finished"}, follow : BOOLEAN,
     since : 0..m, first : BOOLEAN, cursor : 0..m,
     past : 0..m, done : BOOLEAN, alone : BOOLEAN, gone : BOOLEAN]

Pens == [1..MostRuns -> [at : {"none", "open", "closed"} \cup Part, line : 0..LastLine]]

PensOf(t, n, w) ==
    \A r \in 1..MostRuns : w[r].at \in Part =>
        /\ w[r].line \in DOMAIN n
        /\ w[r].at # "end" => \A p \in DOMAIN t : t[p] # Byte(w[r].line, "said")
        /\ \A o \in 1..MostRuns : w[o].at \in Part /\ w[o].line = w[r].line => o = r

\* The invariant of what is written, and of what is read.
FileOf(t, n, w) ==
    /\ t \in Seq(TraceBytes) /\ n \in Lengths /\ Len(n) <= LastLine /\ w \in Pens
    /\ Known(t, n) /\ Apart(t, n) /\ PensOf(t, n, w)
ReadOf(t, n, f, s) ==
    /\ f \in Places(Len(t)) /\ s \in Seq(1..LastLine)
    /\ CameOf(t, n, f, s) /\ OnceOf(s) /\ SoFarOf(t, n, f, s)

Sound ==
    /\ FileOf(trace, lines, pen) /\ ReadOf(trace, lines, follower, shown)
    /\ running \in BOOLEAN /\ run \in 0..MostRuns

LEMMA InvariantIs == TracesInductive <=> Sound
<1>1. TraceTypeOK <=>
         /\ trace \in Seq(TraceBytes) /\ lines \in Lengths /\ Len(lines) <= LastLine /\ pen \in Pens
         /\ follower \in Places(Len(trace)) /\ shown \in Seq(1..LastLine)
         /\ running \in BOOLEAN /\ run \in 0..MostRuns
  BY Zenon DEF TraceTypeOK, TraceBytes, Lengths, Pens, Places
<1>2. SaidOnce <=> Known(trace, lines) /\ Apart(trace, lines) /\ PensOf(trace, lines, pen)
  BY Zenon DEF SaidOnce, Known, Apart, PensOf, Writing
<1>3. ShownCameBefore <=> CameOf(trace, lines, follower, shown)
  BY Zenon DEF ShownCameBefore, CameOf, Come, ComeOf, SaidFrom
<1>4. ShownOnce <=> OnceOf(shown)
  BY Zenon DEF ShownOnce, OnceOf
<1>5. ShownSoFar <=> SoFarOf(trace, lines, follower, shown)
  <2>1. Come = ComeOf(follower)
    BY Zenon DEF Come, ComeOf
  <2>2. FittingTo(Come) = FitTo(trace, lines, ComeOf(follower))
    BY <2>1, FittingToIs, Zenon
  <2>3. StandsAtALine(Come) <=> AtALine(trace, ComeOf(follower))
    BY <2>1, Zenon DEF StandsAtALine, AtALine
  <2>4. (\A i \in Ends(trace) : i <= follower.since \/ i > follower.past)
          /\ (follower.past >= follower.since + AtMost \/ follower.past = Len(trace))
        <=> OverOf(trace, follower)
    BY Zenon DEF OverOf
  <2> QED
    BY <2>1, <2>2, <2>3, <2>4, Zenon DEF ShownSoFar, SoFarOf
<1> QED
  BY <1>1, <1>2, <1>3, <1>4, <1>5, Zenon DEF TracesInductive, Sound, FileOf, ReadOf

LEMMA TracesInitially == TraceInit => Sound
<1> SUFFICES ASSUME TraceInit PROVE Sound
  OBVIOUS
<1>1. /\ trace = <<>> /\ lines = <<>> /\ shown = <<>> /\ follower = Resting
      /\ pen = [r \in 1..MostRuns |-> NoPen] /\ running = FALSE /\ run = 0
  BY DEF TraceInit
<1>2. /\ trace \in Seq(TraceBytes) /\ lines \in Lengths /\ shown \in Seq(1..LastLine)
      /\ Len(trace) = 0 /\ Len(lines) = 0
      /\ DOMAIN trace = {} /\ DOMAIN lines = {} /\ DOMAIN shown = {}
  BY <1>1 DEF Lengths
<1>3. FileOf(trace, lines, pen)
  <2>1. pen \in Pens /\ \A r \in 1..MostRuns : pen[r].at \notin Part
    BY <1>1, TracesAssumption DEF Pens, NoPen, Part
  <2>2. Len(lines) <= LastLine
    BY <1>2, TracesAssumption
  <2> QED
    BY <1>2, <2>1, <2>2 DEF FileOf, Known, Apart, PensOf
<1>4. ReadOf(trace, lines, follower, shown)
  <2>1. follower \in Places(Len(trace)) /\ follower.at = "rest"
    BY <1>1, <1>2 DEF Places, Resting
  <2> QED
    BY <1>1, <1>2, <2>1 DEF ReadOf, CameOf, OnceOf, SoFarOf
<1>5. running \in BOOLEAN /\ run \in 0..MostRuns
  <2>1. running = FALSE /\ run = 0
    BY <1>1
  <2>2. 0 \in 0..MostRuns
    BY TracesAssumption
  <2> QED
    BY <2>1, <2>2
<1> QED
  BY <1>3, <1>4, <1>5 DEF Sound

----------------------------------------------------------------------------
(* The steps that write.                                                   *)

\* Where no pen goes on that was not writing, and none changes its line, what
\* is written is as it was.
LEMMA PensRest ==
    ASSUME NEW t, NEW n, NEW w, NEW v, FileOf(t, n, w), v \in Pens,
           \A r \in 1..MostRuns : v[r].at \in Part => v[r] = w[r]
    PROVE  FileOf(t, n, v)
<1>1. PensOf(t, n, v)
  <2>1. PensOf(t, n, w)
    BY DEF FileOf
  <2> SUFFICES ASSUME NEW r \in 1..MostRuns, v[r].at \in Part
               PROVE  /\ v[r].line \in DOMAIN n
                      /\ v[r].at # "end" => \A p \in DOMAIN t : t[p] # Byte(v[r].line, "said")
                      /\ \A o \in 1..MostRuns : v[o].at \in Part /\ v[o].line = v[r].line => o = r
    BY Zenon DEF PensOf
  <2>2. v[r] = w[r] /\ w[r].at \in Part
    OBVIOUS
  <2>3. /\ w[r].line \in DOMAIN n
        /\ w[r].at # "end" => \A p \in DOMAIN t : t[p] # Byte(w[r].line, "said")
        /\ \A o \in 1..MostRuns : w[o].at \in Part /\ w[o].line = w[r].line => o = r
    BY <2>1, <2>2, Zenon DEF PensOf
  <2>4. ASSUME NEW o \in 1..MostRuns, v[o].at \in Part, v[o].line = v[r].line PROVE o = r
    <3>1. v[o] = w[o]
      BY <2>4
    <3> QED
      BY <3>1, <2>2, <2>3, <2>4
  <2> QED
    BY <2>2, <2>3, <2>4
<1> QED
  BY <1>1 DEF FileOf

LEMMA PenIs ==
    ASSUME NEW w \in Pens, NEW r \in 1..MostRuns
    PROVE  w[r].at \in {"none", "open", "closed"} \cup Part /\ w[r].line \in 0..LastLine
  BY DEF Pens

LEMMA RunBeginsKeeps == ASSUME Sound, RunBegins PROVE Sound'
<1>1. FileOf(trace, lines, pen) /\ pen \in Pens /\ run \in 0..MostRuns
  BY DEF Sound, FileOf
<1>2. /\ run < MostRuns /\ run' = run + 1 /\ running' = TRUE
      /\ pen' = [pen EXCEPT ![run'].at = "open"]
      /\ UNCHANGED <<trace, lines, follower, shown>>
  BY DEF RunBegins, file
<1>3. run' \in 1..MostRuns
  <2>1. MostRuns \in Nat
    BY TracesAssumption
  <2> QED
    BY <1>1, <1>2, <2>1
<1>4. pen' \in Pens
  BY <1>1, <1>2, <1>3 DEF Pens
<1>5. \A r \in 1..MostRuns : pen'[r].at \in Part => pen'[r] = pen[r]
  BY <1>1, <1>2, <1>3 DEF Pens, Part
<1>6. FileOf(trace, lines, pen')
  BY <1>1, <1>4, <1>5, PensRest
<1>7. run' \in 0..MostRuns
  BY <1>3
<1> QED
  BY <1>2, <1>6, <1>7 DEF Sound

LEMMA RunIsOverKeeps == ASSUME Sound, NEW r \in 1..MostRuns, RunIsOver(r) PROVE Sound'
<1>1. FileOf(trace, lines, pen) /\ pen \in Pens
  BY DEF Sound, FileOf
<1>2. /\ running' = FALSE /\ pen' = [pen EXCEPT ![r].at = "closed"]
      /\ UNCHANGED <<trace, lines, run, follower, shown>>
  BY DEF RunIsOver, file
<1>4. pen' \in Pens
  BY <1>1, <1>2 DEF Pens
<1>5. \A o \in 1..MostRuns : pen'[o].at \in Part => pen'[o] = pen[o]
  BY <1>1, <1>2 DEF Pens, Part
<1>6. FileOf(trace, lines, pen')
  BY <1>1, <1>4, <1>5, PensRest
<1> QED
  BY <1>2, <1>6 DEF Sound

LEMMA InterruptedKeeps == ASSUME Sound, Interrupted PROVE Sound'
<1>1. running' = FALSE /\ UNCHANGED <<trace, lines, run, pen, follower, shown>>
  BY DEF Interrupted, file
<1> QED
  BY <1>1 DEF Sound

\* A line begun says more of no other line.
LEMMA LineBeginsKeeps == ASSUME Sound, NEW r \in 1..MostRuns, LineBegins(r) PROVE Sound'
<1> DEFINE t == trace
           n == lines
           w == pen
<1>1. /\ t \in Seq(TraceBytes) /\ n \in Lengths /\ w \in Pens /\ Known(t, n) /\ Apart(t, n) /\ PensOf(t, n, w)
      /\ follower \in Places(Len(t)) /\ shown \in Seq(1..LastLine)
      /\ CameOf(t, n, follower, shown) /\ OnceOf(shown) /\ SoFarOf(t, n, follower, shown)
  BY DEF Sound, FileOf, ReadOf
<1>2. PICK k \in 1..Longest :
         /\ Len(lines) < LastLine
         /\ lines' = Append(lines, k)
         /\ pen' = [pen EXCEPT ![r] = [at |-> "time", line |-> Len(lines')]]
         /\ UNCHANGED <<trace, running, run, follower, shown>>
  BY DEF LineBegins
<1> DEFINE m == lines'
           new == Len(n) + 1
<1>3. /\ m \in Lengths /\ Len(m) = new /\ DOMAIN m = 1..new /\ DOMAIN n = 1..Len(n) /\ Len(n) \in Nat
      /\ \A l \in DOMAIN n : m[l] = n[l]
  <2>1. lines \in Seq(1..Longest)
    BY <1>1 DEF Lengths
  <2>2. /\ lines' \in Seq(1..Longest) /\ Len(lines') = Len(lines) + 1
        /\ \A i \in 1..Len(lines) : lines'[i] = lines[i]
    BY <1>2, <2>1, AppendProperties
  <2> QED
    BY <2>1, <2>2 DEF Lengths
<1>4. new <= LastLine /\ \A l \in DOMAIN n : l \in DOMAIN m /\ l # new
  <2>1. LastLine \in Nat
    BY TracesAssumption
  <2> QED
    BY <2>1, <1>2, <1>3
<1>5. pen' \in Pens /\ pen'[r] = [at |-> "time", line |-> new]
      /\ \A o \in 1..MostRuns : o # r => pen'[o] = pen[o]
  <2>1. new \in 0..LastLine
    BY <1>3, <1>4, TracesAssumption
  <2>2. pen' = [pen EXCEPT ![r] = [at |-> "time", line |-> new]]
    BY <1>2, <1>3
  <2> HIDE DEF new, m
  <2> QED
    BY <1>1, <2>1, <2>2 DEF Pens, Part
<1> HIDE DEF m, new
<1>6. Known(t, m) /\ Apart(t, m)
  <2>1. ASSUME NEW p \in DOMAIN t PROVE t[p].line \in DOMAIN m /\ m[t[p].line] = n[t[p].line]
    <3>1. t[p].line \in DOMAIN n
      BY <1>1 DEF Known
    <3> QED
      BY <3>1, <1>3, <1>4
  <2> QED
    BY <2>1, <1>1 DEF Known, Apart
<1>7. PensOf(t, m, pen')
  <2>1. \A o \in 1..MostRuns : w[o].at \in Part =>
           /\ w[o].line \in DOMAIN n
           /\ w[o].at # "end" => \A p \in DOMAIN t : t[p] # Byte(w[o].line, "said")
           /\ \A q \in 1..MostRuns : w[q].at \in Part /\ w[q].line = w[o].line => q = o
    BY <1>1, Zenon DEF PensOf
  <2>2. \A p \in DOMAIN t : t[p] # Byte(new, "said")
    <3>1. \A p \in DOMAIN t : t[p].line # new
      BY <1>1, <1>4 DEF Known
    <3> QED
      BY <3>1 DEF Byte
  <2> SUFFICES ASSUME NEW o \in 1..MostRuns, pen'[o].at \in Part
               PROVE  /\ pen'[o].line \in DOMAIN m
                      /\ pen'[o].at # "end" => \A p \in DOMAIN t : t[p] # Byte(pen'[o].line, "said")
                      /\ \A q \in 1..MostRuns : pen'[q].at \in Part /\ pen'[q].line = pen'[o].line => q = o
    BY Zenon DEF PensOf
  <2>3. CASE o = r
    <3>1. pen'[o].line = new /\ new \in DOMAIN m
      <4>1. new \in 1..new
        BY <1>3 DEF new
      <4> QED
        BY <4>1, <2>3, <1>3, <1>5
    <3>2. ASSUME NEW q \in 1..MostRuns, pen'[q].at \in Part, pen'[q].line = new PROVE q = r
      <4> SUFFICES ASSUME q # r PROVE FALSE
        OBVIOUS
      <4>1. pen'[q] = w[q]
        BY <1>5
      <4>2. w[q].line \in DOMAIN n
        BY <4>1, <3>2, <2>1
      <4> QED
        BY <4>1, <4>2, <3>2, <1>4
    <3> QED
      BY <2>2, <2>3, <3>1, <3>2
  <2>4. CASE o # r
    <3>1. pen'[o] = w[o]
      BY <2>4, <1>5
    <3>2. /\ w[o].line \in DOMAIN n
          /\ w[o].at # "end" => \A p \in DOMAIN t : t[p] # Byte(w[o].line, "said")
          /\ \A q \in 1..MostRuns : w[q].at \in Part /\ w[q].line = w[o].line => q = o
      BY <2>1, <3>1
    <3>3. ASSUME NEW q \in 1..MostRuns, pen'[q].at \in Part, pen'[q].line = w[o].line PROVE q = o
      <4>1. CASE q = r
        BY <4>1, <3>2, <3>3, <1>4, <1>5
      <4>2. CASE q # r
        <5>1. pen'[q] = w[q]
          BY <4>2, <1>5
        <5> QED
          BY <5>1, <3>2, <3>3
      <4> QED
        BY <4>1, <4>2
    <3> QED
      BY <3>1, <3>2, <3>3, <1>4
  <2> QED
    BY <2>3, <2>4
<1>8. CameOf(t, m, follower, shown)
  <2>1. \A k2 \in DOMAIN shown : shown[k2] \in DOMAIN n
    BY <1>1, Zenon DEF CameOf
  <2>2. \A k2 \in DOMAIN shown : shown[k2] \in DOMAIN m /\ m[shown[k2]] = n[shown[k2]]
    BY <2>1, <1>3, <1>4
  <2> QED
    BY <1>1, <2>2, Zenon DEF CameOf
<1>9. SoFarOf(t, m, follower, shown)
  <2>1. ComeOf(follower) \in 0..Len(t)
    BY <1>1 DEF ComeOf, Places
  <2>2. FitTo(t, m, ComeOf(follower)) = FitTo(t, n, ComeOf(follower))
    BY <1>1, <1>3, <2>1, FitStill
  <2> QED
    BY <1>1, <2>2, Zenon DEF SoFarOf
<1>10. FileOf(t, m, pen')
  <2>1. Len(m) <= LastLine
    BY <1>3, <1>4
  <2> QED
    BY <1>1, <1>3, <1>5, <1>6, <1>7, <2>1 DEF FileOf
<1>11. ReadOf(t, m, follower, shown)
  BY <1>1, <1>8, <1>9 DEF ReadOf
<1> QED
  BY <1>2, <1>10, <1>11 DEF Sound, m

\* Whether one pen may have written what another has: what was said is said in
\* one piece, and each pen has a line of its own.
LEMMA PieceWrittenKeeps == ASSUME Sound, NEW r \in 1..MostRuns, PieceWritten(r) PROVE Sound'
<1> DEFINE t == trace
           n == lines
           w == pen
           l == w[r].line
           part == w[r].at
           many == IF part = "said" THEN n[l] ELSE 1
           row == [i \in 1..many |-> Byte(l, part)]
           u == trace'
           f == follower
           g == follower'
<1>1. /\ t \in Seq(TraceBytes) /\ n \in Lengths /\ Len(n) <= LastLine /\ w \in Pens
      /\ Known(t, n) /\ Apart(t, n) /\ PensOf(t, n, w)
      /\ f \in Places(Len(t)) /\ shown \in Seq(1..LastLine)
      /\ CameOf(t, n, f, shown) /\ OnceOf(shown) /\ SoFarOf(t, n, f, shown)
  BY DEF Sound, FileOf, ReadOf
<1>2. /\ part \in Part
      /\ u = t \o row
      /\ pen' = [pen EXCEPT ![r].at = NextPart(part)]
      /\ g = [f EXCEPT !.alone = FALSE]
      /\ UNCHANGED <<lines, running, run, shown>>
  BY DEF PieceWritten, Writing
<1>3. /\ l \in DOMAIN n
      /\ part # "end" => \A p \in DOMAIN t : t[p] # Byte(l, "said")
      /\ \A o \in 1..MostRuns : w[o].at \in Part /\ w[o].line = l => o = r
  BY <1>1, <1>2, Zenon DEF PensOf
<1>4. l \in 1..LastLine /\ many \in Nat /\ n[l] \in Nat
  <2>1. n[l] \in 1..Longest /\ Longest \in Nat /\ LastLine \in Nat
    BY <1>1, <1>3, TracesAssumption DEF Lengths
  <2>2. Len(n) \in Nat /\ l \in 1..Len(n)
    BY <1>1, <1>3 DEF Lengths
  <2> QED
    BY <1>1, <2>1, <2>2
<1>5. Byte(l, part) \in TraceBytes /\ Byte(l, part).line = l /\ Byte(l, part).part = part
  BY <1>2, <1>4 DEF Byte, TraceBytes
<1> HIDE DEF many
<1>6. row \in Seq(TraceBytes) /\ Len(row) = many /\ \A i \in 1..many : row[i] = Byte(l, part)
  <2>1. row \in [1..many -> TraceBytes]
    BY <1>5
  <2> QED
    BY <2>1, <1>4, RowOf
<1> HIDE DEF row, l, part
<1>7. /\ u \in Seq(TraceBytes) /\ Len(u) = Len(t) + many /\ Len(t) \in Nat
      /\ DOMAIN u = 1..Len(u) /\ DOMAIN t = 1..Len(t)
      /\ \A i \in 1..(Len(t) + many) : u[i] = IF i <= Len(t) THEN t[i] ELSE row[i - Len(t)]
  <2>1. t \in Seq(TraceBytes) /\ row \in Seq(TraceBytes) /\ Len(row) = many /\ u = t \o row
    BY <1>1, <1>2, <1>6
  <2> HIDE DEF u, t
  <2>2. /\ u \in Seq(TraceBytes) /\ Len(u) = Len(t) + many
        /\ \A i \in 1..(Len(t) + many) : u[i] = IF i <= Len(t) THEN t[i] ELSE row[i - Len(t)]
    BY <2>1, ConcatProperties
  <2>3. DOMAIN u = 1..Len(u)
    BY <2>2
  <2>4. DOMAIN t = 1..Len(t) /\ Len(t) \in Nat
    BY <2>1
  <2> QED
    BY <2>2, <2>3, <2>4
<1> HIDE DEF u
<1>8. \A p \in DOMAIN u : \/ p \in DOMAIN t /\ u[p] = t[p]
                          \/ p \notin DOMAIN t /\ u[p] = Byte(l, part) /\ p > Len(t)
  <2> SUFFICES ASSUME NEW p \in DOMAIN u
               PROVE  \/ p \in DOMAIN t /\ u[p] = t[p]
                      \/ p \notin DOMAIN t /\ u[p] = Byte(l, part) /\ p > Len(t)
    OBVIOUS
  <2>1. p \in 1..(Len(t) + many)
    BY <1>7
  <2>2. u[p] = IF p <= Len(t) THEN t[p] ELSE row[p - Len(t)]
    BY <1>7, <2>1
  <2>3. CASE p <= Len(t)
    BY <2>1, <2>2, <2>3, <1>7
  <2>4. CASE ~ (p <= Len(t))
    <3>1. p - Len(t) \in 1..many
      BY <2>1, <2>4, <1>4, <1>7
    <3> QED
      BY <3>1, <2>1, <2>2, <2>4, <1>6, <1>7
  <2> QED
    BY <2>3, <2>4
<1>9. \A p \in DOMAIN t : p \in DOMAIN u /\ u[p] = t[p]
  <2>1. \A p \in DOMAIN t : p \in DOMAIN u
    BY <1>4, <1>7
  <2> QED
    BY <2>1, <1>8
<1>10. Known(u, n)
  BY <1>1, <1>3, <1>5, <1>8 DEF Known
<1>11. Apart(u, n)
  <2> SUFFICES ASSUME NEW p \in DOMAIN u, NEW q \in DOMAIN u, u[p] = u[q], u[p].part = "said"
               PROVE  q - p < n[u[p].line]
    BY Zenon DEF Apart
  <2>1. CASE p \in DOMAIN t /\ q \in DOMAIN t
    <3>1. t[p] = t[q] /\ t[p].part = "said" /\ u[p] = t[p]
      BY <2>1, <1>9
    <3> QED
      BY <3>1, <2>1, <1>1, Zenon DEF Apart
  <2>2. CASE p \notin DOMAIN t /\ q \notin DOMAIN t
    <3>1. u[p] = Byte(l, part) /\ p > Len(t) /\ q > Len(t)
      BY <2>2, <1>8
    <3>2. part = "said" /\ u[p].line = l
      BY <3>1, <1>5
    <3>3. many = n[l]
      BY <3>2 DEF many
    <3>4. p \in 1..(Len(t) + many) /\ q \in 1..(Len(t) + many)
      BY <1>7
    <3>5. q - p < many
      BY <3>1, <3>4, <1>4, <1>7
    <3> QED
      BY <3>2, <3>3, <3>5
  <2>3. CASE (p \in DOMAIN t) # (q \in DOMAIN t)
    <3>1. \E o \in DOMAIN t : t[o] = Byte(l, part) /\ u[p] = Byte(l, part)
      <4>1. CASE p \in DOMAIN t
        <5>1. u[q] = Byte(l, part) /\ u[p] = t[p]
          BY <4>1, <2>3, <1>8
        <5> QED
          BY <4>1, <5>1
      <4>2. CASE p \notin DOMAIN t
        <5>1. u[p] = Byte(l, part) /\ u[q] = t[q] /\ q \in DOMAIN t
          BY <4>2, <2>3, <1>8
        <5> QED
          BY <5>1
      <4> QED
        BY <4>1, <4>2
    <3>2. part = "said"
      BY <3>1, <1>5
    <3> QED
      BY <3>1, <3>2, <1>3
  <2> QED
    BY <2>1, <2>2, <2>3, Zenon
<1>12. /\ pen' \in Pens
       /\ pen'[r].at = NextPart(part) /\ pen'[r].line = l
       /\ \A o \in 1..MostRuns : o # r => pen'[o] = w[o]
  <2>1. NextPart(part) \in {"none", "open", "closed"} \cup Part
    BY <1>2 DEF NextPart, Part
  <2>2. pen' = [pen EXCEPT ![r] = [pen[r] EXCEPT !.at = NextPart(part)]]
    BY <1>2
  <2>3. [pen[r] EXCEPT !.at = NextPart(part)] \in [at : {"none", "open", "closed"} \cup Part, line : 0..LastLine]
    BY <1>1, <2>1 DEF Pens
  <2>4. pen \in [1..MostRuns -> [at : {"none", "open", "closed"} \cup Part, line : 0..LastLine]]
    BY <1>1 DEF Pens
  <2>5. pen' \in Pens
    BY <2>2, <2>3, <2>4 DEF Pens
  <2>6. pen'[r] = [pen[r] EXCEPT !.at = NextPart(part)] /\ \A o \in 1..MostRuns : o # r => pen'[o] = w[o]
    BY <2>2, <2>4
  <2>7. pen'[r].at = NextPart(part) /\ pen'[r].line = l
    BY <2>4, <2>6 DEF l
  <2> QED
    BY <2>5, <2>6, <2>7
<1>13. PensOf(u, n, pen')
  <2> SUFFICES ASSUME NEW o \in 1..MostRuns, pen'[o].at \in Part
               PROVE  /\ pen'[o].line \in DOMAIN n
                      /\ pen'[o].at # "end" => \A p \in DOMAIN u : u[p] # Byte(pen'[o].line, "said")
                      /\ \A q \in 1..MostRuns : pen'[q].at \in Part /\ pen'[q].line = pen'[o].line => q = o
    BY Zenon DEF PensOf
  <2>0. \A q \in 1..MostRuns : pen'[q].line = w[q].line /\ (pen'[q].at \in Part => w[q].at \in Part)
    BY <1>2, <1>12 DEF l, part
  <2>1. w[o].at \in Part /\ pen'[o].line = w[o].line
    BY <2>0
  <2>2. /\ w[o].line \in DOMAIN n
        /\ w[o].at # "end" => \A p \in DOMAIN t : t[p] # Byte(w[o].line, "said")
        /\ \A q \in 1..MostRuns : w[q].at \in Part /\ w[q].line = w[o].line => q = o
    BY <1>1, <2>1, Zenon DEF PensOf
  <2>3. \A q \in 1..MostRuns : pen'[q].at \in Part /\ pen'[q].line = pen'[o].line => q = o
    BY <2>0, <2>1, <2>2
  <2>4. ASSUME pen'[o].at # "end", NEW p \in DOMAIN u PROVE u[p] # Byte(w[o].line, "said")
    <3>1. CASE o = r
      <4>1. part # "said" /\ part # "end"
        BY <3>1, <2>4, <1>2, <1>12 DEF NextPart, Part
      <4>2. \A q \in DOMAIN t : t[q] # Byte(w[o].line, "said")
        BY <3>1, <4>1, <2>2 DEF part
      <4>3. Byte(l, part) # Byte(w[o].line, "said")
        BY <4>1 DEF Byte
      <4> QED
        BY <4>2, <4>3, <1>8
    <3>2. CASE o # r
      <4>1. w[o].at # "end"
        BY <3>2, <2>4, <1>12
      <4>2. w[o].line # l
        BY <3>2, <2>1, <1>3
      <4>3. Byte(l, part) # Byte(w[o].line, "said")
        BY <4>2 DEF Byte
      <4> QED
        BY <4>1, <4>3, <2>2, <1>8
    <3> QED
      BY <3>1, <3>2
  <2> QED
    BY <2>1, <2>2, <2>3, <2>4
<1>14. g \in Places(Len(u)) /\ ComeOf(g) = ComeOf(f) /\ g.alone = FALSE /\ g.at = f.at
       /\ g.past = f.past /\ g.since = f.since
  <2>1. g \in Places(Len(t)) /\ ComeOf(g) = ComeOf(f) /\ g.alone = FALSE /\ g.at = f.at
        /\ g.past = f.past /\ g.since = f.since
    BY <1>1, <1>2 DEF Places, ComeOf
  <2>2. 0..Len(t) \subseteq 0..Len(u)
    BY <1>4, <1>7
  <2> HIDE DEF g
  <2> QED
    BY <2>1, <2>2 DEF Places
<1>15. CameOf(u, n, g, shown)
  <2> SUFFICES ASSUME NEW k \in DOMAIN shown
               PROVE  /\ shown[k] \in DOMAIN n
                      /\ \E p \in 0..Len(u) :
                            /\ p + n[shown[k]] <= ComeOf(g)
                            /\ \A j \in 1..n[shown[k]] : p + j \in DOMAIN u /\ u[p + j] = Byte(shown[k], "said")
    BY <1>1, <1>2, <1>14, Zenon DEF CameOf
  <2>1. /\ shown[k] \in DOMAIN n
        /\ \E p \in 0..Len(t) :
              /\ p + n[shown[k]] <= ComeOf(f)
              /\ \A j \in 1..n[shown[k]] : p + j \in DOMAIN t /\ t[p + j] = Byte(shown[k], "said")
    BY <1>1, Zenon DEF CameOf
  <2>2. PICK p \in 0..Len(t) :
              /\ p + n[shown[k]] <= ComeOf(f)
              /\ \A j \in 1..n[shown[k]] : p + j \in DOMAIN t /\ t[p + j] = Byte(shown[k], "said")
    BY <2>1
  <2>3. p \in 0..Len(u)
    BY <1>4, <1>7
  <2>4. \A j \in 1..n[shown[k]] : p + j \in DOMAIN u /\ u[p + j] = Byte(shown[k], "said")
    BY <2>2, <1>9
  <2>5. p + n[shown[k]] <= ComeOf(g)
    BY <2>2, <1>14
  <2> QED
    BY <2>1, <2>3, <2>4, <2>5
<1>16. SoFarOf(u, n, g, shown)
  BY <1>1, <1>14 DEF SoFarOf
<1>17. FileOf(u, n, pen')
  BY <1>1, <1>7, <1>10, <1>11, <1>12, <1>13 DEF FileOf
<1>18. ReadOf(u, n, g, shown)
  BY <1>1, <1>14, <1>15, <1>16 DEF ReadOf
<1> HIDE DEF g
<1> QED
  BY <1>2, <1>17, <1>18 DEF Sound, u, g

----------------------------------------------------------------------------
(* The steps that read.                                                    *)

\* The core dies, and with it a reading that was under way in it.
LEMMA DiesKeeps == ASSUME Sound, Dies PROVE Sound'
<1>1. FileOf(trace, lines, pen) /\ pen \in Pens
  BY DEF Sound, FileOf
<1>2. /\ pen' = [r \in 1..MostRuns |-> IF pen[r].at = "none" THEN NoPen ELSE [pen[r] EXCEPT !.at = "closed"]]
      /\ UNCHANGED <<trace, lines, running, run, shown>>
      /\ \/ /\ follower.at \in {"ask", "read", "past"}
            /\ follower' = [follower EXCEPT !.at = "finished", !.gone = TRUE]
         \/ follower' = follower
  BY DEF Dies, file
<1>3. pen' \in Pens
  <2> SUFFICES ASSUME NEW r \in 1..MostRuns
               PROVE  (IF pen[r].at = "none" THEN NoPen ELSE [pen[r] EXCEPT !.at = "closed"])
                          \in [at : {"none", "open", "closed"} \cup Part, line : 0..LastLine]
    BY <1>2 DEF Pens
  <2>1. pen[r] \in [at : {"none", "open", "closed"} \cup Part, line : 0..LastLine]
    BY <1>1 DEF Pens
  <2>2. NoPen \in [at : {"none", "open", "closed"} \cup Part, line : 0..LastLine]
    BY TracesAssumption DEF NoPen
  <2> QED
    BY <2>1, <2>2
<1>4. \A r \in 1..MostRuns : pen'[r].at \notin Part
  BY <1>1, <1>2 DEF Pens, Part, NoPen
<1>5. FileOf(trace, lines, pen')
  <2> HIDE DEF Part
  <2> QED
    BY <1>1, <1>3, <1>4, PensRest
<1>6. ReadOf(trace, lines, follower, shown)
  BY DEF Sound
<1>7. CASE follower' = follower
  BY <1>2, <1>5, <1>6, <1>7 DEF Sound
<1>8. CASE /\ follower.at \in {"ask", "read", "past"}
           /\ follower' = [follower EXCEPT !.at = "finished", !.gone = TRUE]
  <2> DEFINE g == follower'
  <2>1. /\ g \in Places(Len(trace)) /\ ComeOf(g) = ComeOf(follower) /\ g.gone = TRUE
        /\ g.at = "finished"
    BY <1>6, <1>8 DEF ReadOf, Places, ComeOf
  <2> HIDE DEF g
  <2>2. SoFarOf(trace, lines, g, shown)
    BY <2>1 DEF SoFarOf
  <2>3. CameOf(trace, lines, g, shown)
    <3>1. g.at # "past"
      BY <2>1
    <3> QED
      BY <2>1, <3>1, <1>6, Zenon DEF ReadOf, CameOf
  <2>4. ReadOf(trace, lines, g, shown)
    BY <1>6, <2>1, <2>2, <2>3 DEF ReadOf
  <2> QED
    BY <1>2, <1>5, <2>4 DEF Sound, g
<1> QED
  BY <1>2, <1>7, <1>8

\* What a step of a reading leaves to show.
LEMMA OnlyReads ==
    ASSUME Sound, UNCHANGED <<file, running, run, pen>>,
           ReadOf(trace, lines, follower', shown')
    PROVE  Sound'
  BY DEF Sound, file

LEMMA StartReadingKeeps == ASSUME Sound, StartReading PROVE Sound'
<1>1. ReadOf(trace, lines, follower, shown) /\ FileOf(trace, lines, pen)
  BY DEF Sound
<1>2. PICK follow \in BOOLEAN : /\ follower.at = "rest"
                                /\ follower' = [Resting EXCEPT !.at = "ask", !.follow = follow]
                                /\ shown' = shown /\ UNCHANGED <<file, running, run, pen>>
  BY DEF StartReading, Reads
<1> DEFINE g == follower'
<1>3. /\ g.at = "ask" /\ g.since = 0 /\ g.cursor = 0 /\ g.past = 0
      /\ g \in Places(Len(trace))
  <2>1. Len(trace) \in Nat
    BY <1>1 DEF FileOf
  <2>2. 0 \in 0..Len(trace)
    BY <2>1
  <2> QED
    BY <1>2, <2>2 DEF Resting, Places
<1>4. shown = <<>> /\ shown \in Seq(1..LastLine)
  BY <1>1, <1>2, Zenon DEF ReadOf, SoFarOf
<1>5. DOMAIN shown = {}
  BY <1>4
<1> HIDE DEF g
<1>6. CameOf(trace, lines, g, shown) /\ OnceOf(shown)
  BY <1>3, <1>5 DEF CameOf, OnceOf
<1>7. SoFarOf(trace, lines, g, shown)
  <2>1. ComeOf(g) = 0
    BY <1>3 DEF ComeOf
  <2>2. FitTo(trace, lines, 0) = <<>>
    <3> DEFINE row == [i \in 1..0 |-> FitAt(trace, lines, i)]
    <3>1. row \in [1..0 -> {0}]
      OBVIOUS
    <3> HIDE DEF row
    <3>2. Len(row) = 0
      BY <3>1, RowOf
    <3>3. Told(row) = <<>>
      BY <3>2, ToldNone
    <3> QED
      BY <3>3 DEF FitTo, row
  <2> QED
    BY <1>3, <1>4, <2>1, <2>2 DEF SoFarOf, AtALine
<1>8. ReadOf(trace, lines, g, shown)
  BY <1>3, <1>4, <1>6, <1>7 DEF ReadOf
<1> QED
  BY <1>2, <1>8, OnlyReads DEF g

LEMMA AskWhetherDoneKeeps == ASSUME Sound, AskWhetherDone PROVE Sound'
<1>1. ReadOf(trace, lines, follower, shown) /\ running \in BOOLEAN
  BY DEF Sound
<1>2. /\ follower.at = "ask"
      /\ follower' = [follower EXCEPT !.at = "read", !.done = ~ running]
      /\ shown' = shown /\ UNCHANGED <<file, running, run, pen>>
  BY DEF AskWhetherDone, Reads
<1> DEFINE g == follower'
<1>3. /\ g.at = "read" /\ g.alone = follower.alone /\ g.gone = follower.gone
      /\ g \in Places(Len(trace)) /\ ComeOf(g) = ComeOf(follower)
  BY <1>1, <1>2 DEF ReadOf, Places, ComeOf
<1> HIDE DEF g
<1>4. CameOf(trace, lines, g, shown)
  <2>1. g.at # "past"
    BY <1>3
  <2> QED
    BY <1>1, <1>3, <2>1, Zenon DEF ReadOf, CameOf
<1>5. SoFarOf(trace, lines, g, shown)
  BY <1>1, <1>2, <1>3 DEF ReadOf, SoFarOf
<1>6. ReadOf(trace, lines, g, shown)
  BY <1>1, <1>3, <1>4, <1>5 DEF ReadOf
<1> QED
  BY <1>2, <1>6, OnlyReads DEF g

LEMMA JudgeKeeps == ASSUME Sound, Judge PROVE Sound'
<1>1. ReadOf(trace, lines, follower, shown)
  BY DEF Sound
<1> DEFINE moved == follower.first \/ follower.cursor # follower.since
           again == moved \/ (follower.follow /\ ~ follower.done)
<1>2. /\ follower.at = "judge"
      /\ follower' = [follower EXCEPT !.at = IF again THEN "ask" ELSE "finished",
                                      !.since = follower.cursor, !.first = FALSE]
      /\ shown' = shown /\ UNCHANGED <<file, running, run, pen>>
  BY DEF Judge, Reads
<1> DEFINE g == follower'
<1>3. /\ g.at = (IF again THEN "ask" ELSE "finished")
      /\ g.alone = follower.alone /\ g.gone = follower.gone
      /\ g.since = follower.cursor
      /\ g \in Places(Len(trace))
  BY <1>1, <1>2 DEF ReadOf, Places
<1>4. ComeOf(g) = ComeOf(follower) /\ ComeOf(g) = follower.cursor
  BY <1>2, <1>3 DEF ComeOf
<1>5. g.at = "finished" => follower.cursor = follower.since
  BY <1>3
<1>6. g.at \in {"ask", "finished"}
  BY <1>3
<1> HIDE DEF g
<1>7. CameOf(trace, lines, g, shown)
  <2>1. g.at # "past"
    BY <1>6
  <2> QED
    BY <1>1, <1>4, <2>1, Zenon DEF ReadOf, CameOf
<1>8. SoFarOf(trace, lines, g, shown)
  BY <1>1, <1>2, <1>3, <1>4, <1>5, <1>6 DEF ReadOf, SoFarOf
<1>9. ReadOf(trace, lines, g, shown)
  BY <1>1, <1>3, <1>7, <1>8 DEF ReadOf
<1> QED
  BY <1>2, <1>9, OnlyReads DEF g

\* What was shown came from before, and is not shown again by what a read adds.
LEMMA ReadOnShows ==
    ASSUME NEW t \in Seq(TraceBytes), NEW n \in Lengths, Known(t, n), Apart(t, n),
           NEW s \in Seq(1..LastLine), OnceOf(s), NEW a \in 0..Len(t), NEW f, NEW g,
           CameOf(t, n, f, s), ComeOf(f) = a, Ends(ChunkOf(t, a)) # {}, g.at # "past",
           ComeOf(g) = a + LastEnd(ChunkOf(t, a))
    PROVE  /\ s \o EventsOf(ChunkOf(t, a), n) \in Seq(1..LastLine)
           /\ CameOf(t, n, g, s \o EventsOf(ChunkOf(t, a), n))
           /\ OnceOf(s \o EventsOf(ChunkOf(t, a), n))
<1> DEFINE c == ChunkOf(t, a)
           e == LastEnd(c)
           new == EventsOf(c, n)
           all == s \o new
<1>1. /\ c \in Seq(TraceBytes) /\ Len(c) \in Nat /\ DOMAIN c = 1..Len(c) /\ a + Len(c) <= Len(t)
      /\ \A i \in DOMAIN c : a + i \in DOMAIN t /\ c[i] = t[a + i]
  BY ChunkIs
<1>2. Known(c, n) /\ Apart(c, n)
  BY ChunkKnown, ChunkApart
<1>3. Len(t) \in Nat /\ a \in Nat /\ Ends(c) # {}
  OBVIOUS
<1>4. ComeOf(g) = a + e
  OBVIOUS
<1> HIDE DEF c
<1>5. e \in 1..Len(c) /\ \A i \in Ends(c) : i <= e
  BY <1>1, <1>3, LastEndIs
<1> HIDE DEF e
<1>6. /\ new \in Seq(1..LastLine)
      /\ \A q \in DOMAIN new : \E i \in DOMAIN c : SaysAt(c, n, i) = new[q]
  BY <1>1, <1>2, EventsHave
<1>7. \A p, q \in DOMAIN new : new[p] = new[q] => p = q
  BY <1>1, <1>2, EventsOnce
<1> HIDE DEF new
<1>8. /\ all \in Seq(1..LastLine) /\ Len(all) = Len(s) + Len(new)
      /\ \A k \in 1..(Len(s) + Len(new)) : all[k] = IF k <= Len(s) THEN s[k] ELSE new[k - Len(s)]
      /\ DOMAIN all = 1..Len(all)
  <2>1. /\ all \in Seq(1..LastLine) /\ Len(all) = Len(s) + Len(new)
        /\ \A k \in 1..(Len(s) + Len(new)) : all[k] = IF k <= Len(s) THEN s[k] ELSE new[k - Len(s)]
    BY <1>6, ConcatProperties
  <2> HIDE DEF all
  <2> QED
    BY <2>1
<1> HIDE DEF all
<1>9. /\ Len(s) \in Nat /\ DOMAIN s = 1..Len(s) /\ Len(new) \in Nat /\ DOMAIN new = 1..Len(new)
  BY <1>6
<1>10. \A k \in DOMAIN all : \/ k \in DOMAIN s /\ all[k] = s[k]
                             \/ k - Len(s) \in DOMAIN new /\ all[k] = new[k - Len(s)]
  <2> SUFFICES ASSUME NEW k \in DOMAIN all
               PROVE  \/ k \in DOMAIN s /\ all[k] = s[k]
                      \/ k - Len(s) \in DOMAIN new /\ all[k] = new[k - Len(s)]
    OBVIOUS
  <2>1. k \in 1..(Len(s) + Len(new))
    BY <1>8
  <2>2. CASE k <= Len(s)
    BY <2>1, <2>2, <1>8, <1>9
  <2>3. CASE ~ (k <= Len(s))
    <3>1. k - Len(s) \in 1..Len(new)
      BY <2>1, <2>3, <1>9
    <3> QED
      BY <3>1, <2>1, <2>3, <1>8, <1>9
  <2> QED
    BY <2>2, <2>3
<1>11. \A l \in 1..LastLine : l \in DOMAIN n => n[l] \in Nat /\ 1 \in 1..n[l]
  <2> SUFFICES ASSUME NEW l \in 1..LastLine, l \in DOMAIN n PROVE n[l] \in Nat /\ 1 \in 1..n[l]
    OBVIOUS
  <2>1. n[l] \in 1..Longest /\ Longest \in Nat
    BY TracesAssumption DEF Lengths
  <2> QED
    BY <2>1
\* A line just shown has its words after where the reading stood.
<1>12. ASSUME NEW q \in DOMAIN new
       PROVE  /\ new[q] \in DOMAIN n
              /\ \E p \in 0..Len(t) :
                    /\ a < p
                    /\ p + n[new[q]] <= a + e
                    /\ \A j \in 1..n[new[q]] : p + j \in DOMAIN t /\ t[p + j] = Byte(new[q], "said")
  <2> DEFINE l == new[q]
  <2>1. l \in 1..LastLine /\ l # 0
    <3>1. l \in 1..LastLine
      BY <1>6, ItemsOf
    <3> QED
      BY <3>1
  <2>2. PICK i \in DOMAIN c : SaysAt(c, n, i) = l
    BY <1>6
  <2> HIDE DEF l
  <2>3. /\ l \in DOMAIN n /\ i \in Ends(c)
        /\ \E p \in 0..Len(c) :
              /\ From(c, i) <= p /\ p + n[l] < i
              /\ \A j \in 1..n[l] : p + j \in DOMAIN c /\ c[p + j] = Byte(l, "said")
    <3>1. SaysAt(c, n, i) # 0
      BY <2>1, <2>2
    <3>2. /\ SaysAt(c, n, i) \in DOMAIN n /\ i \in Ends(c)
          /\ \E p \in 0..Len(c) :
                /\ From(c, i) <= p /\ p + n[SaysAt(c, n, i)] < i
                /\ \A j \in 1..n[SaysAt(c, n, i)] :
                      p + j \in DOMAIN c /\ c[p + j] = Byte(SaysAt(c, n, i), "said")
      BY <3>1, <1>1, <1>2, SaysAtIs
    <3> QED
      BY <3>2, <2>2
  <2>4. PICK p \in 0..Len(c) :
              /\ From(c, i) <= p /\ p + n[l] < i
              /\ \A j \in 1..n[l] : p + j \in DOMAIN c /\ c[p + j] = Byte(l, "said")
    BY <2>3
  <2>5. From(c, i) \in 1..i
    BY <1>1, FromIs
  <2>6. n[l] \in Nat
    BY <2>1, <2>3, <1>11
  <2>7. i <= e /\ i \in Nat /\ e \in Nat
    BY <2>3, <1>1, <1>5
  <2>8. a + p \in 0..Len(t) /\ a < a + p /\ (a + p) + n[l] <= a + e
    BY <2>4, <2>5, <2>6, <2>7, <1>1, <1>3
  <2>9. \A j \in 1..n[l] : (a + p) + j \in DOMAIN t /\ t[(a + p) + j] = Byte(l, "said")
    <3> SUFFICES ASSUME NEW j \in 1..n[l]
                 PROVE  (a + p) + j \in DOMAIN t /\ t[(a + p) + j] = Byte(l, "said")
      OBVIOUS
    <3>1. p + j \in DOMAIN c /\ c[p + j] = Byte(l, "said")
      BY <2>4
    <3>2. a + (p + j) \in DOMAIN t /\ t[a + (p + j)] = Byte(l, "said")
      BY <3>1, <1>1
    <3>3. a + (p + j) = (a + p) + j
      BY <1>1, <1>3
    <3> QED
      BY <3>2, <3>3
  <2> QED
    BY <2>3, <2>8, <2>9 DEF l
<1>13. ASSUME NEW k \in DOMAIN s
       PROVE  /\ s[k] \in DOMAIN n /\ s[k] \in 1..LastLine
              /\ \E p \in 0..Len(t) :
                    /\ p + n[s[k]] <= a
                    /\ \A j \in 1..n[s[k]] : p + j \in DOMAIN t /\ t[p + j] = Byte(s[k], "said")
  <2>1. s[k] \in 1..LastLine
    BY ItemsOf
  <2> QED
    BY <2>1, Zenon DEF CameOf
<1>14. CameOf(t, n, g, all)
  <2> SUFFICES ASSUME NEW k \in DOMAIN all
               PROVE  /\ all[k] \in DOMAIN n
                      /\ \E p \in 0..Len(t) :
                            /\ p + n[all[k]] <= ComeOf(g)
                            /\ \A j \in 1..n[all[k]] : p + j \in DOMAIN t /\ t[p + j] = Byte(all[k], "said")
    BY Zenon DEF CameOf
  <2>1. CASE k \in DOMAIN s /\ all[k] = s[k]
    <3>1. PICK p \in 0..Len(t) :
                    /\ p + n[s[k]] <= a
                    /\ \A j \in 1..n[s[k]] : p + j \in DOMAIN t /\ t[p + j] = Byte(s[k], "said")
      BY <2>1, <1>13
    <3>2. s[k] \in DOMAIN n /\ n[s[k]] \in Nat
      BY <2>1, <1>11, <1>13
    <3>3. p + n[s[k]] <= ComeOf(g)
      BY <3>1, <3>2, <1>1, <1>3, <1>4, <1>5
    <3> QED
      BY <2>1, <3>1, <3>2, <3>3
  <2>2. CASE k - Len(s) \in DOMAIN new /\ all[k] = new[k - Len(s)]
    <3> DEFINE q == k - Len(s)
    <3>1. q \in DOMAIN new /\ all[k] = new[q]
      BY <2>2
    <3> HIDE DEF q
    <3> QED
      BY <3>1, <1>4, <1>12
  <2> QED
    BY <2>1, <2>2, <1>10
<1>15. ASSUME NEW k \in DOMAIN s, NEW q \in DOMAIN new PROVE s[k] # new[q]
  <2> SUFFICES ASSUME s[k] = new[q] PROVE FALSE
    OBVIOUS
  <2> DEFINE l == s[k]
  <2>1. l \in DOMAIN n /\ l \in 1..LastLine
    BY <1>13
  <2>2. PICK p \in 0..Len(t) :
           /\ p + n[l] <= a
           /\ \A j \in 1..n[l] : p + j \in DOMAIN t /\ t[p + j] = Byte(l, "said")
    BY <1>13
  <2>3. PICK r \in 0..Len(t) :
           /\ a < r
           /\ \A j \in 1..n[l] : r + j \in DOMAIN t /\ t[r + j] = Byte(l, "said")
    BY <1>12
  <2> HIDE DEF l
  <2>4. n[l] \in Nat /\ 1 \in 1..n[l]
    BY <2>1, <1>11
  <2>5. /\ p + 1 \in DOMAIN t /\ t[p + 1] = Byte(l, "said")
        /\ r + 1 \in DOMAIN t /\ t[r + 1] = Byte(l, "said")
    BY <2>2, <2>3, <2>4
  <2>6. Byte(l, "said").part = "said" /\ Byte(l, "said").line = l
    BY DEF Byte
  <2>7. (r + 1) - (p + 1) < n[l]
    BY <2>5, <2>6 DEF Apart
  <2> QED
    BY <2>2, <2>3, <2>4, <2>7, <1>3
<1>16. OnceOf(all)
  <2> SUFFICES ASSUME NEW i \in DOMAIN all, NEW j \in DOMAIN all, all[i] = all[j] PROVE i = j
    BY Zenon DEF OnceOf
  <2>0. i \in Int /\ j \in Int
    BY <1>8
  <2>1. CASE i \in DOMAIN s /\ all[i] = s[i] /\ j \in DOMAIN s /\ all[j] = s[j]
    BY <2>1, Zenon DEF OnceOf
  <2>2. CASE i \in DOMAIN s /\ all[i] = s[i] /\ j - Len(s) \in DOMAIN new /\ all[j] = new[j - Len(s)]
    BY <2>2, <1>15
  <2>3. CASE j \in DOMAIN s /\ all[j] = s[j] /\ i - Len(s) \in DOMAIN new /\ all[i] = new[i - Len(s)]
    BY <2>3, <1>15
  <2>4. CASE /\ j - Len(s) \in DOMAIN new /\ all[j] = new[j - Len(s)]
             /\ i - Len(s) \in DOMAIN new /\ all[i] = new[i - Len(s)]
    <3>1. i - Len(s) = j - Len(s)
      BY <2>4, <1>7
    <3> QED
      BY <3>1, <2>0, <1>9
  <2> QED
    BY <2>1, <2>2, <2>3, <2>4, <1>10
<1> QED
  BY <1>8, <1>14, <1>16 DEF all, new, c

LEMMA ReadOnKeeps == ASSUME Sound, ReadOn PROVE Sound'
<1> DEFINE t == trace
           n == lines
           f == follower
           g == follower'
           a == f.since
           c == ChunkOf(t, a)
           e == LastEnd(c)
<1>1. /\ t \in Seq(TraceBytes) /\ n \in Lengths /\ Known(t, n) /\ Apart(t, n)
      /\ f \in Places(Len(t)) /\ shown \in Seq(1..LastLine)
      /\ CameOf(t, n, f, shown) /\ OnceOf(shown) /\ SoFarOf(t, n, f, shown)
  BY DEF Sound, FileOf, ReadOf
<1>2. /\ f.at = "read"
      /\ IF Ends(c) # {}
         THEN /\ shown' = shown \o EventsOf(c, n)
              /\ g = [f EXCEPT !.at = "judge", !.cursor = a + e]
         ELSE /\ g = [f EXCEPT !.at = "past", !.past = a + Len(c)]
              /\ shown' = shown
      /\ UNCHANGED <<file, running, run, pen>>
  <2>1. Chunk(follower.since) = c /\ Events(c) = EventsOf(c, n)
    BY ChunkIsOf, EventsAre, Zenon
  <2> QED
    BY <2>1, Zenon DEF ReadOn, Reads
<1>3. a \in 0..Len(t) /\ Len(t) \in Nat /\ a \in Nat
  BY <1>1 DEF Places
<1>4. ComeOf(f) = a
  BY <1>2 DEF ComeOf
<1> HIDE DEF a
<1>5. /\ c \in Seq(TraceBytes) /\ Len(c) \in Nat /\ DOMAIN c = 1..Len(c) /\ a + Len(c) <= Len(t)
      /\ Len(c) = AtMost \/ a + Len(c) = Len(t)
      /\ \A i \in DOMAIN c : a + i \in DOMAIN t /\ c[i] = t[a + i]
  BY <1>1, <1>3, ChunkIs
<1>6. Known(c, n)
  BY <1>1, <1>3, ChunkKnown
<1>7. CASE Ends(c) # {}
  <2>0. shown' = shown \o EventsOf(c, n) /\ g = [f EXCEPT !.at = "judge", !.cursor = a + e]
    BY <1>2, <1>7
  <2> HIDE DEF c
  <2>1. e \in 1..Len(c) /\ e \in Ends(c)
    BY <1>5, <1>7, LastEndIs
  <2>2. a + e \in 0..Len(t) /\ a + e # a /\ a + e \in DOMAIN t /\ c[e] = t[a + e] /\ a # Len(t)
    BY <1>3, <1>5, <2>1
  <2> HIDE DEF e
  <2>3. /\ g \in Places(Len(t)) /\ g.at = "judge" /\ g.cursor = a + e /\ g.since = a
        /\ g.alone = f.alone /\ g.gone = f.gone
    BY <1>1, <2>0, <2>2 DEF Places, a
  <2> HIDE DEF g
  <2>4. ComeOf(g) = a + e /\ g.at # "past"
    BY <2>3 DEF ComeOf
  <2>5. /\ shown' \in Seq(1..LastLine) /\ CameOf(t, n, g, shown') /\ OnceOf(shown')
    <3>1. Ends(ChunkOf(t, a)) # {} /\ ComeOf(g) = a + LastEnd(ChunkOf(t, a))
      BY <1>7, <2>4 DEF c, e
    <3>2. /\ shown \o EventsOf(ChunkOf(t, a), n) \in Seq(1..LastLine)
          /\ CameOf(t, n, g, shown \o EventsOf(ChunkOf(t, a), n))
          /\ OnceOf(shown \o EventsOf(ChunkOf(t, a), n))
      BY <1>1, <1>3, <1>4, <2>4, <3>1, ReadOnShows
    <3> QED
      BY <3>2, <2>0 DEF c
  <2>6. SoFarOf(t, n, g, shown')
    <3> SUFFICES ASSUME g.alone, ~ g.gone
                 PROVE  /\ shown' = FitTo(t, n, ComeOf(g))
                        /\ AtALine(t, ComeOf(g))
      BY <2>3, <2>2 DEF SoFarOf
    <3>1. shown = FitTo(t, n, a) /\ AtALine(t, a)
      BY <1>1, <1>2, <1>4, <2>3 DEF SoFarOf
    <3>2. a = 0 \/ a \in Ends(t)
      BY <3>1, <2>2 DEF AtALine
    <3>3. FitTo(t, n, a + e) = FitTo(t, n, a) \o EventsOf(c, n)
      BY <1>1, <1>3, <1>7, <3>2, FitNext DEF c, e
    <3>4. a + e \in Ends(t)
      BY <2>1, <2>2 DEF Ends
    <3> QED
      BY <2>0, <2>4, <3>1, <3>3, <3>4 DEF AtALine
  <2>7. ReadOf(t, n, g, shown')
    BY <2>3, <2>5, <2>6 DEF ReadOf
  <2> QED
    BY <1>2, <2>7, OnlyReads DEF g
<1>8. CASE Ends(c) = {}
  <2>0. shown' = shown /\ g = [f EXCEPT !.at = "past", !.past = a + Len(c)]
    BY <1>2, <1>8
  <2> HIDE DEF c, e
  <2>1. a + Len(c) \in 0..Len(t) /\ a + Len(c) >= a
    BY <1>3, <1>5
  <2>2. /\ g \in Places(Len(t)) /\ g.at = "past" /\ g.past = a + Len(c) /\ g.since = a
        /\ g.alone = f.alone /\ g.gone = f.gone
    BY <1>1, <2>0, <2>1 DEF Places, a
  <2> HIDE DEF g
  <2>3. ComeOf(g) = a
    BY <2>2 DEF ComeOf
  <2>4. CameOf(t, n, g, shown)
    <3>1. g.past >= g.since
      BY <2>1, <2>2
    <3> QED
      BY <3>1, <2>3, <1>1, <1>4, Zenon DEF CameOf
  <2>5. OverOf(t, g)
    <3>1. ASSUME NEW i \in Ends(t) PROVE i <= a \/ i > a + Len(c)
      <4> SUFFICES ASSUME ~ (i <= a), ~ (i > a + Len(c)) PROVE FALSE
        OBVIOUS
      <4>1. i \in 1..Len(t)
        BY <1>1 DEF Ends
      <4>2. i - a \in 1..Len(c) /\ a + (i - a) = i
        BY <4>1, <1>3, <1>5
      <4>3. i - a \in Ends(c)
        BY <4>2, <1>5 DEF Ends
      <4> QED
        BY <4>3, <1>8
    <3>2. a + Len(c) >= a + AtMost \/ a + Len(c) = Len(t)
      BY <1>3, <1>5, TracesAssumption
    <3> QED
      BY <3>1, <3>2, <2>2 DEF OverOf
  <2>6. SoFarOf(t, n, g, shown)
    BY <1>1, <1>2, <1>4, <2>2, <2>3, <2>5 DEF SoFarOf
  <2>7. ReadOf(t, n, g, shown)
    BY <1>1, <2>2, <2>4, <2>6 DEF ReadOf
  <2> QED
    BY <1>2, <2>0, <2>7, OnlyReads DEF g
<1> QED
  BY <1>7, <1>8

\* What lies between where the reading stands and the end of a line none read
\* holds is not shown.
LEMMA OverNothing ==
    ASSUME NEW t \in Seq(TraceBytes), NEW n \in Lengths, Known(t, n), NEW f \in Places(Len(t)),
           f.past >= f.since, OverOf(t, f), AtALine(t, f.since), NEW b \in 0..Len(t), b >= f.past,
           b = f.past \/ f.past # Len(t),
           \A i \in Ends(t) : i <= f.past \/ i >= b
    PROVE  FitTo(t, n, b) = FitTo(t, n, f.since)
<1> DEFINE a == f.since
           past == f.past
<1>0. DOMAIN t = 1..Len(t)
  OBVIOUS
<1>1. a \in 0..Len(t) /\ past \in 0..Len(t) /\ Len(t) \in Nat /\ AtMost \in Nat
  BY TracesAssumption DEF Places
<1>2. /\ past >= a
      /\ \A i \in Ends(t) : i <= a \/ i > past
      /\ past >= a + AtMost \/ past = Len(t)
      /\ a = 0 \/ a = Len(t) \/ a \in Ends(t)
      /\ b >= past /\ (b = past \/ past # Len(t))
      /\ \A i \in Ends(t) : i <= past \/ i >= b
  BY DEF OverOf, AtALine
<1>3. a \in Nat /\ a \in 0..b /\ past \in Nat /\ b \in Nat
  BY <1>1, <1>2
<1> HIDE DEF a, past
<1>4. ASSUME NEW i \in 1..(b - a) PROVE FitAt(t, n, a + i) = 0
  <2> DEFINE k == a + i
  <2>1. k \in 1..Len(t) /\ a < k /\ k <= b
    BY <1>1, <1>3
  <2> HIDE DEF k
  <2>2. CASE k \notin Ends(t)
    <3>1. SaysAt(t, n, k) = 0
      BY <2>2 DEF SaysAt
    <3> QED
      BY <3>1 DEF FitAt, k
  <2>3. CASE k \in Ends(t)
    <3>1. k > past
      BY <2>1, <2>3, <1>1, <1>2
    <3>2. k = b /\ past # Len(t) /\ past >= a + AtMost
      BY <2>1, <2>3, <3>1, <1>1, <1>2, <1>3
    <3>3. From(t, k) = a + 1
      <4>1. a + 1 \in 1..k /\ k \in DOMAIN t
        BY <2>1, <1>0, <1>1, <1>3
      <4>2. a + 1 = 1 \/ (a + 1) - 1 \in Ends(t)
        <5>1. (a + 1) - 1 = a /\ a # Len(t)
          BY <2>1, <1>1, <1>3
        <5> QED
          BY <5>1, <1>2
      <4>3. ASSUME NEW j \in Ends(t), j < k PROVE j < a + 1
        <5>1. j \in 1..Len(t)
          BY <1>0 DEF Ends
        <5>2. j <= past
          BY <4>3, <3>2, <1>2, <5>1, <1>3
        <5>3. j <= a
          BY <5>1, <5>2, <1>2, <1>3
        <5> QED
          BY <5>1, <5>3, <1>3
      <4> DEFINE from == a + 1
      <4>4. from \in 1..k /\ (from = 1 \/ from - 1 \in Ends(t)) /\ \A j \in Ends(t) : j < k => j < from
        BY <4>1, <4>2, <4>3
      <4> HIDE DEF from
      <4>5. From(t, k) = from
        BY <4>1, <4>4, <1>0, <1>1, FromIsThere
      <4> QED
        BY <4>5 DEF from
    <3>4. ~ (k - From(t, k) < AtMost)
      <4>1. ~ (k - (a + 1) < AtMost)
        BY <2>1, <3>1, <3>2, <1>1, <1>3
      <4> QED
        BY <3>3, <4>1
    <3>5. FitAt(t, n, k) = 0
      BY <3>4, Zenon DEF FitAt
    <3> QED
      BY <3>5 DEF k
  <2> QED
    BY <2>2, <2>3
<1>5. FitTo(t, n, b) = FitTo(t, n, a)
  BY <1>3, <1>4, FitOver
<1> QED
  BY <1>5 DEF a

LEMMA PastTheLineKeeps == ASSUME Sound, PastTheLine PROVE Sound'
<1> DEFINE t == trace
           n == lines
           f == follower
           g == follower'
           past == f.past
           c == ChunkOf(t, past)
           e == FirstEnd(c)
<1>1. /\ t \in Seq(TraceBytes) /\ n \in Lengths /\ Known(t, n) /\ Apart(t, n)
      /\ f \in Places(Len(t)) /\ shown \in Seq(1..LastLine)
      /\ CameOf(t, n, f, shown) /\ OnceOf(shown) /\ SoFarOf(t, n, f, shown)
  BY DEF Sound, FileOf, ReadOf
<1>2. /\ f.at = "past"
      /\ g = (IF c = <<>> THEN [f EXCEPT !.at = "judge", !.cursor = past, !.past = 0]
              ELSE IF Ends(c) # {}
              THEN [f EXCEPT !.at = "judge", !.past = 0, !.cursor = past + e]
              ELSE [f EXCEPT !.past = past + Len(c)])
      /\ shown' = shown
      /\ UNCHANGED <<file, running, run, pen>>
  <2>1. Chunk(follower.past) = c
    BY ChunkIsOf, Zenon
  <2> QED
    BY <2>1, Zenon DEF PastTheLine, Reads
<1>3. past \in 0..Len(t) /\ Len(t) \in Nat /\ past \in Nat /\ f.since \in Nat /\ f.since \in 0..Len(t)
  BY <1>1 DEF Places
<1>4. past >= f.since /\ ComeOf(f) = f.since
  BY <1>1, <1>2 DEF CameOf, ComeOf
<1>5. /\ c \in Seq(TraceBytes) /\ Len(c) \in Nat /\ DOMAIN c = 1..Len(c) /\ past + Len(c) <= Len(t)
      /\ Len(c) = AtMost \/ past + Len(c) = Len(t)
      /\ \A i \in DOMAIN c : past + i \in DOMAIN t /\ c[i] = t[past + i]
  <2> HIDE DEF past
  <2> QED
    BY <1>1, <1>3, ChunkIs
\* Where nobody writes it has shown what fits up to where it stands.
<1>6. f.alone /\ ~ f.gone => shown = FitTo(t, n, f.since) /\ AtALine(t, f.since) /\ OverOf(t, f)
  BY <1>1, <1>2, <1>4 DEF SoFarOf
<1>7. \A i \in Ends(t) : \/ i <= past \/ i > past + Len(c)
                         \/ i - past \in Ends(c)
  <2> SUFFICES ASSUME NEW i \in Ends(t), ~ (i <= past), ~ (i > past + Len(c)) PROVE i - past \in Ends(c)
    OBVIOUS
  <2> HIDE DEF past, c
  <2>1. i \in 1..Len(t)
    BY <1>1 DEF Ends
  <2>2. i - past \in 1..Len(c) /\ past + (i - past) = i
    BY <2>1, <1>3, <1>5
  <2> QED
    BY <2>2, <1>5 DEF Ends
\* Where the reading has come to the end of the line, or of the file.
<1>8. ASSUME NEW b \in 0..Len(t), b >= past, b = past \/ past # Len(t),
             b = Len(t) \/ b \in Ends(t), b = f.since => b = Len(t),
             \A i \in Ends(t) : i <= past \/ i >= b,
             g = [f EXCEPT !.at = "judge", !.past = 0, !.cursor = b]
      PROVE  ReadOf(t, n, g, shown)
  <2>1. /\ g \in Places(Len(t)) /\ g.at = "judge" /\ g.cursor = b /\ g.since = f.since
        /\ g.alone = f.alone /\ g.gone = f.gone
    <3>1. 0 \in 0..Len(t)
      BY <1>3
    <3> QED
      BY <1>1, <1>8, <3>1 DEF Places
  <2> HIDE DEF g
  <2>2. ComeOf(g) = b
    BY <2>1 DEF ComeOf
  <2>3. CameOf(t, n, g, shown)
    <3> SUFFICES ASSUME NEW k \in DOMAIN shown
                 PROVE  /\ shown[k] \in DOMAIN n
                        /\ \E p \in 0..Len(t) :
                              /\ p + n[shown[k]] <= ComeOf(g)
                              /\ \A j \in 1..n[shown[k]] :
                                    p + j \in DOMAIN t /\ t[p + j] = Byte(shown[k], "said")
      BY <2>1, Zenon DEF CameOf
    <3>1. /\ shown[k] \in DOMAIN n
          /\ \E p \in 0..Len(t) :
                /\ p + n[shown[k]] <= ComeOf(f)
                /\ \A j \in 1..n[shown[k]] : p + j \in DOMAIN t /\ t[p + j] = Byte(shown[k], "said")
      BY <1>1, Zenon DEF CameOf
    <3>2. PICK p \in 0..Len(t) :
                /\ p + n[shown[k]] <= ComeOf(f)
                /\ \A j \in 1..n[shown[k]] : p + j \in DOMAIN t /\ t[p + j] = Byte(shown[k], "said")
      BY <3>1
    <3>3. n[shown[k]] \in Nat
      <4>1. n[shown[k]] \in 1..Longest /\ Longest \in Nat
        BY <1>1, <3>1, TracesAssumption, ItemsOf DEF Lengths
      <4> QED
        BY <4>1
    <3>4. p + n[shown[k]] <= ComeOf(g)
      <4> DEFINE m == n[shown[k]]
      <4>1. m \in Nat /\ p + m <= f.since
        BY <3>2, <3>3, <1>4
      <4> HIDE DEF m
      <4>2. p + m <= b
        BY <4>1, <1>3, <1>4, <1>8
      <4> QED
        BY <4>2, <2>2 DEF m
    <3> QED
      BY <3>1, <3>2, <3>4
  <2>4. SoFarOf(t, n, g, shown)
    <3> SUFFICES ASSUME g.alone, ~ g.gone
                 PROVE  shown = FitTo(t, n, b) /\ AtALine(t, b)
      BY <2>1, <2>2, <1>8 DEF SoFarOf
    <3>1. shown = FitTo(t, n, f.since) /\ AtALine(t, f.since) /\ OverOf(t, f)
      BY <1>6, <2>1
    <3>2. FitTo(t, n, b) = FitTo(t, n, f.since)
      BY <1>1, <1>4, <1>8, <3>1, OverNothing
    <3>3. AtALine(t, b)
      BY <1>8 DEF AtALine
    <3> QED
      BY <3>1, <3>2, <3>3
  <2> QED
    BY <1>1, <2>1, <2>3, <2>4 DEF ReadOf
<1>9. ReadOf(t, n, g, shown)
  <2>1. CASE c = <<>>
    <3>1. g = [f EXCEPT !.at = "judge", !.past = 0, !.cursor = past]
      BY <1>2, <2>1
    <3> HIDE DEF c, g
    <3>2. Len(c) = 0
      BY <2>1
    <3>3. past = Len(t)
      BY <3>2, <1>3, <1>5, TracesAssumption
    <3>4. /\ past \in 0..Len(t) /\ past >= past
          /\ \A i \in Ends(t) : i <= past \/ i >= past
      <4>1. Ends(t) \subseteq 1..Len(t)
        BY <1>1 DEF Ends
      <4> QED
        BY <4>1, <1>3
    <3> HIDE DEF past
    <3> QED
      BY <1>8, <3>1, <3>3, <3>4 DEF g
  <2>2. CASE c # <<>> /\ Ends(c) # {}
    <3>1. g = [f EXCEPT !.at = "judge", !.past = 0, !.cursor = past + e]
      BY <1>2, <2>2
    <3> HIDE DEF c, g, past
    <3>2. e \in Ends(c) /\ e \in 1..Len(c) /\ \A i \in Ends(c) : e <= i
      BY <1>5, <2>2, LastEndIs
    <3> DEFINE b == past + e
    <3>3. b \in 0..Len(t) /\ b >= past /\ past # Len(t) /\ b # f.since /\ b \in DOMAIN t /\ c[e] = t[b]
      <4> HIDE DEF e
      <4>1. b \in 0..Len(t) /\ b >= past /\ past # Len(t) /\ b # f.since
        BY <1>3, <1>4, <1>5, <3>2
      <4>2. b \in DOMAIN t /\ c[e] = t[b]
        BY <1>5, <3>2
      <4> QED
        BY <4>1, <4>2
    <3>4. b \in Ends(t)
      BY <3>2, <3>3 DEF Ends
    <3>5. ASSUME NEW i \in Ends(t) PROVE i <= past \/ i >= b
      <4> HIDE DEF e
      <4>1. i \in 1..Len(t)
        BY <1>1 DEF Ends
      <4>2. CASE i - past \in Ends(c)
        <5>1. e <= i - past
          BY <4>2, <3>2
        <5> QED
          BY <5>1, <4>1, <3>2, <1>3, <1>5
      <4>3. CASE i > past + Len(c)
        BY <4>1, <4>3, <3>2, <1>3, <1>5
      <4> QED
        BY <4>2, <4>3, <1>7
    <3>6. g = [f EXCEPT !.at = "judge", !.past = 0, !.cursor = b]
      BY <3>1
    <3> HIDE DEF b
    <3> QED
      BY <1>8, <3>3, <3>4, <3>5, <3>6 DEF g
  <2>3. CASE c # <<>> /\ Ends(c) = {}
    <3>1. g = [f EXCEPT !.past = past + Len(c)]
      BY <1>2, <2>3
    <3>2. past + Len(c) \in 0..Len(t) /\ past + Len(c) >= past /\ past + Len(c) >= f.since
      <4> HIDE DEF c, g, past
      <4> QED
        BY <1>3, <1>4, <1>5
    <3>3. /\ g \in Places(Len(t)) /\ g.at = "past" /\ g.past = past + Len(c) /\ g.since = f.since
          /\ g.alone = f.alone /\ g.gone = f.gone
      <4> DEFINE d == past + Len(c)
      <4>1. g = [f EXCEPT !.past = d] /\ d \in 0..Len(t)
        BY <3>1, <3>2
      <4> HIDE DEF d
      <4> QED
        BY <1>1, <1>2, <4>1 DEF Places, d
    <3> HIDE DEF c, g
    <3>4. ComeOf(g) = ComeOf(f)
      BY <1>2, <3>3 DEF ComeOf
    <3>5. CameOf(t, n, g, shown)
      <4>1. g.past >= g.since
        BY <3>2, <3>3
      <4> QED
        BY <4>1, <3>4, <1>1, Zenon DEF CameOf
    <3>6. OverOf(t, f) => OverOf(t, g)
      <4> SUFFICES ASSUME OverOf(t, f) PROVE OverOf(t, g)
        OBVIOUS
      <4>1. ASSUME NEW i \in Ends(t) PROVE i <= f.since \/ i > past + Len(c)
        <5>1. i <= f.since \/ i > past
          BY DEF OverOf
        <5>2. i <= past \/ i > past + Len(c)
          BY <1>7, <2>3
        <5>3. i \in 1..Len(t)
          BY <1>1 DEF Ends
        <5>4. Len(c) \in Nat
          BY <1>5
        <5> HIDE DEF past
        <5> QED
          BY <5>1, <5>2, <5>3, <5>4, <1>3
      <4>2. past + Len(c) >= f.since + AtMost \/ past + Len(c) = Len(t)
        <5>1. past >= f.since + AtMost \/ past = Len(t)
          BY DEF OverOf
        <5>2. AtMost \in Nat
          BY TracesAssumption
        <5>3. Len(c) \in Nat /\ past + Len(c) <= Len(t)
          BY <1>5
        <5> HIDE DEF past
        <5>4. CASE past >= f.since + AtMost
          BY <5>2, <5>3, <5>4, <1>3
        <5>5. CASE past = Len(t)
          BY <5>3, <5>5, <1>3
        <5> QED
          BY <5>1, <5>4, <5>5
      <4> QED
        BY <4>1, <4>2, <3>3 DEF OverOf
    <3>7. SoFarOf(t, n, g, shown)
      BY <1>1, <1>2, <3>3, <3>4, <3>6 DEF SoFarOf
    <3> QED
      BY <1>1, <3>3, <3>5, <3>7 DEF ReadOf
  <2> QED
    BY <2>1, <2>2, <2>3
<1> QED
  BY <1>2, <1>9, OnlyReads

LEMMA TracesStep == Sound /\ [TraceNext]_traceVars => Sound'
<1> SUFFICES ASSUME Sound, [TraceNext]_traceVars PROVE Sound'
  OBVIOUS
<1>1. CASE UNCHANGED traceVars
  BY <1>1 DEF traceVars, file, Sound
<1>2. CASE RunBegins
  BY <1>2, RunBeginsKeeps
<1>3. CASE Interrupted
  BY <1>3, InterruptedKeeps
<1>4. CASE Dies
  BY <1>4, DiesKeeps
<1>5. CASE StartReading
  BY <1>5, StartReadingKeeps
<1>6. CASE ReadStep
  BY <1>6, AskWhetherDoneKeeps, ReadOnKeeps, PastTheLineKeeps, JudgeKeeps DEF ReadStep
<1>7. ASSUME NEW r \in 1..MostRuns, LineBegins(r) \/ RunStep(r) PROVE Sound'
  BY <1>7, LineBeginsKeeps, PieceWrittenKeeps, RunIsOverKeeps DEF RunStep
<1> QED
  BY <1>1, <1>2, <1>3, <1>4, <1>5, <1>6, <1>7 DEF TraceNext

\* What a trace and a reading of it are, whoever writes, dies or is interrupted
\* while it is read, for any bytes, lines, runs and sizes of a read: what a line
\* says is in the file once, what was shown came before where the reading
\* stands, and while nobody writes it is what fits up to there.
THEOREM TracesSound == TraceSpec => []TracesInductive
<1>1. TraceSpec => []Sound
  BY TracesInitially, TracesStep, PTL DEF TraceSpec
<1> QED
  BY <1>1, InvariantIs, PTL

\* A cursor carries on from where the last read stopped: no line is shown twice.
THEOREM TracesShownOnce == TraceSpec => []ShownOnce
<1>1. TracesInductive => ShownOnce
  BY DEF TracesInductive
<1> QED
  BY <1>1, TracesSound, PTL

\* A reading during which nobody writes shows every line a read can hold.
THEOREM TracesShowWhatFits == TraceSpec => []ShowsWhatFits
<1>1. TracesInductive => ShowsWhatFits
  BY DEF TracesInductive, ShownSoFar, ShowsWhatFits, Fitting, Come
<1> QED
  BY <1>1, TracesSound, PTL

----------------------------------------------------------------------------
(* What an entry says, read and written back. *)

LEMMA SpanParts ==
    ASSUME NEW t \in Nat
    PROVE  /\ t \div 3600 \in Nat /\ (t % 3600) \div 60 \in Nat /\ t % 60 \in Nat
           /\ Seconds(t \div 3600, (t % 3600) \div 60, t % 60) = t
<1> DEFINE h == t \div 3600
           r == t % 3600
           m == r \div 60
           s == t % 60
<1>1. h \in Nat /\ r \in 0..3599 /\ t = 3600 * h + r
  OBVIOUS
<1>2. m \in Nat /\ s \in 0..59 /\ r = 60 * m + (r % 60)
  BY <1>1
<1>3. s = r % 60
  BY <1>1, <1>2
<1> QED
  BY <1>1, <1>2, <1>3 DEF Seconds

SpanOf(h, m, s) == SaidOf(h, "h") \o SaidOf(m, "m") \o SaidOf(s, "s")

LEMMA RowsOfUpToThree ==
    ASSUME NEW a, NEW b, NEW c
    PROVE  /\ (<<a>> \o <<b>>) \o <<c>> = <<a, b, c>>
           /\ (<<a>> \o <<b>>) \o <<>> = <<a, b>>
           /\ (<<a>> \o <<>>) \o <<c>> = <<a, c>>
           /\ (<<a>> \o <<>>) \o <<>> = <<a>>
           /\ (<<>> \o <<b>>) \o <<c>> = <<b, c>>
           /\ (<<>> \o <<b>>) \o <<>> = <<b>>
           /\ (<<>> \o <<>>) \o <<c>> = <<c>>
<1> DEFINE S == {a, b, c}
<1>1. \A q \in Seq(S), e \in S : Append(q, e) = q \o <<e>>
  BY AppendIsConcat
<1>2. /\ a \in S /\ b \in S /\ c \in S
      /\ <<a>> \in Seq(S) /\ <<b>> \in Seq(S) /\ <<a, b>> \in Seq(S)
  OBVIOUS
<1> HIDE DEF S
<1>3. \A q \in Seq(S), e \in S :
          /\ Append(q, e) \in Seq(S) /\ Len(Append(q, e)) = Len(q) + 1
          /\ \A i \in 1..Len(q) : Append(q, e)[i] = q[i]
          /\ Append(q, e)[Len(q) + 1] = e
  BY AppendProperties
<1>4. \A p, q \in Seq(S) : Len(p) = Len(q) /\ (\A i \in 1..Len(p) : p[i] = q[i]) => p = q
  BY SeqEqual
<1>5. ASSUME NEW x \in S, NEW y \in S PROVE Append(<<x>>, y) = <<x, y>>
  <2>1. <<x>> \in Seq(S) /\ <<x, y>> \in Seq(S) /\ Len(<<x>>) = 1 /\ Len(<<x, y>>) = 2
    OBVIOUS
  <2>2. Append(<<x>>, y)[1] = x /\ Append(<<x>>, y)[2] = y /\ Len(Append(<<x>>, y)) = 2
    BY <1>3, <2>1
  <2>3. \A i \in 1..2 : Append(<<x>>, y)[i] = <<x, y>>[i]
    BY <2>2
  <2> QED
    BY <1>3, <1>4, <2>1, <2>2, <2>3
<1>6. Append(<<a, b>>, c) = <<a, b, c>>
  <2>1. <<a, b>> \in Seq(S) /\ <<a, b, c>> \in Seq(S) /\ Len(<<a, b>>) = 2 /\ Len(<<a, b, c>>) = 3
    BY <1>2
  <2>2. /\ Append(<<a, b>>, c)[1] = a /\ Append(<<a, b>>, c)[2] = b /\ Append(<<a, b>>, c)[3] = c
        /\ Len(Append(<<a, b>>, c)) = 3
    BY <1>2, <1>3, <2>1
  <2>3. \A i \in 1..3 : Append(<<a, b>>, c)[i] = <<a, b, c>>[i]
    BY <2>2
  <2>4. Append(<<a, b>>, c) \in Seq(S)
    BY <1>2, <1>3, <2>1, Zenon
  <2>5. Len(Append(<<a, b>>, c)) = Len(<<a, b, c>>) /\ 1..Len(Append(<<a, b>>, c)) = 1..3
    BY <2>1, <2>2
  <2> QED
    BY <1>4, <2>1, <2>3, <2>4, <2>5, Zenon
<1>7. /\ <<a>> \o <<b>> = <<a, b>> /\ <<a>> \o <<c>> = <<a, c>> /\ <<b>> \o <<c>> = <<b, c>>
      /\ <<a, b>> \o <<c>> = <<a, b, c>>
  BY <1>1, <1>2, <1>5, <1>6, Zenon
<1>8. /\ <<>> \o <<b>> = <<b>> /\ <<>> \o <<c>> = <<c>>
      /\ <<>> \o <<>> = <<>>
  OBVIOUS
<1>9. /\ <<a, b>> \o <<>> = <<a, b>>
      /\ <<a>> \o <<>> = <<a>>
      /\ <<b>> \o <<>> = <<b>>
  OBVIOUS
<1> QED
  BY <1>7, <1>8, <1>9, Zenon

\* A span as the pieces of what is not nothing.
SpanShape(h, m, s, r) ==
    \/ h > 0 /\ m > 0 /\ s > 0 /\ r = <<Piece(h, "h"), Piece(m, "m"), Piece(s, "s")>>
    \/ h > 0 /\ m > 0 /\ s = 0 /\ r = <<Piece(h, "h"), Piece(m, "m")>>
    \/ h > 0 /\ m = 0 /\ s > 0 /\ r = <<Piece(h, "h"), Piece(s, "s")>>
    \/ h > 0 /\ m = 0 /\ s = 0 /\ r = <<Piece(h, "h")>>
    \/ h = 0 /\ m > 0 /\ s > 0 /\ r = <<Piece(m, "m"), Piece(s, "s")>>
    \/ h = 0 /\ m > 0 /\ s = 0 /\ r = <<Piece(m, "m")>>
    \/ h = 0 /\ m = 0 /\ s > 0 /\ r = <<Piece(s, "s")>>
    \/ h = 0 /\ m = 0 /\ s = 0

LEMMA SpanRow ==
    ASSUME NEW h \in Nat, NEW m \in Nat, NEW s \in Nat, NEW r, r = SpanOf(h, m, s)
    PROVE  SpanShape(h, m, s, r)
<1>1. \A a, b, c :
          /\ (<<a>> \o <<b>>) \o <<c>> = <<a, b, c>>
          /\ (<<a>> \o <<b>>) \o <<>> = <<a, b>>
          /\ (<<a>> \o <<>>) \o <<c>> = <<a, c>>
          /\ (<<a>> \o <<>>) \o <<>> = <<a>>
          /\ (<<>> \o <<b>>) \o <<c>> = <<b, c>>
          /\ (<<>> \o <<b>>) \o <<>> = <<b>>
          /\ (<<>> \o <<>>) \o <<c>> = <<c>>
  BY RowsOfUpToThree
<1> DEFINE A == SaidOf(h, "h")
           B == SaidOf(m, "m")
           C == SaidOf(s, "s")
<1>2. A = IF h > 0 THEN <<Piece(h, "h")>> ELSE <<>>
  BY DEF SaidOf
<1>3. B = IF m > 0 THEN <<Piece(m, "m")>> ELSE <<>>
  BY DEF SaidOf
<1>4. C = IF s > 0 THEN <<Piece(s, "s")>> ELSE <<>>
  BY DEF SaidOf
<1>5. r = (A \o B) \o C
  BY DEF SpanOf
<1> HIDE DEF A, B, C
<1>6. (h > 0 \/ h = 0) /\ (m > 0 \/ m = 0) /\ (s > 0 \/ s = 0)
  OBVIOUS
<1>7. (h = 0 => ~ h > 0) /\ (m = 0 => ~ m > 0) /\ (s = 0 => ~ s > 0)
  OBVIOUS
<1>8. CASE h > 0
  <2>1. A = <<Piece(h, "h")>>
    BY <1>2, <1>8, Zenon
  <2>2. CASE m > 0
    <3>1. B = <<Piece(m, "m")>>
      BY <1>3, <2>2, Zenon
    <3>2. CASE s > 0
      <4>1. r = (<<Piece(h, "h")>> \o <<Piece(m, "m")>>) \o <<Piece(s, "s")>>
        BY <1>4, <1>5, <2>1, <3>1, <3>2, Zenon
      <4>2. \A a, b, c : (<<a>> \o <<b>>) \o <<c>> = <<a, b, c>>
        BY <1>1, Zenon
      <4>3. r = <<Piece(h, "h"), Piece(m, "m"), Piece(s, "s")>>
        BY <4>1, <4>2, Zenon
      <4> QED
        BY <1>8, <2>2, <3>2, <4>3, Zenon DEF SpanShape
    <3>3. CASE s = 0
      <4>1. r = (<<Piece(h, "h")>> \o <<Piece(m, "m")>>) \o <<>>
        BY <1>4, <1>5, <1>7, <2>1, <3>1, <3>3, Zenon
      <4> QED
        BY <1>1, <1>8, <2>2, <3>3, <4>1, Zenon DEF SpanShape
    <3> QED
      BY <1>6, <3>2, <3>3, Zenon
  <2>3. CASE m = 0
    <3>1. B = <<>>
      BY <1>3, <1>7, <2>3, Zenon
    <3> QED
      BY <1>1, <1>4, <1>5, <1>6, <1>7, <1>8, <2>1, <2>3, <3>1, ZenonT(30) DEF SpanShape
  <2> QED
    BY <1>6, <2>2, <2>3, Zenon
<1>9. CASE h = 0
  <2>1. A = <<>>
    BY <1>2, <1>7, <1>9, Zenon
  <2>2. CASE m > 0
    <3>1. B = <<Piece(m, "m")>>
      BY <1>3, <2>2, Zenon
    <3> QED
      BY <1>1, <1>4, <1>5, <1>6, <1>7, <1>9, <2>1, <2>2, <3>1, ZenonT(30) DEF SpanShape
  <2>3. CASE m = 0
    <3>1. B = <<>>
      BY <1>3, <1>7, <2>3, Zenon
    <3> QED
      BY <1>1, <1>4, <1>5, <1>6, <1>7, <1>9, <2>1, <2>3, <3>1, ZenonT(30) DEF SpanShape
  <2> QED
    BY <1>6, <2>2, <2>3, Zenon
<1> QED
  BY <1>6, <1>8, <1>9, Zenon

\* What a text of pieces in their order says, of each unit.
LEMMA SpanReads ==
    ASSUME NEW h \in Nat, NEW m \in Nat, NEW s \in Nat, Seconds(h, m, s) \in 1..Wide,
           NEW r, r = SpanOf(h, m, s)
    PROVE  Span(r) = <<Seconds(h, m, s)>>
<1> DEFINE P(text) ==
        /\ \A i \in DOMAIN text : text[i].n # NoNumber /\ \E u \in 1..3 : text[i].then = Units[u]
        /\ \A i, j \in DOMAIN text :
              i < j => \E u, v \in 1..3 : text[i].then = Units[u] /\ text[j].then = Units[v] /\ u < v
        /\ CountOf(text, "h") = h /\ CountOf(text, "m") = m /\ CountOf(text, "s") = s
<1>1. P(r)
  <2>1. h > 0 \/ m > 0 \/ s > 0
    BY DEF Seconds
  <2>2. CASE h > 0 /\ m > 0 /\ s > 0 /\ r = <<Piece(h, "h"), Piece(m, "m"), Piece(s, "s")>>
    BY <2>2 DEF Piece, NoNumber, Units, CountOf
  <2>3. CASE h > 0 /\ m > 0 /\ s = 0 /\ r = <<Piece(h, "h"), Piece(m, "m")>>
    BY <2>3 DEF Piece, NoNumber, Units, CountOf
  <2>4. CASE h > 0 /\ m = 0 /\ s > 0 /\ r = <<Piece(h, "h"), Piece(s, "s")>>
    BY <2>4 DEF Piece, NoNumber, Units, CountOf
  <2>5. CASE h > 0 /\ m = 0 /\ s = 0 /\ r = <<Piece(h, "h")>>
    BY <2>5 DEF Piece, NoNumber, Units, CountOf
  <2>6. CASE h = 0 /\ m > 0 /\ s > 0 /\ r = <<Piece(m, "m"), Piece(s, "s")>>
    BY <2>6 DEF Piece, NoNumber, Units, CountOf
  <2>7. CASE h = 0 /\ m > 0 /\ s = 0 /\ r = <<Piece(m, "m")>>
    BY <2>7 DEF Piece, NoNumber, Units, CountOf
  <2>8. CASE h = 0 /\ m = 0 /\ s > 0 /\ r = <<Piece(s, "s")>>
    BY <2>8 DEF Piece, NoNumber, Units, CountOf
  <2>9. SpanShape(h, m, s, r)
    BY SpanRow
  <2>10. h = 0 => ~ h > 0
    OBVIOUS
  <2>11. m = 0 => ~ m > 0
    OBVIOUS
  <2>12. s = 0 => ~ s > 0
    OBVIOUS
  <2> HIDE DEF P
  <2> QED
    BY <2>1, <2>2, <2>3, <2>4, <2>5, <2>6, <2>7, <2>8, <2>9, <2>10, <2>11, <2>12, ZenonT(30)
    DEF SpanShape
<1> QED
  BY <1>1, Zenon DEF Span

LEMMA NumberIs ==
    ASSUME NEW text, NEW most
    PROVE  Number(text, most) = <<>> \/ \E n \in 0..most : Number(text, most) = <<n>>
  BY DEF Number

LEMMA NumberReadsAsWritten ==
    ASSUME NEW most \in Nat, NEW n \in 0..most
    PROVE  /\ Number(Digits(n), most) = <<n>>
           /\ \A label : Unlabelled(Digits(n), label) = Digits(n)
<1>1. Len(Digits(n)) = 1 /\ Digits(n)[1].n = n /\ Digits(n)[1].then = NoUnit
  BY DEF Digits, Piece
<1>2. Number(Digits(n), most) = <<n>>
  BY <1>1 DEF Number
<1>3. \A label : Unlabelled(Digits(n), label) = Digits(n)
  BY <1>1 DEF Unlabelled
<1> QED
  BY <1>2, <1>3

LEMMA ScaleIs == \A unit : Scale(unit) \in {1, 1000, 1000000}
  BY SMT DEF Scale

LEMMA ScaleFits ==
    ASSUME NEW unit, Wide \in Nat, NEW n \in Nat, n > 0, n <= Wide \div Scale(unit)
    PROVE  n * Scale(unit) \in 1..Wide
<1>1. CASE Scale(unit) = 1
  BY <1>1, SMT
<1>2. CASE Scale(unit) = 1000
  BY <1>2, SMT
<1>3. CASE Scale(unit) = 1000000
  BY <1>3, SMT
<1> QED
  BY ScaleIs, <1>1, <1>2, <1>3, SMT

LEMMA UsageIs ==
    ASSUME NEW text \in TextType, Wide \in Nat
    PROVE  \/ Usage(text) = <<>>
           \/ \E n \in 1..100 : Usage(text) = <<Share(n)>>
           \/ \E n \in 1..Wide : Usage(text) = <<Tokens(n)>>
<1>1. Len(text) = 1 => text[1].n \in Nat \cup {NoNumber}
  <2>1. \A S : \A q \in Seq(S) : Len(q) = 1 => q[1] \in S
    OBVIOUS
  <2>2. Len(text) = 1 => text[1] \in PieceType
    BY <2>1 DEF TextType
  <2> QED
    BY <2>2 DEF PieceType
<1> DEFINE n == text[1].n
           unit == text[1].then
<1>2. \/ Usage(text) = <<>>
      \/ n \in 1..100 /\ Usage(text) = <<Share(n)>>
      \/ /\ Len(text) = 1 /\ n # NoNumber /\ n > 0 /\ n <= Wide \div Scale(unit)
         /\ Usage(text) = <<Tokens(n * Scale(unit))>>
  BY SMT DEF Usage, NoUnit
<1> HIDE DEF n, unit
<1>3. CASE Len(text) = 1 /\ n # NoNumber /\ n > 0 /\ n <= Wide \div Scale(unit)
  <2>1. n * Scale(unit) \in 1..Wide
    BY <1>1, <1>3, ScaleFits DEF n
  <2> QED
    BY <1>2, <2>1
<1> QED
  BY <1>2, <1>3

LEMMA UsageReadsAsWritten ==
    ASSUME Wide \in Nat
    PROVE  /\ \A n \in 1..100 :
                 Usage(ShowUsage(Share(n))) = <<Share(n)>>
           /\ \A n \in 1..Wide :
                 Usage(ShowUsage(Tokens(n))) = <<Tokens(n)>>
<1>1. ASSUME NEW n \in 1..100
      PROVE  Usage(ShowUsage(Share(n))) = <<Share(n)>>
  <2> DEFINE text == <<Piece(n, "%")>>
  <2>1. ShowUsage(Share(n)) = text
    BY DEF ShowUsage, Share
  <2>2. Len(text) = 1 /\ text[1].n = n /\ text[1].then = "%"
    BY DEF Piece
  <2> HIDE DEF text
  <2>3. n # NoNumber
    BY DEF NoNumber
  <2>4. Usage(text) = <<Share(n)>>
    BY <2>2, <2>3, SMT DEF Usage, NoUnit
  <2> QED
    BY <2>1, <2>4
<1>2. ASSUME NEW n \in 1..Wide
      PROVE  Usage(ShowUsage(Tokens(n))) = <<Tokens(n)>>
  <2> DEFINE text == <<Piece(n, NoUnit)>>
  <2>1. ShowUsage(Tokens(n)) = text
    BY DEF ShowUsage, Tokens
  <2>2. Len(text) = 1 /\ text[1].n = n /\ text[1].then = NoUnit
    BY DEF Piece
  <2> HIDE DEF text
  <2>3. Scale(NoUnit) = 1
    BY SMT DEF Scale, NoUnit
  <2>4. n <= Wide \div 1 /\ n * 1 = n /\ n > 0 /\ n # NoNumber
    BY DEF NoNumber
  <2>5. Usage(text) = IF n > 0 /\ n <= Wide \div Scale(NoUnit) THEN <<Tokens(n * Scale(NoUnit))>> ELSE <<>>
    BY <2>2, <2>4, SMT DEF Usage, NoUnit
  <2> QED
    BY <2>1, <2>3, <2>4, <2>5, Zenon
<1> QED
  BY <1>1, <1>2

LEMMA SpanIs ==
    ASSUME NEW text PROVE Span(text) = <<>> \/ \E t \in 1..Wide : Span(text) = <<t>>
<1> DEFINE t == Seconds(CountOf(text, "h"), CountOf(text, "m"), CountOf(text, "s"))
<1>1. Span(text) = <<>> \/ (t \in 1..Wide /\ Span(text) = <<t>>)
  BY Zenon DEF Span
<1> QED
  BY <1>1

LEMMA SpanReadsAsWritten ==
    ASSUME Wide \in Nat, NEW t \in 1..Wide
    PROVE  Span(ShowSpan(t)) = <<t>>
<1> DEFINE h == t \div 3600
           m == (t % 3600) \div 60
           s == t % 60
<1>1. h \in Nat /\ m \in Nat /\ s \in Nat /\ Seconds(h, m, s) = t
  BY SpanParts
<1>2. ShowSpan(t) = SpanOf(h, m, s)
  BY DEF ShowSpan, SpanOf
<1> HIDE DEF h, m, s
<1>3. Span(SpanOf(h, m, s)) = <<Seconds(h, m, s)>>
  BY <1>1, SpanReads
<1> QED
  BY <1>1, <1>2, <1>3

\* What a text is read as is written in one way, and that reads the same.
LEMMA ParsedReadsAsWritten ==
    ASSUME NEW sort, NEW text \in TextType, Parse(sort, text) # <<>>
    PROVE  \E v : /\ Parse(sort, text) = <<v>>
                  /\ Parse(sort, Display(sort, v)) = <<v>>
<1>0. Wide \in Nat /\ Narrow \in Nat
  BY StoredAssumption
<1>1. CASE sort \in {"task", "session", "number", "count"}
  <2> DEFINE most == IF sort = "count" THEN Wide ELSE Narrow
  <2>1. \E other : Parse(sort, text) = Number(other, most)
    BY <1>1 DEF Parse
  <2>2. most \in Nat
    BY <1>0
  <2>3. \A v : Display(sort, v) = Digits(v)
    BY <1>1 DEF Display
  <2> HIDE DEF most
  <2>4. PICK v \in 0..most : Parse(sort, text) = <<v>>
    BY <2>1, NumberIs
  <2>5. Number(Digits(v), most) = <<v>> /\ \A label : Unlabelled(Digits(v), label) = Digits(v)
    BY <2>2, <2>4, NumberReadsAsWritten
  <2>6. Parse(sort, Digits(v)) = <<v>>
    BY <1>1, <2>5 DEF Parse, most
  <2> QED
    BY <2>3, <2>4, <2>6
<1>2. CASE sort = "usage"
  <2>1. Parse(sort, text) = Usage(text) /\ \A v : Display(sort, v) = ShowUsage(v)
    BY <1>2 DEF Parse, Display
  <2>2. \A other : Parse(sort, other) = Usage(other)
    BY <1>2 DEF Parse
  <2>3. \/ \E n \in 1..100 : Usage(text) = <<Share(n)>>
        \/ \E n \in 1..Wide : Usage(text) = <<Tokens(n)>>
    BY <1>0, <2>1, UsageIs
  <2> QED
    BY <1>0, <2>1, <2>2, <2>3, UsageReadsAsWritten, Zenon
<1>3. CASE sort = "time"
  <2>1. Parse(sort, text) = Span(text) /\ \A v : Display(sort, v) = ShowSpan(v)
    BY <1>3 DEF Parse, Display
  <2>2. \A other : Parse(sort, other) = Span(other)
    BY <1>3 DEF Parse
  <2>3. PICK t \in 1..Wide : Span(text) = <<t>>
    BY <2>1, SpanIs
  <2>4. Span(ShowSpan(t)) = <<t>>
    BY <1>0, <2>3, SpanReadsAsWritten
  <2> QED
    BY <2>1, <2>2, <2>3, <2>4, Zenon
<1>4. CASE sort \notin {"task", "session", "number", "count", "usage", "time"}
  <2>1. \A v : Display(sort, v) = v
    BY <1>4 DEF Display
  <2>2. \A words, other : OneOf(words, other) = <<>> \/ OneOf(words, other) = <<other>>
    BY DEF OneOf
  <2>3. Parse(sort, text) = <<>> \/ Parse(sort, text) = <<text>>
    BY <1>4, <2>2 DEF Parse
  <2> QED
    BY <2>1, <2>3, Zenon
<1> QED
  BY <1>1, <1>2, <1>3, <1>4

LEMMA AttemptsMayBeLeftOut ==
    ASSUME NEW kind \in Kind PROVE "attempts" \notin EntryOf(kind).there
  BY DEF Kind, EntryOf, TaskEntry, SessionEntry, RunEntry

\* What a field comes to, attempts and all.
FieldOf(kind, f, value) ==
    IF f = "attempts" THEN Attempts(Optional(kind, f, value)) ELSE Optional(kind, f, value)

\* What is written where there is something, and what is read of it.
LEMMA SomethingIsRead ==
    ASSUME NEW kind, NEW f, NEW text, NEW value, value \in {AsNumber(text), AsString(text)}
    PROVE  Optional(kind, f, value) = Parse(ReadAs(kind, f), text)
<1>1. value.text = text /\ value.sort # "null"
  BY DEF AsNumber, AsString, Json
<1>2. AsText(value) = <<text>> /\ AsOptional(value) = <<text>>
  BY <1>1, Zenon DEF AsText, AsOptional
<1>3. <<text>> # <<>> /\ <<text>>[1] = text
  OBVIOUS
<1> QED
  BY <1>2, <1>3, Zenon DEF Optional

\* A field that may be left out, and is.
LEMMA NothingIsRead ==
    ASSUME NEW kind, NEW f, f \notin EntryOf(kind).there
    PROVE  Optional(kind, f, Null) = <<>> /\ ~ Unread(kind, f, Null)
<1>1. Null.sort = "null"
  BY DEF Null, Json
<1>2. Optional(kind, f, Null) = <<>>
  BY <1>1, Zenon DEF Optional, AsOptional
<1> QED
  BY <1>1, <1>2, Zenon DEF Unread

LEMMA FieldReadsAsWritten ==
    ASSUME NEW kind \in Kind, NEW f, NEW value \in JsonType, ~ Unread(kind, f, value),
           NEW held, held = FieldOf(kind, f, value),
           NEW written, written = WrittenField(kind, f, held)
    PROVE  /\ ~ Unread(kind, f, written)
           /\ FieldOf(kind, f, written) = held
           /\ f = "unreadable" /\ value = Null => written = Null
<1> DEFINE as == ReadAs(kind, f)
<1>0. f = "attempts" => f \notin EntryOf(kind).there
  BY AttemptsMayBeLeftOut
<1>a. Attempts(<<>>) = <<0>> /\ \A v : Attempts(<<v>>) = <<v>>
  BY DEF Attempts
<1>1. ASSUME Optional(kind, f, value) = <<>>
      PROVE  f \notin EntryOf(kind).there /\ value.sort = "null" /\ written = Null /\ held = FieldOf(kind, f, Null)
  <2>1. f \notin EntryOf(kind).there /\ value.sort = "null"
    BY <1>1, Zenon DEF Unread
  <2>2. held = FieldOf(kind, f, Null)
    BY <1>1, <2>1, NothingIsRead, Zenon DEF FieldOf
  <2>3. held = <<>> \/ (f = "attempts" /\ held = <<0>>)
    BY <1>1, <1>a, Zenon DEF FieldOf
  <2>4. written = Null
    BY <2>3, Zenon DEF WrittenField, Left
  <2> QED
    BY <2>1, <2>2, <2>4, Zenon
<1>2. ASSUME Optional(kind, f, value) # <<>>
      PROVE  \E v : held = <<v>> /\ Optional(kind, f, value) = <<v>> /\ Parse(as, Display(as, v)) = <<v>>
  <2>1. value.text \in TextType
    BY DEF JsonType
  <2>2. Optional(kind, f, value) = Parse(as, value.text)
    <3>1. <<value.text>>[1] = value.text /\ <<value.text>> # <<>>
      OBVIOUS
    <3> QED
      BY <1>2, <3>1, Zenon DEF Optional, AsText, AsOptional
  <2>3. PICK v : Parse(as, value.text) = <<v>> /\ Parse(as, Display(as, v)) = <<v>>
    BY <1>2, <2>1, <2>2, ParsedReadsAsWritten
  <2>4. held = <<v>>
    BY <1>a, <2>2, <2>3, Zenon DEF FieldOf
  <2> QED
    BY <2>2, <2>3, <2>4, Zenon
<1>3. CASE Optional(kind, f, value) = <<>>
  <2>1. f \notin EntryOf(kind).there /\ written = Null /\ held = FieldOf(kind, f, Null)
    BY <1>1, <1>3, Zenon
  <2> QED
    BY <2>1, NothingIsRead, Zenon
<1>4. CASE Optional(kind, f, value) # <<>>
  <2>1. PICK v : held = <<v>> /\ Parse(as, Display(as, v)) = <<v>>
    BY <1>2, <1>4, Zenon
  <2>2. <<v>> # <<>> /\ <<v>>[1] = v
    OBVIOUS
  <2>3. CASE f = "attempts" /\ held = <<0>>
    <3>1. written = Null
      BY <2>3, Zenon DEF WrittenField, Left
    <3>2. Optional(kind, f, Null) = <<>> /\ ~ Unread(kind, f, Null)
      BY <1>0, <2>3, NothingIsRead, Zenon
    <3> QED
      BY <1>a, <2>3, <3>1, <3>2, Zenon DEF FieldOf
  <2>4. CASE ~ (f = "attempts" /\ held = <<0>>)
    <3>1. ~ Left(kind, f, held)
      BY <2>1, <2>2, <2>4, Zenon DEF Left
    <3>2. written \in {AsNumber(Display(as, v)), AsString(Display(as, v))}
      BY <2>1, <2>2, <3>1, Zenon DEF WrittenField
    <3>3. Optional(kind, f, written) = <<v>>
      BY <2>1, <3>2, SomethingIsRead
    <3>4. ~ Unread(kind, f, written)
      BY <2>2, <3>3, Zenon DEF Unread
    <3>5. FieldOf(kind, f, written) = held
      BY <1>a, <2>1, <3>3, Zenon DEF FieldOf
    <3>6. ~ (f = "unreadable" /\ value = Null)
      <4>1. "unreadable" \notin EntryOf(kind).there
        BY DEF Kind, EntryOf, TaskEntry, SessionEntry, RunEntry
      <4> QED
        BY <1>4, <4>1, NothingIsRead, Zenon
    <3> QED
      BY <3>4, <3>5, <3>6
  <2> QED
    BY <2>3, <2>4
<1> QED
  BY <1>3, <1>4

\* The figures of what was consumed.
LEMMA FiguresReadAsWritten ==
    ASSUME NEW kind \in Kind, NEW d \in DocumentType(kind), Readable(d),
           NEW r, r.counted = Figures(d), r.kind = kind,
           NEW w, w.counted = WrittenBack(r).counted, w.kind = kind
    PROVE  /\ Figures(w) = Figures(d)
           /\ w.counted = <<>> <=> d.counted = <<>>
           /\ w.counted # <<>> => \A g \in Figure : Figures(w)[1][g] # <<>>
<1> DEFINE as == FigureAs(kind)
           Once == [g \in Figure |-> Parse(as, d.counted[1][g].text)]
           Back == [g \in Figure |-> AsNumber(Display(as, Once[g][1]))]
           Again == [g \in Figure |-> Parse(as, w.counted[1][g].text)]
<1>1. d.kind = kind /\ d.counted \in Seq([Figure -> JsonType])
  BY DEF DocumentType
<1>2. Figures(d) = IF d.counted = <<>> THEN <<>> ELSE <<Once>>
  BY <1>1, Zenon DEF Figures
<1>3. Figures(w) = IF w.counted = <<>> THEN <<>> ELSE <<Again>>
  BY Zenon DEF Figures
<1>4. WrittenBack(r).counted =
          IF r.counted = <<>> THEN <<>>
          ELSE <<[g \in Figure |-> AsNumber(Display(FigureAs(r.kind), r.counted[1][g][1]))]>>
  BY DEF WrittenBack
<1>5. /\ \A x : <<x>> # <<>> /\ <<x>>[1] = x
  OBVIOUS
<1>6. CASE d.counted = <<>>
  <2>1. r.counted = <<>>
    BY <1>2, <1>6
  <2>2. w.counted = <<>>
    BY <1>4, <2>1
  <2> QED
    BY <1>2, <1>3, <1>6, <2>2
<1>7. CASE d.counted # <<>>
  <2>1. r.counted = <<Once>> /\ Figures(d) = <<Once>>
    BY <1>2, <1>7
  <2>2. r.counted # <<>> /\ r.counted[1] = Once
    BY <1>5, <2>1, Zenon
  <2>3. w.counted = <<Back>>
    BY <1>4, <2>2, Zenon
  <2>4. w.counted # <<>> /\ w.counted[1] = Back
    BY <1>5, <2>3, Zenon
  <2>5. \A g \in Figure : Once[g] # <<>>
    <3>1. \A g \in Figure : Figures(d)[1][g] # <<>>
      BY <1>7, Zenon DEF Readable
    <3>2. Figures(d)[1] = Once
      BY <1>5, <2>1, Zenon
    <3> QED
      BY <3>1, <3>2, Zenon
  <2>6. ASSUME NEW g \in Figure PROVE Again[g] = Once[g]
    <3>1. d.counted[1][g].text \in TextType
      <4>1. \A S : \A q \in Seq(S) : q # <<>> => q[1] \in S
        OBVIOUS
      <4>2. d.counted[1] \in [Figure -> JsonType]
        BY <1>1, <1>7, <4>1, Zenon
      <4> QED
        BY <4>2 DEF JsonType
    <3>2. Once[g] = Parse(as, d.counted[1][g].text)
      OBVIOUS
    <3>3. PICK v : Once[g] = <<v>> /\ Parse(as, Display(as, v)) = <<v>>
      BY <2>5, <3>1, <3>2, ParsedReadsAsWritten
    <3>4. Back[g] = AsNumber(Display(as, v))
      BY <1>5, <3>3, Zenon
    <3>5. AsNumber(Display(as, v)).text = Display(as, v)
      BY DEF AsNumber, Json
    <3>6. Again[g] = Parse(as, w.counted[1][g].text)
      OBVIOUS
    <3> HIDE DEF Once, Back, Again
    <3>7. w.counted[1][g].text = Display(as, v)
      BY <2>4, <3>4, <3>5, Zenon
    <3> QED
      BY <3>3, <3>6, <3>7, Zenon
  <2>7. Again = Once
    BY <2>6, Zenon
  <2>8. Figures(w) = <<Once>> /\ Figures(w)[1] = Once
    BY <1>3, <1>5, <2>4, <2>7, Zenon
  <2> QED
    BY <1>7, <2>1, <2>4, <2>5, <2>8, Zenon
<1> QED
  BY <1>6, <1>7

\* What the core makes of a document it can read reads the same once written.
Same(d) ==
    /\ Readable(WrittenBack(ReadOut(d)))
    /\ ReadOut(WrittenBack(ReadOut(d))) = ReadOut(d)

LEMMA DocumentReadsAsWritten ==
    ASSUME NEW kind \in Kind, NEW d \in DocumentType(kind), Readable(d)
    PROVE  Same(d)
<1> DEFINE r == ReadOut(d)
           w == WrittenBack(r)
<1>1. d.kind = kind /\ d.fields \in [Fields(kind) -> JsonType]
  BY DEF DocumentType
<1>2. /\ r.kind = kind /\ r.counted = Figures(d)
      /\ r.fields = [f \in Fields(kind) |-> FieldOf(kind, f, d.fields[f])]
  BY <1>1 DEF ReadOut, FieldOf
<1>3. w.kind = kind /\ w.fields = [f \in Fields(kind) |-> WrittenField(kind, f, r.fields[f])]
  BY <1>2 DEF WrittenBack
<1>4. /\ Figures(w) = Figures(d)
      /\ w.counted = <<>> <=> d.counted = <<>>
      /\ w.counted # <<>> => \A g \in Figure : Figures(w)[1][g] # <<>>
  <2> HIDE DEF r
  <2> QED
    BY <1>2, <1>3, FiguresReadAsWritten
<1>5. ASSUME NEW f \in Fields(kind)
      PROVE  /\ ~ Unread(kind, f, w.fields[f])
             /\ FieldOf(kind, f, w.fields[f]) = r.fields[f]
             /\ f = "unreadable" /\ d.fields[f] = Null => w.fields[f] = Null
  <2>1. d.fields[f] \in JsonType
    BY <1>1
  <2>2. ~ Unread(kind, f, d.fields[f])
    BY <1>1, Zenon DEF Readable
  <2>3. r.fields[f] = FieldOf(kind, f, d.fields[f]) /\ w.fields[f] = WrittenField(kind, f, r.fields[f])
    BY <1>2, <1>3, Zenon
  <2> HIDE DEF r, w
  <2> QED
    BY <2>1, <2>2, <2>3, FieldReadsAsWritten
<1>6. ~ Both(d) => ~ Both(w) \/ "unreadable" \notin Fields(kind)
  <2>1. Both(w) => w.counted # <<>> /\ w.fields["unreadable"] # Null
    BY Zenon DEF Both
  <2>2. ~ Both(d) => d.counted = <<>> \/ d.fields["unreadable"] = Null
    BY Zenon DEF Both
  <2> HIDE DEF r, w
  <2> QED
    BY <1>4, <1>5, <2>1, <2>2, Zenon
<1>7. kind = "task" => "unreadable" \in Fields(kind)
  BY DEF Fields, EntryOf, TaskEntry
<1>8. Readable(w)
  <2>1. kind = "task" => ~ Both(d)
    BY <1>1, Zenon DEF Readable
  <2> HIDE DEF r, w
  <2> QED
    BY <1>3, <1>4, <1>5, <1>6, <1>7, <2>1, Zenon DEF Readable
<1>9. ReadOut(w) = r
  <2>1. ReadOut(w) = [kind |-> kind,
                      fields |-> [f \in Fields(kind) |-> FieldOf(kind, f, w.fields[f])],
                      counted |-> Figures(w)]
    <3> HIDE DEF r, w
    <3> QED
      BY <1>3 DEF ReadOut, FieldOf
  <2>2. r = [kind |-> kind,
             fields |-> [f \in Fields(kind) |-> FieldOf(kind, f, d.fields[f])],
             counted |-> Figures(d)]
    BY <1>1 DEF ReadOut, FieldOf
  <2> HIDE DEF w
  <2>3. [f \in Fields(kind) |-> FieldOf(kind, f, w.fields[f])] = r.fields
    <3>1. r.fields = [f \in Fields(kind) |-> r.fields[f]]
      BY <1>2, Zenon
    <3> HIDE DEF r
    <3> QED
      BY <1>5, <3>1, Zenon
  <2> QED
    BY <1>2, <1>4, <2>1, <2>2, <2>3, Zenon
<1> QED
  BY <1>8, <1>9 DEF Same

\* A document that was written is one that says what was read of it.
StoredSound ==
    /\ reading \in {"kept", "read", "refused", "written"}
    /\ reading = "kept" => record = <<>> /\ document \in Documents
    /\ reading = "refused" => record = <<>>
    /\ reading = "read" => record = <<ReadOut(document)>> /\ Same(document)
    /\ reading = "written" =>
          /\ record = <<ReadOut(document)>>
          /\ Readable(document)
          /\ WrittenBack(ReadOut(document)) = document

LEMMA ReadItKeeps == ASSUME StoredSound, ReadIt PROVE StoredSound'
<1>1. CASE Readable(document)
  <2>1. record' = <<ReadOut(document)>> /\ reading' = "read" /\ document' = document
    BY <1>1, Zenon DEF ReadIt
  <2>2. Same(document)
    <3>1. CASE reading = "kept"
      <4>1. PICK kind \in Kind : document \in DocumentType(kind)
        BY <3>1, StoredAssumption DEF StoredSound
      <4> QED
        BY <1>1, <4>1, DocumentReadsAsWritten
    <3>2. CASE reading = "written"
      BY <1>1, <3>2, Zenon DEF StoredSound, Same
    <3> QED
      BY <3>1, <3>2 DEF ReadIt
  <2>3. Same(document)' /\ ReadOut(document') = ReadOut(document)
    BY <2>1, <2>2, Zenon DEF Same
  <2> QED
    BY <2>1, <2>3 DEF StoredSound
<1>2. CASE ~ Readable(document)
  <2>1. reading' = "refused" /\ record' = record /\ document' = document
    BY <1>2, Zenon DEF ReadIt
  <2>2. record = <<>>
    BY <1>2, Zenon DEF ReadIt, StoredSound
  <2> QED
    BY <2>1, <2>2 DEF StoredSound
<1> QED
  BY <1>1, <1>2

LEMMA WriteItKeeps == ASSUME StoredSound, WriteIt PROVE StoredSound'
<1>1. record = <<ReadOut(document)>> /\ Same(document)
  BY DEF StoredSound, WriteIt
<1>2. record[1] = ReadOut(document)
  BY <1>1
<1>3. document' = WrittenBack(ReadOut(document)) /\ reading' = "written" /\ record' = record
  BY <1>2, Zenon DEF WriteIt
<1>4. Readable(document') /\ ReadOut(document') = ReadOut(document)
  BY <1>1, <1>3, Zenon DEF Same
<1>5. record' = <<ReadOut(document')>> /\ WrittenBack(ReadOut(document')) = document'
  BY <1>1, <1>3, <1>4, Zenon
<1> QED
  BY <1>3, <1>4, <1>5 DEF StoredSound

LEMMA StoredIsSound == StoredSpec => []StoredSound
<1>1. StoredInit(Documents) => StoredSound
  BY DEF StoredInit, StoredSound
<1>2. StoredSound /\ [StoredNext]_storedVars => StoredSound'
  <2> SUFFICES ASSUME StoredSound, [StoredNext]_storedVars PROVE StoredSound'
    OBVIOUS
  <2>1. CASE ReadIt
    BY <2>1, ReadItKeeps
  <2>2. CASE WriteIt
    BY <2>2, WriteItKeeps
  <2>3. CASE UNCHANGED storedVars
    BY <2>3 DEF StoredSound, Same, storedVars
  <2> QED
    BY <2>1, <2>2, <2>3 DEF StoredNext
<1> QED
  BY <1>1, <1>2, PTL DEF StoredSpec

\* Whatever a store says of a task, a session or a run that the core can read
\* (`read_all` of adapter/outbound/file, `parse` and `fmt` of core/domain), it
\* reads again once it wrote it, and reads the same, over and over.
THEOREM StoredReadsAsWritten == StoredSpec => []ReadsAsWritten
<1>1. StoredSound => ReadsAsWritten
  <2> SUFFICES ASSUME StoredSound PROVE ReadsAsWritten
    OBVIOUS
  <2>1. record # <<>> => reading # "refused"
    BY DEF StoredSound
  <2>2. ASSUME reading = "written"
        PROVE  /\ Readable(document) /\ ReadOut(document) = record[1]
               /\ WrittenBack(ReadOut(document)) = document
    <3>1. record = <<ReadOut(document)>>
      BY <2>2 DEF StoredSound
    <3>2. record[1] = ReadOut(document)
      BY <3>1
    <3> QED
      BY <2>2, <3>2 DEF StoredSound
  <2> QED
    BY <2>1, <2>2 DEF ReadsAsWritten
<1> QED
  BY <1>1, StoredIsSound, PTL
=============================================================================
