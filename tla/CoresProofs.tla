---------------------------- MODULE CoresProofs ----------------------------
(***************************************************************************)
(* One core at a time, for any number of cores and command lines.          *)
(*                                                                         *)
(* A step is a core's, which leaves the command lines alone, or ends a     *)
(* core, or is a command line's; the invariant speaks of cores, so the     *)
(* last kind matters only where it starts or ends one.                     *)
(*                                                                         *)
(* And what goes between them: the time one request has to arrive in, and  *)
(* what becomes of a task that is added.  A spec is written as text and    *)
(* read again line by line; a text in two is read one after the other, so  *)
(* the round trip is taken a part at a time, and what the person saw, what *)
(* the repository held and what they settled all survive it.               *)
(***************************************************************************)
EXTENDS Cores, Requests, Adding, SequenceTheorems, WellFoundedInduction, TLAPS

USE DEF Core

\* The end of a process keeps the invariant of the cores.
LEMMA GoneKeeps ==
    ASSUME NEW c \in Core, Inductive, Gone(c)
    PROVE  /\ pc' \in [Core -> PC]
           /\ handler' \in [Core -> {"none", "set", "asked", "removed"}]
           /\ lock' \in Core \cup {Nobody}
           /\ sock' \in Core \cup {Nobody, Left}
           /\ LockHeld'
           /\ "early stop" \notin Ends => Path'
<1> USE NameAssumption
<1>1. /\ pc' \in [Core -> PC]
      /\ handler' \in [Core -> {"none", "set", "asked", "removed"}]
      /\ lock' \in Core \cup {Nobody}
      /\ sock' \in Core \cup {Nobody, Left}
  BY DEF Inductive, TypeOK, Gone, Goes, PC
<1>2. LockHeld'
  BY DEF Inductive, TypeOK, LockHeld, Gone, Goes, Opening, Bound
<1>3. "early stop" \notin Ends => Path'
  BY DEF Inductive, TypeOK, LockHeld, Path, Gone, Goes, Opening, Bound
<1> QED
  BY <1>1, <1>2, <1>3

\* So does its start.
LEMMA StartKeeps ==
    ASSUME NEW c \in Core, Inductive, pc[c] = "off", Starts(c), UNCHANGED <<lock, sock>>
    PROVE  /\ pc' \in [Core -> PC]
           /\ handler' \in [Core -> {"none", "set", "asked", "removed"}]
           /\ LockHeld'
           /\ "early stop" \notin Ends => Path'
<1>1. /\ pc' \in [Core -> PC]
      /\ handler' \in [Core -> {"none", "set", "asked", "removed"}]
  BY DEF Inductive, TypeOK, Starts, Goes, PC, Starting
<1>2. LockHeld'
  BY DEF Inductive, TypeOK, LockHeld, Starts, Goes, Opening, Bound
<1>3. "early stop" \notin Ends => Path'
  BY DEF Inductive, TypeOK, LockHeld, Path, Starts, Goes, Opening, Bound
<1> QED
  BY <1>1, <1>2, <1>3

\* And each call a core makes on its way to serving, and its handler's.
LEMMA CoreStepTypes ==
    ASSUME NEW c \in Core, TypeOK, CoreStep(c)
    PROVE  /\ pc' \in [Core -> PC]
           /\ handler' \in [Core -> {"none", "set", "asked", "removed"}]
           /\ lock' \in Core \cup {Nobody}
           /\ sock' \in Core \cup {Nobody, Left}
<1> USE DEF TypeOK, Goes, GivesUp, PC, Starting, Opening, Bound
<1> QED
  BY DEF CoreStep, Load, HoldAlone, Exists, Probe, RemoveDead, Bind, Listen, HandlerRemoves

LEMMA CoreStepLock ==
    ASSUME NEW c \in Core, TypeOK, LockHeld, CoreStep(c)
    PROVE  LockHeld'
<1> USE NameAssumption DEF TypeOK, LockHeld, Goes, GivesUp, Opening, Bound
<1>1. CASE Load(c)       BY <1>1 DEF Load
<1>2. CASE HoldAlone(c)
  <2>1. pc[c] \notin Opening \cup Bound /\ lock # c
    BY <1>2 DEF HoldAlone
  <2>2. CASE lock = Nobody
    <3>1. \A d \in Core : pc[d] \notin Opening \cup Bound
      BY <2>2
    <3>2. \A d \in Core : d # c => pc'[d] = pc[d]
      BY <1>2 DEF HoldAlone
    <3> QED
      BY <1>2, <2>2, <3>1, <3>2 DEF HoldAlone
  <2>3. CASE lock # Nobody
    <3>1. lock' = lock /\ pc' = [pc EXCEPT ![c] = "quitting"]
      BY <1>2, <2>1, <2>3 DEF HoldAlone
    <3> QED
      BY <2>1, <3>1
  <2> QED
    BY <2>2, <2>3
<1>3. CASE Exists(c)     BY <1>3 DEF Exists
<1>4. CASE Probe(c)      BY <1>4 DEF Probe, Answers
<1>5. CASE RemoveDead(c) BY <1>5 DEF RemoveDead
<1>6. CASE Bind(c)       BY <1>6 DEF Bind
<1>7. CASE Listen(c)     BY <1>7 DEF Listen
<1>8. CASE HandlerRemoves(c) BY <1>8 DEF HandlerRemoves
<1> QED
  BY <1>1, <1>2, <1>3, <1>4, <1>5, <1>6, <1>7, <1>8 DEF CoreStep

LEMMA CoreStepPath ==
    ASSUME NEW c \in Core, TypeOK, LockHeld, Path, CoreStep(c)
    PROVE  Path'
<1> USE NameAssumption DEF TypeOK, LockHeld, Path, Goes, GivesUp, Opening, Bound
<1>1. CASE Load(c)       BY <1>1 DEF Load
<1>2. CASE HoldAlone(c)
  <2>1. /\ pc[c] \notin Opening \cup Bound /\ lock # c /\ pc'[c] \in {"exists", "quitting"}
        /\ \A d \in Core : d # c => pc'[d] = pc[d]
        /\ UNCHANGED <<handler, sock>>
    BY <1>2 DEF HoldAlone
  <2>2. \A d \in Core : lock = d => lock' = d
    BY <1>2 DEF HoldAlone
  <2>3. sock' \in Core => pc'[sock'] \in Bound
    BY <2>1
  <2> QED
    BY <2>1, <2>2, <2>3
<1>3. CASE Exists(c)     BY <1>3 DEF Exists
<1>4. CASE Probe(c)      BY <1>4 DEF Probe, Answers
<1>5. CASE RemoveDead(c)
  <2>1. /\ lock = c /\ sock' = Nobody /\ UNCHANGED handler
        /\ \A d \in Core : d # c => pc'[d] = pc[d] /\ pc[d] \notin Opening \cup Bound
    BY <1>5 DEF RemoveDead
  <2>2. CASE sock = Nobody
    BY <1>5, <2>1, <2>2 DEF RemoveDead
  <2>3. CASE sock # Nobody
    BY <1>5, <2>1, <2>3 DEF RemoveDead
  <2> QED
    BY <2>2, <2>3
<1>6. CASE Bind(c)
  <2>1. /\ lock = c /\ sock = Nobody /\ sock' = c /\ UNCHANGED <<handler, lock>>
        /\ pc' = [pc EXCEPT ![c] = "bound"]
    BY <1>6 DEF Bind
  <2>2. \A d \in Core : d # c => pc'[d] = pc[d] /\ pc[d] \notin Opening \cup Bound
    BY <2>1
  <2> QED
    BY <2>1, <2>2
<1>7. CASE Listen(c)     BY <1>7 DEF Listen
<1>8. CASE HandlerRemoves(c) BY <1>8 DEF HandlerRemoves
<1> QED
  BY <1>1, <1>2, <1>3, <1>4, <1>5, <1>6, <1>7, <1>8 DEF CoreStep
----------------------------------------------------------------------------

\* The invariant holds to begin with: no core runs, and what is on the path is
\* nobody's.
LEMMA InitInductive == Init => Inductive
<1> SUFFICES ASSUME Init PROVE Inductive
  OBVIOUS
<1>1. TypeOK
  BY DEF Init, TypeOK, PC, Over
<1>2. LockHeld
  BY NameAssumption DEF Init, LockHeld, Opening, Bound
<1>3. Path
  BY NameAssumption DEF Init, Path, Bound
<1>4. Named
  BY DEF Init, Named
<1> QED
  BY <1>1, <1>2, <1>3, <1>4 DEF Inductive

\* Names stay free: only a command line that is past its first asking starts
\* the core of its name.
LEMMA StepNamed == Inductive /\ [Next]_vars => Named'
<1> SUFFICES ASSUME Inductive, [Next]_vars, NEW u \in Surface, at'[u] = "asking"
             PROVE  pc'[u] = "off"
  BY DEF Named
<1> USE NameAssumption DEF Inductive, TypeOK, Named
<1>1. ASSUME NEW c \in Core, CoreStep(c), UNCHANGED <<surface, disturbed>>
      PROVE  pc'[u] = "off"
  <2>1. pc[u] = "off" /\ (pc' = pc \/ (pc[c] # "off" /\ \A d \in Core : d # c => pc'[d] = pc[d]))
    BY <1>1 DEF surface, CoreStep, Load, HoldAlone, Exists, Probe, RemoveDead, Bind, Listen,
                HandlerRemoves, Goes, GivesUp
  <2> QED
    BY <2>1
<1>2. ASSUME NEW c \in Core, Gone(c), at[u] = "asking"
      PROVE  pc'[u] = "off"
  BY <1>2 DEF Gone, Goes
<1>3. ASSUME NEW c \in Core, LoadFails(c) \/ Quit(c) \/ Kill(c) \/ Signal(c) \/ HandlerExits(c)
      PROVE  pc'[u] = "off"
  <2>1. at[u] = "asking"
    BY <1>3 DEF LoadFails, Quit, Kill, Signal, HandlerExits, Breaks, surface
  <2>2. CASE LoadFails(c)
    BY <2>1, <2>2 DEF LoadFails, GivesUp, Goes
  <2> QED
    BY <1>2, <1>3, <2>1, <2>2 DEF Quit, Kill, Signal, HandlerExits
<1>4. ASSUME NEW c \in ByHand, StartByHand(c), UNCHANGED <<surface, disturbed>>
      PROVE  pc'[u] = "off"
  BY <1>4 DEF StartByHand, Starts, Goes, surface
<1>5. ASSUME NEW s \in Surface, Ask(s)
      PROVE  pc'[u] = "off"
  <2>1. u # s /\ at[u] = "asking"
    BY <1>5 DEF Ask, Connects, Moves
  <2> QED
    BY <1>5, <2>1 DEF Ask, Connects, Starts, Goes, core
<1>6. ASSUME NEW s \in Surface, GiveUp(s)
      PROVE  pc'[u] = "off"
  <2>1. at[u] = "asking"
    BY <1>6 DEF GiveUp, Moves
  <2> QED
    BY <1>2, <1>6, <2>1 DEF GiveUp, core
<1>7. ASSUME NEW s \in Surface, Command(s)
      PROVE  pc'[u] = "off"
  BY <1>7 DEF Command, Moves, core
<1>8. ASSUME NEW s \in Surface, AskAgain(s) \/ TryWait(s) \/ GoOn(s) \/ Answer(s)
      PROVE  pc'[u] = "off"
  BY <1>8 DEF AskAgain, TryWait, GoOn, Answer, Connects, Moves, core
<1>9. CASE UNCHANGED vars
  BY <1>9 DEF vars, core, surface
<1> QED
  BY <1>1, <1>3, <1>4, <1>5, <1>6, <1>7, <1>8, <1>9 DEF Next, SurfaceStep

\* What every step keeps but for the names.
Rest == TypeOK /\ LockHeld /\ ("early stop" \notin Ends => Path)

LEMMA StepRest == Inductive /\ [Next]_vars => Rest'
<1> SUFFICES ASSUME Inductive, [Next]_vars
             PROVE  Rest'
  OBVIOUS
<1> USE DEF Inductive, Rest
<1>1. ASSUME NEW c \in Core, CoreStep(c), UNCHANGED <<surface, disturbed>>
      PROVE  Rest'
  BY <1>1, CoreStepTypes, CoreStepLock, CoreStepPath DEF TypeOK, surface
<1>2. ASSUME NEW c \in Core, LoadFails(c)
      PROVE  Rest'
  <2>1. TypeOK'
    BY <1>2 DEF LoadFails, GivesUp, Goes, TypeOK, surface, PC
  <2>2. /\ pc[c] = "loading" /\ lock # c
        /\ pc' = [pc EXCEPT ![c] = "quitting"] /\ UNCHANGED <<handler, lock, sock>>
    BY <1>2 DEF LoadFails, GivesUp, Goes, TypeOK, LockHeld, Opening, Bound
  <2>3. LockHeld'
    BY <2>2 DEF LockHeld, TypeOK, Opening, Bound
  <2>4. "early stop" \notin Ends => Path'
    BY <2>2 DEF Path, LockHeld, TypeOK, Opening, Bound
  <2> QED
    BY <2>1, <2>3, <2>4
<1>3. ASSUME NEW c \in Core, Gone(c), to' = to, stopped' = stopped,
             at' \in [Surface -> UnderWay \cup Over], disturbed' \subseteq Surface
      PROVE  Rest'
  BY <1>3, GoneKeeps DEF TypeOK
<1>4. ASSUME NEW c \in Core, Quit(c)
      PROVE  Rest'
  <2>1. at' \in [Surface -> UnderWay \cup Over] /\ disturbed' \subseteq Surface
    BY <1>4 DEF Quit, surface, TypeOK
  <2> QED
    BY <1>3, <1>4, <2>1 DEF Quit, surface
<1>5. ASSUME NEW c \in Core, Gone(c), Breaks(c)
      PROVE  Rest'
  <2>1. at' \in [Surface -> UnderWay \cup Over] /\ disturbed' \subseteq Surface
    BY <1>5 DEF Breaks, TypeOK, Over
  <2> QED
    BY <1>3, <1>5, <2>1 DEF Breaks
<1>6. ASSUME NEW c \in Core, Signal(c)
      PROVE  Rest'
  <2>1. TypeOK'
    BY <1>6 DEF Signal, TypeOK, surface
  <2>2. LockHeld'
    BY <1>6 DEF Signal, LockHeld
  <2>3. "early stop" \notin Ends => Path'
    BY <1>6 DEF Signal, Path, TypeOK
  <2> QED
    BY <2>1, <2>2, <2>3
<1>7. ASSUME NEW c \in ByHand, StartByHand(c), UNCHANGED <<surface, disturbed>>
      PROVE  Rest'
  BY <1>7, StartKeeps DEF StartByHand, TypeOK, surface
<1>8. ASSUME NEW s \in Surface, UNCHANGED core, to' \in [Surface -> Core \cup {Nobody}],
             at' \in [Surface -> UnderWay \cup Over], stopped' \subseteq Surface,
             disturbed' \subseteq Surface
      PROVE  Rest'
  BY <1>8 DEF core, TypeOK, LockHeld, Path
<1>9. ASSUME NEW s \in Surface, Connects(s)
      PROVE  Rest'
  BY <1>8, <1>9 DEF Connects, Answers, Moves, TypeOK, UnderWay
<1>10. ASSUME NEW s \in Surface, Ask(s)
       PROVE  Rest'
  <2>1. CASE Connects(s)
    BY <1>9, <2>1
  <2>2. CASE Starts(s) /\ Moves(s, "waiting") /\ UNCHANGED <<lock, sock, to, stopped, disturbed>>
    <3>1. at' \in [Surface -> UnderWay \cup Over]
      BY <2>2 DEF Moves, TypeOK, UnderWay
    <3> QED
      BY <1>10, <2>2, <3>1, StartKeeps DEF TypeOK, Named, Ask
  <2> QED
    BY <1>10, <2>1, <2>2 DEF Ask
<1>11. ASSUME NEW s \in Surface, GiveUp(s)
       PROVE  Rest'
  <2>1. at' \in [Surface -> UnderWay \cup Over] /\ disturbed' \subseteq Surface
    BY <1>11 DEF GiveUp, Moves, TypeOK, Over
  <2>2. CASE UNCHANGED core
    BY <1>8, <1>11, <2>1, <2>2 DEF GiveUp, TypeOK
  <2>3. CASE Gone(s)
    BY <1>3, <1>11, <2>1, <2>3 DEF GiveUp
  <2> QED
    BY <1>11, <2>2, <2>3 DEF GiveUp
<1>12. ASSUME NEW s \in Surface, Command(s) \/ TryWait(s) \/ GoOn(s) \/ Answer(s)
       PROVE  Rest'
  BY <1>8, <1>12 DEF Command, TryWait, GoOn, Answer, Moves, TypeOK, UnderWay, Over
<1>13. ASSUME NEW s \in Surface, AskAgain(s)
       PROVE  Rest'
  BY <1>8, <1>9, <1>13 DEF AskAgain, Moves, TypeOK, UnderWay
<1>14. CASE UNCHANGED vars
  BY <1>14 DEF vars, core, surface, TypeOK, LockHeld, Path
<1>15. CASE \E s \in Surface : Command(s) \/ SurfaceStep(s) \/ GiveUp(s)
  BY <1>10, <1>11, <1>12, <1>13, <1>15 DEF SurfaceStep
<1>16. CASE \E c \in Core : \/ CoreStep(c) /\ UNCHANGED <<surface, disturbed>>
                            \/ LoadFails(c) \/ Quit(c) \/ Kill(c) \/ Signal(c)
                            \/ HandlerExits(c)
  BY <1>1, <1>2, <1>4, <1>5, <1>6, <1>16 DEF Kill, HandlerExits
<1> QED
  BY <1>7, <1>14, <1>15, <1>16 DEF Next

\* One core at a time opens the socket and serves, for any number of cores and
\* command lines and however they end: the stores' locks, which mean nothing
\* between two processes, are enough.
THEOREM CoresInductive == Spec => []Inductive
<1>1. Inductive /\ [Next]_vars => Inductive'
  BY StepNamed, StepRest DEF Inductive, Rest
<1> QED
  BY InitInductive, <1>1, PTL DEF Spec

\* Where a signal reaches no core that has yet to take the lock, a core that
\* serves and was not asked to stop is the one command lines reach, whatever
\* was killed, failed or gave up at any point.
THEOREM CoresServingIsReachable ==
    ASSUME "early stop" \notin Ends
    PROVE  Spec => []ServingIsReachable
<1>1. Inductive => ServingIsReachable
  BY DEF Inductive, Path, ServingIsReachable, Bound
<1> QED
  BY <1>1, CoresInductive, PTL

----------------------------------------------------------------------------
(* One exchange, for any time given and any number of pieces.              *)

\* What a read leaves of a line.
LEMMA SomeOfALine ==
    ASSUME NEW s \in Seq({"part", "end"}), NEW t \in Seq({"part", "end"}), NEW n \in 1..Len(t)
    PROVE  /\ s \o SubSeq(t, 1, n) \in Seq({"part", "end"})
           /\ SubSeq(t, n + 1, Len(t)) \in Seq({"part", "end"})
  OBVIOUS

\* Only a read touches the time, only its pieces the line, and only what is
\* settled reaches a use case.
THEOREM ExchangeInductive == RequestSpec => []RequestInductive
<1>1. RequestInit => RequestInductive
  <2>1. <<>> \in Seq({"part", "end"})
    OBVIOUS
  <2>2. RequestInit => RequestTypeOK
    BY <2>1, 0 \in Nat, Zenon DEF RequestInit, RequestTypeOK
  <2>3. RequestInit => HeldNoLonger /\ until <= Within
    BY WithinAssumption DEF RequestInit, HeldNoLonger
  <2>4. RequestInit => ~reached /\ exchange = "reading"
    BY DEF RequestInit
  <2> QED
    BY <2>2, <2>3, <2>4 DEF RequestInductive
<1>2. RequestInductive /\ [RequestNext]_requestVars => RequestInductive'
  <2> SUFFICES ASSUME RequestInductive, [RequestNext]_requestVars
               PROVE  RequestInductive'
    OBVIOUS
  <2> USE WithinAssumption DEF RequestInductive, RequestTypeOK, HeldNoLonger
  <2>1. CASE Send
    <3>1. PICK piece \in {"part", "end"} : unread' = Append(unread, piece)
      BY <2>1 DEF Send
    <3>2. unread' \in Seq({"part", "end"})
      BY <3>1, AppendProperties
    <3> QED
      BY <2>1, <3>2 DEF Send
  <2>2. CASE Leave
    BY <2>2 DEF Leave
  <2>3. CASE BeginRead
    BY <2>3 DEF BeginRead, TimeLeft
  <2>4. CASE TakePieces
    <3>1. PICK n \in 1..Len(unread) : /\ line' = line \o SubSeq(unread, 1, n)
                                      /\ unread' = SubSeq(unread, n + 1, Len(unread))
      BY <2>4 DEF TakePieces
    <3>2. line' \in Seq({"part", "end"}) /\ unread' \in Seq({"part", "end"})
      BY <3>1, SomeOfALine
    <3>3. ~reached
      BY <2>4 DEF TakePieces
    <3> QED
      BY <2>4, <3>2, <3>3 DEF TakePieces
  <2>5. CASE ReadBringsNothing
    BY <2>5 DEF ReadBringsNothing
  <2>6. CASE FindItGone
    BY <2>6 DEF FindItGone
  <2>7. CASE SettleIt
    BY <2>7 DEF SettleIt
  <2>8. CASE Tick
    BY <2>8 DEF Tick
  <2>9. CASE UNCHANGED requestVars
    BY <2>9 DEF requestVars
  <2> QED
    BY <2>1, <2>2, <2>3, <2>4, <2>5, <2>6, <2>7, <2>8, <2>9 DEF RequestNext, CoreReads
<1> QED
  BY <1>1, <1>2, PTL DEF RequestSpec

\* `HeldNoLonger`: "the whole line has to arrive within the time given, not
\* each piece of it" (exchange.rs:149), and a use case is asked only what came
\* whole, from a surface of this version.
THEOREM ExchangeHeldNoLonger == RequestSpec => []HeldNoLonger
<1>1. RequestInductive => HeldNoLonger
  BY DEF RequestInductive
<1> QED
  BY <1>1, ExchangeInductive, PTL

----------------------------------------------------------------------------
(* A draft that is corrected. *)

\* A second answer is taken for a part only where the first left it open or
\* the core found it at fault.
LEMMA MendedKeeps ==
    ASSUME NEW held, NEW second, NEW left_, NEW p \in Part \ PartsOf(left_), ~ IsOpen(held[p])
    PROVE  Mended(held, second, Amiss(left_))[p] = held[p]
<1>1. p \notin Amiss(left_)
    BY DEF PartsOf, Amiss
<1> QED
    BY <1>1 DEF Mended, Better

\* Whatever the model answers the second time, and whatever the repository
\* becomes meanwhile, what the first answer settled and the core did not fault
\* stays (service/backlog.rs:707-709).
THEOREM AddingHeldUpIsKept == AddingSpec => HeldUpIsKept
<1>1. ASSUME AddingNext, doing = "amiss",
             NEW p \in Part \ PartsOf(left), ~ IsOpen(spec[p])
      PROVE  spec'[p] = spec[p]
    <2>1. CASE DraftAgain
        BY <1>1, <2>1, MendedKeeps DEF DraftAgain, Confirm
    <2>2. CASE RepositoryMoves
        BY <2>2 DEF RepositoryMoves
    <2> QED
        BY <1>1, <2>1, <2>2
        DEF AddingNext, Refuse, TakeAsWritten, ReadAsSpec, Draft, PutUp, SettleNext,
            ChangeLine, Accept, SayNo
<1>2. ASSUME UNCHANGED addingVars, NEW p \in Part
      PROVE  spec'[p] = spec[p]
    BY <1>2 DEF addingVars
<1>3. [AddingNext]_addingVars =>
        [doing = "amiss" =>
            \A p \in Part \ PartsOf(left) : ~IsOpen(spec[p]) => spec'[p] = spec[p]]_addingVars
    BY <1>1, <1>2
<1> QED
    BY <1>3, PTL DEF AddingSpec, HeldUpIsKept

----------------------------------------------------------------------------
(* Adding a task: what the helpers of a reading answer with.               *)

\* A set of numbers that is not empty has a least one.
LEMMA LeastNumber ==
  ASSUME NEW S \in SUBSET Nat, S # {}
  PROVE  \E m \in S : \A n \in S : m <= n
<1>1. PICK m \in S : \A n \in S : ~ (<<n, m>> \in OpToRel(<, Nat))
  BY NatLessThanWellFounded, WFMin, Zenon
<1>2. ASSUME NEW n \in S PROVE m <= n
  <2>1. m \in Nat /\ n \in Nat
      OBVIOUS
  <2>2. <<n, m>> \in Nat \X Nat
      BY <2>1
  <2>3. ~ (n < m)
      BY <1>1, <2>2 DEF OpToRel
  <2> QED
      BY <2>1, <2>3
<1> QED
  BY <1>2

\* A set that has nought, and with each number below n the next, has all of
\* them up to n.
LEMMA EachUpTo ==
    ASSUME NEW n \in Nat, NEW T \in SUBSET (0..n), 0 \in T,
           \A k \in T : k < n => k + 1 \in T
    PROVE  T = 0..n
<1> DEFINE Missing == (0..n) \ T
<1> SUFFICES ASSUME Missing # {} PROVE FALSE
  OBVIOUS
<1>1. Missing \in SUBSET Nat
  OBVIOUS
<1>2. PICK m \in Missing : \A k \in Missing : m <= k
  <2> HIDE DEF Missing
  <2> QED
    BY <1>1, LeastNumber
<1>3. m \in 0..n /\ m \notin T /\ m # 0
  BY <1>2
<1>4. m - 1 \in 0..n /\ m - 1 < n /\ m - 1 + 1 = m /\ ~ (m <= m - 1)
  BY <1>3
<1>5. m - 1 \in T
  BY <1>2, <1>4
<1>6. m \in T
  BY <1>4, <1>5
<1> QED
  BY <1>3, <1>6

\* A text read line by line up to each of its places.
ReadUpTo(read, text, f, n) ==
    f = [i \in 0..n |-> IF i = 0 THEN read ELSE ReadLine(f[i - 1], text[i])]

LEMMA ReadUpToExists ==
    ASSUME NEW read, NEW text, NEW n \in Nat
    PROVE  \E f : ReadUpTo(read, text, f, n)
<1> DEFINE Next1(f, i) == ReadLine(f[i - 1], text[i])
           P(k) == \E f : ReadUpTo(read, text, f, k)
           T == {k \in 0..n : P(k)}
<1>1. 0 \in T
  <2> DEFINE first == [i \in 0..0 |-> read]
  <2>1. ReadUpTo(read, text, first, 0)
    BY DEF ReadUpTo
  <2> QED
    BY <2>1
<1>2. ASSUME NEW k \in T, k < n PROVE k + 1 \in T
  <2>1. PICK f : ReadUpTo(read, text, f, k)
    BY <1>2
  <2> DEFINE more == [i \in 0..(k+1) |-> IF i = 0 THEN read ELSE Next1(f, i)]
  <2>2. ASSUME NEW i \in 0..k PROVE more[i] = f[i]
    <3>1. i \in 0..(k+1)
      OBVIOUS
    <3>2. f[i] = IF i = 0 THEN read ELSE Next1(f, i)
      BY <2>1 DEF ReadUpTo
    <3> HIDE DEF Next1
    <3> QED
      BY <3>1, <3>2
  <2>3. ASSUME NEW i \in 0..(k+1), i # 0 PROVE more[i - 1] = f[i - 1]
    <3>1. i - 1 \in 0..k
      BY <2>3
    <3> QED
      BY <2>2, <3>1
  <2>4. ReadUpTo(read, text, more, k + 1)
    BY <2>3 DEF ReadUpTo
  <2>5. k + 1 \in 0..n
    BY <1>2
  <2> QED
    BY <2>4, <2>5
<1>3. T = 0..n
  <2>1. T \in SUBSET (0..n)
    OBVIOUS
  <2> HIDE DEF T
  <2> QED
    BY <1>1, <1>2, <2>1, EachUpTo
<1>4. n \in T
  <2> HIDE DEF T
  <2> QED
    BY <1>3
<1> QED
  BY <1>4

LEMMA ReadAfterIs ==
    ASSUME NEW read, NEW text, Len(text) \in Nat
    PROVE  \E f : /\ ReadUpTo(read, text, f, Len(text))
                  /\ ReadAfter(read, text) = f[Len(text)]
<1> DEFINE f == CHOOSE g : ReadUpTo(read, text, g, Len(text))
<1>1. ReadUpTo(read, text, f, Len(text))
  BY ReadUpToExists
<1>2. ReadAfter(read, text) = f[Len(text)]
  BY DEF ReadAfter, ReadUpTo
<1> QED
  BY <1>1, <1>2

\* One place further.
LEMMA ReadOneOn ==
    ASSUME NEW read, NEW text, NEW f, NEW n \in Nat, ReadUpTo(read, text, f, n)
    PROVE  /\ f[0] = read
           /\ \A k \in 0..n : k < n => f[k + 1] = ReadLine(f[k], text[k + 1])
<1>1. f[0] = read
  BY DEF ReadUpTo
<1>2. ASSUME NEW k \in 0..n, k < n
      PROVE  f[k + 1] = ReadLine(f[k], text[k + 1])
  <2>1. k + 1 \in 0..n /\ k + 1 # 0 /\ k + 1 - 1 = k
    BY <1>2
  <2>2. \A j \in 0..n : f[j] = IF j = 0 THEN read ELSE ReadLine(f[j - 1], text[j])
    BY Zenon DEF ReadUpTo
  <2> QED
    BY <2>1, <2>2
<1> QED
  BY <1>1, <1>2

LEMMA ReadNothing == \A read : ReadAfter(read, <<>>) = read
<1> SUFFICES ASSUME NEW read PROVE ReadAfter(read, <<>>) = read
  OBVIOUS
<1>1. Len(<<>>) = 0 /\ 0 \in Nat
  BY EmptySeq
<1>2. PICK f : ReadUpTo(read, <<>>, f, Len(<<>>)) /\ ReadAfter(read, <<>>) = f[Len(<<>>)]
  BY <1>1, ReadAfterIs
<1>3. f[0] = read
  BY <1>1, <1>2, ReadOneOn
<1> QED
  BY <1>1, <1>2, <1>3

\* Texts that begin alike are read alike up to there.
BeginAlike(s, t, m) == \A i \in 1..m : s[i] = t[i]

LEMMA ReadAlike ==
    ASSUME NEW read, NEW s, NEW t, NEW f, NEW g, NEW m \in Nat, NEW n \in Nat, m <= n,
           ReadUpTo(read, s, f, m), ReadUpTo(read, t, g, n), BeginAlike(s, t, m)
    PROVE  f[m] = g[m]
<1> DEFINE T == {k \in 0..m : f[k] = g[k]}
<1>1. 0 \in T
  BY ReadOneOn
<1>2. ASSUME NEW k \in T, k < m PROVE k + 1 \in T
  <2>1. f[k + 1] = ReadLine(f[k], s[k + 1])
    BY <1>2, ReadOneOn
  <2>2. k \in 0..n /\ k < n
    BY <1>2
  <2>3. g[k + 1] = ReadLine(g[k], t[k + 1])
    BY <2>2, ReadOneOn
  <2>4. k + 1 \in 1..m /\ k + 1 \in 0..m
    BY <1>2
  <2> QED
    BY <2>1, <2>3, <2>4 DEF BeginAlike
<1>3. T = 0..m
  <2>1. T \in SUBSET (0..m)
    OBVIOUS
  <2> HIDE DEF T
  <2> QED
    BY <1>1, <1>2, <2>1, EachUpTo
<1> QED
  BY <1>3

\* A text in two is read one after the other.
LEMMA ReadJoined ==
    ASSUME NEW S, NEW s \in Seq(S), NEW t \in Seq(S), NEW read
    PROVE  ReadAfter(read, s \o t) = ReadAfter(ReadAfter(read, s), t)
<1> DEFINE row == s \o t
           m == Len(s)
           n == Len(t)
           first == ReadAfter(read, s)
<1>1. /\ m \in Nat /\ n \in Nat /\ Len(row) = m + n
      /\ \A i \in 1..m : s[i] = row[i]
      /\ \A i \in 1..n : row[m + i] = t[i]
  <2>1. /\ Len(row) = m + n /\ m \in Nat /\ n \in Nat
        /\ \A i \in 1..(m + n) : row[i] = IF i <= m THEN s[i] ELSE t[i - m]
    BY ConcatProperties
  <2> HIDE DEF row, m, n
  <2>2. ASSUME NEW i \in 1..n PROVE row[m + i] = t[i]
    <3>1. m + i \in 1..(m + n) /\ ~ (m + i <= m) /\ m + i - m = i
      BY <2>1
    <3> QED
      BY <2>1, <3>1
  <2>3. ASSUME NEW i \in 1..m PROVE s[i] = row[i]
    <3>1. i \in 1..(m + n) /\ i <= m
      BY <2>1
    <3> QED
      BY <2>1, <3>1
  <2> QED
    BY <2>1, <2>2, <2>3
<1>2. PICK f : ReadUpTo(read, s, f, m) /\ first = f[m]
  BY <1>1, ReadAfterIs
<1>3. PICK g : ReadUpTo(first, t, g, n) /\ ReadAfter(first, t) = g[n]
  <2> HIDE DEF first
  <2> QED
    BY <1>1, ReadAfterIs
<1>4. PICK h : ReadUpTo(read, row, h, m + n) /\ ReadAfter(read, row) = h[m + n]
  <2>1. Len(row) \in Nat /\ Len(row) = m + n
    BY <1>1
  <2> HIDE DEF row, m, n
  <2>2. \E h : ReadUpTo(read, row, h, Len(row)) /\ ReadAfter(read, row) = h[Len(row)]
    BY <2>1, ReadAfterIs
  <2> QED
    BY <2>1, <2>2
<1>5. f[m] = h[m]
  <2> HIDE DEF row, m, n
  <2> DEFINE all == m + n
  <2>1. all \in Nat /\ m \in Nat /\ m <= all /\ BeginAlike(s, row, m)
    BY <1>1 DEF BeginAlike
  <2>2. ReadUpTo(read, row, h, all)
    BY <1>4
  <2> HIDE DEF all
  <2> QED
    BY <1>2, <2>1, <2>2, ReadAlike
<1> HIDE DEF row, m, n, first
<1> DEFINE T == {k \in 0..n : h[m + k] = g[k]}
<1>6. 0 \in T
  <2>1. g[0] = first
    BY <1>1, <1>3, ReadOneOn
  <2>2. m + 0 = m /\ 0 \in 0..n
    BY <1>1
  <2> QED
    BY <2>1, <2>2, <1>2, <1>5
<1>7. ASSUME NEW k \in T, k < n PROVE k + 1 \in T
  <2>1. k \in 0..n /\ h[m + k] = g[k] /\ k + 1 \in 1..n /\ k + 1 \in 0..n
    BY <1>1, <1>7
  <2>2. g[k + 1] = ReadLine(g[k], t[k + 1])
    BY <1>1, <1>3, <1>7, <2>1, ReadOneOn
  <2>3. m + k \in 0..(m + n) /\ m + k < m + n /\ m + k + 1 = m + (k + 1) /\ m + n \in Nat
    BY <1>1, <1>7
  <2>4. h[m + k + 1] = ReadLine(h[m + k], row[m + k + 1])
    BY <1>4, <2>3, ReadOneOn
  <2>5. row[m + (k + 1)] = t[k + 1]
    BY <1>1, <2>1
  <2>6. h[m + (k + 1)] = g[k + 1]
    BY <2>1, <2>2, <2>3, <2>4, <2>5
  <2> QED
    BY <2>1, <2>6
<1>8. T = 0..n
  <2>1. T \in SUBSET (0..n)
    OBVIOUS
  <2> HIDE DEF T
  <2> QED
    BY <1>1, <1>6, <1>7, <2>1, EachUpTo
<1>9. h[m + n] = g[n]
  <2>1. n \in 0..n
    BY <1>1
  <2>2. n \in T
    <3> HIDE DEF T
    <3> QED
      BY <1>8, <2>1
  <2> QED
    BY <2>2
<1> QED
  BY <1>3, <1>4, <1>9 DEF row, first

----------------------------------------------------------------------------
(* A spec that is written and read again.                                  *)

ReadType == [spec : [Part -> PartType], last : Part \cup {NoPart}]

\* What a part says when it is read again: its first line is without its
\* marks.
Back(said) == [i \in DOMAIN said |-> IF i = 1 THEN Bare(said[1]) ELSE said[i]]
BackUpTo(said, k) == [i \in 1..k |-> IF i = 1 THEN Bare(said[1]) ELSE said[i]]

LEMMA NoPartIsNone == NoPart \notin Part
  BY DEF NoPart, Part

\* A function on the first n numbers is a sequence of n.
LEMMA RowOf ==
    ASSUME NEW n \in Nat, NEW S, NEW f \in [1..n -> S]
    PROVE  f \in Seq(S) /\ Len(f) = n /\ DOMAIN f = 1..n
<1>1. f \in Seq(S)
  BY SeqDef
<1>2. DOMAIN f = 1..Len(f) /\ Len(f) \in Nat
  BY <1>1, LenProperties
<1>3. DOMAIN f = 1..n
  OBVIOUS
<1>4. Len(f) = n
  <2> DEFINE l == Len(f)
  <2>1. l \in Nat /\ 1..l = 1..n
    BY <1>2, <1>3
  <2> HIDE DEF l
  <2>2. l >= 1 => l \in 1..n
    BY <2>1
  <2>3. n >= 1 => n \in 1..l
    BY <2>1
  <2>4. l = n
    BY <2>1, <2>2, <2>3
  <2> QED
    BY <2>4 DEF l
<1> QED
  BY <1>1, <1>3, <1>4

LEMMA BareIsLine == ASSUME NEW x \in LineType PROVE Bare(x) \in LineType
  BY DEF Bare, Says, LineType

LEMMA BackIsRow ==
    ASSUME NEW said \in Seq(LineType)
    PROVE  /\ Back(said) \in Seq(LineType) /\ Len(Back(said)) = Len(said)
           /\ Back(said) = BackUpTo(said, Len(said))
           /\ \A k \in 1..Len(said) : /\ BackUpTo(said, k) \in Seq(LineType)
                                      /\ Len(BackUpTo(said, k)) = k
<1>1. Len(said) \in Nat /\ DOMAIN said = 1..Len(said) /\ \A i \in DOMAIN said : said[i] \in LineType
  OBVIOUS
<1>2. Back(said) = BackUpTo(said, Len(said))
  BY <1>1, Zenon DEF Back, BackUpTo
<1>3. ASSUME NEW k \in 0..Len(said)
      PROVE  BackUpTo(said, k) \in Seq(LineType) /\ Len(BackUpTo(said, k)) = k
  <2>1. ASSUME NEW i \in 1..k PROVE (IF i = 1 THEN Bare(said[1]) ELSE said[i]) \in LineType
    <3>1. i \in DOMAIN said /\ (i = 1 => 1 \in DOMAIN said)
      BY <1>1
    <3> QED
      BY <3>1, <1>1, BareIsLine
  <2>2. BackUpTo(said, k) \in [1..k -> LineType]
    BY <2>1 DEF BackUpTo
  <2>3. k \in Nat
    BY <1>1
  <2> QED
    BY <2>2, <2>3, RowOf
<1>4. Len(said) \in 0..Len(said)
  BY <1>1
<1>5. 1..Len(said) \subseteq 0..Len(said)
  BY <1>1
<1> QED
  BY <1>2, <1>3, <1>4, <1>5

LEMMA BackOneOn ==
    ASSUME NEW said \in Seq(LineType), NEW k \in 1..Len(said), k < Len(said)
    PROVE  Append(BackUpTo(said, k), said[k + 1]) = BackUpTo(said, k + 1)
<1> DEFINE was == BackUpTo(said, k)
           now == BackUpTo(said, k + 1)
           x == said[k + 1]
           both == Append(was, x)
<1>1. Len(said) \in Nat /\ k + 1 \in 1..Len(said) /\ k \in Nat /\ k >= 1
  OBVIOUS
<1>2. was \in Seq(LineType) /\ Len(was) = k /\ now \in Seq(LineType) /\ Len(now) = k + 1
  BY <1>1, BackIsRow
<1>3. x \in LineType
  BY <1>1
<1>4. /\ \A i \in 1..k : was[i] = (IF i = 1 THEN Bare(said[1]) ELSE said[i])
      /\ \A i \in 1..(k+1) : now[i] = (IF i = 1 THEN Bare(said[1]) ELSE said[i])
  BY Zenon DEF BackUpTo
<1>4a. now[k + 1] = x
  <2>1. k + 1 \in 1..(k+1) /\ k + 1 # 1
    BY <1>1
  <2> QED
    BY <1>4, <2>1
<1> HIDE DEF was, now, x
<1>5. both \in Seq(LineType) /\ Len(both) = k + 1
      /\ (\A i \in 1..k : both[i] = was[i]) /\ both[k + 1] = x
  BY <1>2, <1>3, AppendProperties
<1>6. ASSUME NEW i \in 1..(k+1) PROVE both[i] = now[i]
  <2>1. CASE i = k + 1
    BY <2>1, <1>5, <1>4a
  <2>2. CASE i # k + 1
    <3>1. i \in 1..k
      BY <2>2, <1>1
    <3> QED
      BY <3>1, <1>4, <1>5
  <2> QED
    BY <2>1, <2>2
<1> HIDE DEF both
<1>7. both = now
  BY <1>2, <1>5, <1>6, SeqEqual
<1> QED
  BY <1>7 DEF both, now, was, x

TextLine == [names : Part \cup {NoPart}, words : SUBSET Word, marked : BOOLEAN]

LEMMA TextIsLine ==
    ASSUME NEW p \in Part \cup {NoPart}, NEW x \in LineType
    PROVE  Text(p, x) \in TextLine
  BY DEF Text, TextLine, LineType

LEMMA LooseIsText ==
    ASSUME NEW said \in Seq(LineType)
    PROVE  Loose(said) \in Seq(TextLine) /\ Len(Loose(said)) = Len(said)
           /\ \A i \in 1..Len(said) : Loose(said)[i] = Text(NoPart, said[i])
<1>1. Len(said) \in Nat /\ DOMAIN said = 1..Len(said) /\ \A i \in DOMAIN said : said[i] \in LineType
  OBVIOUS
<1>2. Loose(said) = [i \in 1..Len(said) |-> Text(NoPart, said[i])]
  BY <1>1 DEF Loose
<1>3. \A i \in 1..Len(said) : Text(NoPart, said[i]) \in TextLine
  BY <1>1, TextIsLine
<1>4. Loose(said) \in [1..Len(said) -> TextLine]
  BY <1>2, <1>3
<1>5. \A i \in 1..Len(said) : Loose(said)[i] = Text(NoPart, said[i])
  BY <1>2
<1> QED
  BY <1>1, <1>4, <1>5, RowOf

\* A part as text: its first line names it, and the others nothing.
LEMMA WrittenPartIs ==
    ASSUME NEW p \in Part, NEW said \in Seq(LineType), said # <<>>
    PROVE  /\ WrittenPart(p, said) \in Seq(TextLine)
           /\ Len(WrittenPart(p, said)) = Len(said)
           /\ WrittenPart(p, said)[1] = Text(p, said[1])
           /\ \A i \in 2..Len(said) : WrittenPart(p, said)[i] = Text(NoPart, said[i])
<1> DEFINE n == Len(said)
           rest == Loose(Tail(said))
           x == Text(p, said[1])
           row == <<x>> \o rest
<1>1. /\ n \in Nat \ {0} /\ \A i \in 1..n : said[i] \in LineType
      /\ Tail(said) \in Seq(LineType) /\ Len(Tail(said)) = n - 1
      /\ \A i \in 1..(n-1) : Tail(said)[i] = said[i + 1]
  BY HeadTailProperties
<1>2. /\ rest \in Seq(TextLine) /\ Len(rest) = n - 1
      /\ \A i \in 1..(n-1) : rest[i] = Text(NoPart, said[i + 1])
  BY <1>1, LooseIsText
<1>3. x \in TextLine
  BY <1>1, TextIsLine
<1>4. WrittenPart(p, said) = row
  BY DEF WrittenPart
<1> HIDE DEF rest, x, n
<1>5. <<x>> \in Seq(TextLine) /\ Len(<<x>>) = 1 /\ <<x>>[1] = x
  BY <1>3
<1>6. /\ row \in Seq(TextLine) /\ Len(row) = 1 + Len(rest)
      /\ \A i \in 1..(1 + Len(rest)) : row[i] = IF i <= 1 THEN <<x>>[i] ELSE rest[i - 1]
  BY <1>2, <1>5, ConcatProperties
<1> HIDE DEF row
<1>7. Len(row) = n /\ row[1] = x
  BY <1>1, <1>2, <1>5, <1>6
<1>8. ASSUME NEW i \in 2..n PROVE row[i] = Text(NoPart, said[i])
  <2>1. i \in 1..(1 + Len(rest)) /\ ~ (i <= 1) /\ i - 1 \in 1..(n-1) /\ i - 1 + 1 = i
    BY <1>1, <1>2
  <2> QED
    BY <2>1, <1>2, <1>6
<1> QED
  BY <1>4, <1>6, <1>7, <1>8 DEF n, x

PartPut(s, p, v) == [s EXCEPT ![p] = v]
SayPut(r, v) == [r EXCEPT !.said = v]
SayOn(s, p, x) == [s EXCEPT ![p].said = Append(@, x)]
ReadPut(read, p, x) == [read EXCEPT !.spec[p].said = Append(@, x)]

LEMMA SaidPut ==
    ASSUME NEW u, NEW v, NEW r, r = Given(u)
    PROVE  SayPut(r, v) = Given(v)
<1> DEFINE b == "given"
           c == {}
           d == FALSE
<1>1. /\ r = [said |-> u, settled |-> b, others |-> c, asks |-> d]
      /\ Given(v) = [said |-> v, settled |-> b, others |-> c, asks |-> d]
  BY DEF Given
<1> HIDE DEF b, c, d
<1>2. [r EXCEPT !.said = v] = [said |-> v, settled |-> b, others |-> c, asks |-> d]
  BY <1>1
<1> QED
  BY <1>1, <1>2 DEF SayPut

LEMMA SaidOn ==
    ASSUME NEW t, NEW p, NEW x, NEW read, read = [spec |-> t, last |-> p]
    PROVE  ReadPut(read, p, x) = [spec |-> SayOn(t, p, x), last |-> p]
<1> DEFINE now == [t EXCEPT ![p].said = Append(@, x)]
<1>1. [read EXCEPT !.spec[p].said = Append(@, x)]
        = [read EXCEPT !.spec = [read.spec EXCEPT ![p] = [read.spec[p] EXCEPT !.said = Append(@, x)]]]
  OBVIOUS
<1>2. read.spec = t
  OBVIOUS
<1>3. [t EXCEPT ![p] = [t[p] EXCEPT !.said = Append(@, x)]] = now
  OBVIOUS
<1>4. [read EXCEPT !.spec = now] = [spec |-> now, last |-> p]
  <2> HIDE DEF now
  <2> QED
    OBVIOUS
<1> QED
  BY <1>1, <1>2, <1>3, <1>4 DEF ReadPut, SayOn

LEMMA GivenOn ==
    ASSUME NEW s \in [Part -> PartType], NEW p \in Part, NEW u, NEW x
    PROVE  SayOn(PartPut(s, p, Given(u)), p, x) = PartPut(s, p, Given(Append(u, x)))
<1> DEFINE t == [s EXCEPT ![p] = Given(u)]
           v == Append(u, x)
           g == Given(v)
<1>1. t[p] = Given(u) /\ Given(u).said = u
  BY DEF Given
<1>2. SayOn(t, p, x) = [t EXCEPT ![p] = SayPut(t[p], Append(t[p].said, x))]
  <2> HIDE DEF t
  <2> QED
    BY DEF SayOn, SayPut
<1>3. SayPut(t[p], v) = g
  <2> DEFINE r == t[p]
  <2>1. r = Given(u)
    BY <1>1
  <2> HIDE DEF r, v, t
  <2>2. SayPut(r, v) = Given(v)
    BY <2>1, SaidPut
  <2> QED
    BY <2>2 DEF r
<1>4. SayOn(t, p, x) = [t EXCEPT ![p] = g]
  <2> HIDE DEF t, g
  <2> QED
    BY <1>1, <1>2, <1>3
<1>5. [t EXCEPT ![p] = g] = [s EXCEPT ![p] = g]
  <2> HIDE DEF g
  <2> DEFINE h == Given(u)
  <2>1. [[s EXCEPT ![p] = h] EXCEPT ![p] = g] = [s EXCEPT ![p] = g]
    <3> HIDE DEF h
    <3> QED
      OBVIOUS
  <2> QED
    BY <2>1
<1> QED
  BY <1>4, <1>5 DEF PartPut

\* A line that goes on with the part before it.
LEMMA ReadsOn ==
    ASSUME NEW s \in [Part -> PartType], NEW p \in Part, NEW u \in Seq(LineType),
           NEW x \in LineType
    PROVE  ReadLine([spec |-> [s EXCEPT ![p] = Given(u)], last |-> p], Text(NoPart, x))
             = [spec |-> [s EXCEPT ![p] = Given(Append(u, x))], last |-> p]
<1> DEFINE t == [s EXCEPT ![p] = Given(u)]
           read == [spec |-> t, last |-> p]
           l == Text(NoPart, x)
<1>1. l.names = NoPart /\ l.words = x.words /\ l.marked = x.marked
  BY DEF Text
<1>2. read.last = p /\ read = [spec |-> t, last |-> p] /\ p # NoPart /\ x.words # {}
  BY NoPartIsNone DEF LineType
<1>3. [Says(l.words) EXCEPT !.marked = l.marked] = x
  <2>1. Says(l.words) = [words |-> x.words, marked |-> FALSE]
    BY <1>1 DEF Says
  <2>2. x = [words |-> x.words, marked |-> x.marked]
    BY DEF LineType
  <2> HIDE DEF l
  <2> QED
    BY <1>1, <2>1, <2>2
<1>4. ReadLine(read, l) = ReadPut(read, p, x)
  <2> HIDE DEF read, l, t
  <2> QED
    BY <1>1, <1>2, <1>3 DEF ReadLine, ReadPut
<1>5. ReadPut(read, p, x) = [spec |-> SayOn(t, p, x), last |-> p]
  <2> HIDE DEF read, t
  <2> QED
    BY <1>2, SaidOn
<1>6. SayOn(t, p, x) = PartPut(s, p, Given(Append(u, x)))
  <2>1. t = PartPut(s, p, Given(u))
    BY DEF PartPut
  <2> HIDE DEF t
  <2> QED
    BY <2>1, GivenOn
<1> QED
  BY <1>4, <1>5, <1>6 DEF PartPut

\* And one that names it, whatever was read before.
LEMMA ReadsAnew ==
    ASSUME NEW read \in ReadType, NEW p \in Part, NEW x \in LineType
    PROVE  ReadLine(read, Text(p, x))
             = [spec |-> [read.spec EXCEPT ![p] = Given(<<Bare(x)>>)], last |-> p]
<1>1. Text(p, x).names = p /\ Text(p, x).words = x.words /\ p # NoPart /\ x.words # {}
  BY NoPartIsNone DEF Text, LineType
<1>2. Says(Text(p, x).words) = Bare(x)
  BY <1>1 DEF Bare
<1>3. ReadLine(read, Text(p, x)) =
        [spec |-> [read.spec EXCEPT ![p] = Given(<<Bare(x)>>)], last |-> p]
  <2> DEFINE l == Text(p, x)
  <2>1. l.names = p /\ l.words # {} /\ Says(l.words) = Bare(x) /\ l.names # NoPart
    BY <1>1, <1>2
  <2> HIDE DEF l
  <2>2. ReadLine(read, l) = [spec |-> [read.spec EXCEPT ![p] = Given(<<Bare(x)>>)], last |-> p]
    BY <2>1 DEF ReadLine
  <2> QED
    BY <2>2 DEF l
<1> QED
  BY <1>3

LEMMA PartRead ==
    ASSUME NEW read \in ReadType, NEW p \in Part, NEW said \in Seq(LineType), said # <<>>
    PROVE  ReadAfter(read, WrittenPart(p, said))
             = [spec |-> [read.spec EXCEPT ![p] = Given(Back(said))], last |-> p]
<1> DEFINE n == Len(said)
           text == WrittenPart(p, said)
           upTo(k) == [spec |-> [read.spec EXCEPT ![p] = Given(BackUpTo(said, k))], last |-> p]
<1>1. n \in Nat \ {0} /\ n \in Nat /\ Len(text) = n /\ \A i \in 1..n : said[i] \in LineType
  BY WrittenPartIs
<1>2. text[1] = Text(p, said[1]) /\ \A i \in 2..n : text[i] = Text(NoPart, said[i])
  BY WrittenPartIs
<1>3. PICK f : ReadUpTo(read, text, f, n) /\ ReadAfter(read, text) = f[n]
  BY <1>1, ReadAfterIs
<1> DEFINE T == {k \in 0..n : k = 0 \/ f[k] = upTo(k)}
<1>4. 0 \in T
  BY <1>1
<1>5. f[1] = upTo(1)
  <2>1. f[0] = read /\ f[0 + 1] = ReadLine(f[0], text[0 + 1])
    <3> HIDE DEF text, n
    <3>1. 0 \in 0..n /\ 0 < n
      BY <1>1
    <3> QED
      BY <1>1, <1>3, <3>1, ReadOneOn
  <2>2. 0 + 1 = 1 /\ said[1] \in LineType
    BY <1>1
  <2>3. f[1] = [spec |-> [read.spec EXCEPT ![p] = Given(<<Bare(said[1])>>)], last |-> p]
    <3> HIDE DEF text, n
    <3> QED
      BY <1>2, <2>1, <2>2, ReadsAnew
  <2>4. BackUpTo(said, 1) = <<Bare(said[1])>>
    <3>1. 1 \in 1..Len(said)
      BY <1>1
    <3>2. BackUpTo(said, 1) \in Seq(LineType) /\ Len(BackUpTo(said, 1)) = 1
      BY <3>1, BackIsRow
    <3>3. BackUpTo(said, 1)[1] = Bare(said[1])
      BY DEF BackUpTo
    <3> DEFINE b == BackUpTo(said, 1)
               x == Bare(said[1])
    <3>4. b \in Seq(LineType) /\ Len(b) = 1 /\ b[1] = x
      BY <3>2, <3>3
    <3> HIDE DEF b, x
    <3>5. b = <<x>>
      BY <3>4
    <3> QED
      BY <3>5 DEF b, x
  <2> QED
    BY <2>3, <2>4
<1>6. ASSUME NEW k \in T, k < n PROVE k + 1 \in T
  <2>0. k \in 0..n /\ k + 1 \in 0..n
    BY <1>1, <1>6
  <2>1. CASE k = 0
    BY <1>5, <2>0, <2>1
  <2>2. CASE k # 0
    <3>1. f[k] = upTo(k) /\ k \in 1..n /\ k + 1 \in 2..n /\ k + 1 \in 1..n
      BY <2>0, <2>2, <1>1, <1>6
    <3>2. f[k + 1] = ReadLine(f[k], text[k + 1])
      <4> HIDE DEF text, n
      <4> QED
        BY <1>1, <1>3, <2>0, <1>6, ReadOneOn
    <3>3. text[k + 1] = Text(NoPart, said[k + 1]) /\ said[k + 1] \in LineType
      BY <1>1, <1>2, <3>1
    <3>4. BackUpTo(said, k) \in Seq(LineType) /\ read.spec \in [Part -> PartType]
      BY <3>1, BackIsRow DEF ReadType
    <3>5. ReadLine(upTo(k), Text(NoPart, said[k + 1]))
            = [spec |-> [read.spec EXCEPT ![p] = Given(Append(BackUpTo(said, k), said[k + 1]))],
               last |-> p]
      BY <3>3, <3>4, ReadsOn
    <3>6. Append(BackUpTo(said, k), said[k + 1]) = BackUpTo(said, k + 1)
      BY <3>1, <1>6, BackOneOn
    <3>7. f[k + 1] = upTo(k + 1)
      <4> HIDE DEF text, n
      <4> QED
        BY <3>1, <3>2, <3>3, <3>5, <3>6
    <3> QED
      BY <3>7, <2>0
  <2> QED
    BY <2>1, <2>2
<1>7. T = 0..n
  <2>1. T \in SUBSET (0..n)
    OBVIOUS
  <2> HIDE DEF T, n
  <2> QED
    BY <1>1, <1>4, <1>6, <2>1, EachUpTo
<1>8. f[n] = upTo(n)
  <2>1. n \in 0..n /\ n # 0
    BY <1>1
  <2>2. n \in T
    <3> HIDE DEF T, n
    <3> QED
      BY <1>7, <2>1
  <2> QED
    BY <2>1, <2>2
<1> QED
  BY <1>3, <1>8, BackIsRow

\* What is read is a spec, whatever the text.
LEMMA ReadLineReads ==
    ASSUME NEW read \in ReadType, NEW x \in TextLine
    PROVE  ReadLine(read, x) \in ReadType
<1>1. /\ x.names \in Part \cup {NoPart} /\ x.words \in SUBSET Word /\ x.marked \in BOOLEAN
      /\ read.spec \in [Part -> PartType] /\ read.last \in Part \cup {NoPart}
      /\ read = [spec |-> read.spec, last |-> read.last]
  BY DEF TextLine, ReadType
<1>2. ASSUME NEW u \in Seq(LineType) PROVE Given(u) \in PartType
  BY DEF Given, PartType
<1>3. CASE x.names # NoPart
  <2> DEFINE u == IF x.words = {} THEN <<>> ELSE <<Says(x.words)>>
             s == [read.spec EXCEPT ![x.names] = Given(u)]
  <2>1. u \in Seq(LineType)
    <3>1. x.words # {} => Says(x.words) \in LineType
      BY <1>1 DEF Says, LineType
    <3> QED
      BY <3>1
  <2>2. ReadLine(read, x) = [spec |-> s, last |-> x.names]
    BY <1>3 DEF ReadLine
  <2>3. Given(u) \in PartType
    BY <1>2, <2>1
  <2>4. s \in [Part -> PartType]
    <3> HIDE DEF u
    <3> QED
      BY <1>1, <2>3
  <2> HIDE DEF s
  <2>5. [spec |-> s, last |-> x.names] \in ReadType
    BY <2>4, <1>1 DEF ReadType
  <2> QED
    BY <2>2, <2>5
<1>4. CASE x.names = NoPart /\ read.last = NoPart
  BY <1>4 DEF ReadLine
<1>5. CASE x.names = NoPart /\ read.last # NoPart /\ x.words = {}
  <2>1. ReadLine(read, x) = [read EXCEPT !.last = NoPart]
    BY <1>5 DEF ReadLine
  <2> QED
    BY <2>1 DEF ReadType
<1>6. CASE x.names = NoPart /\ read.last # NoPart /\ x.words # {}
  <2> DEFINE y == [Says(x.words) EXCEPT !.marked = x.marked]
             p == read.last
             t == read.spec
             r == t[p]
  <2>1. y \in LineType
    BY <1>1, <1>6 DEF Says, LineType
  <2>2. ReadLine(read, x) = ReadPut(read, p, y)
    <3>1. ReadLine(read, x) = [read EXCEPT !.spec[read.last].said =
                   Append(@, [Says(x.words) EXCEPT !.marked = x.marked])]
      BY <1>6 DEF ReadLine
    <3> QED
      BY <3>1 DEF ReadPut
  <2>3. p \in Part /\ t \in [Part -> PartType] /\ r \in PartType
    BY <1>1, <1>6
  <2>4. ReadPut(read, p, y) = [spec |-> SayOn(t, p, y), last |-> p]
    <3>1. read = [spec |-> t, last |-> p]
      BY <1>1
    <3> HIDE DEF t, p, y
    <3> QED
      BY <3>1, SaidOn
  <2> HIDE DEF y, t, p
  <2>5. SayOn(t, p, y) = [t EXCEPT ![p] = SayPut(r, Append(r.said, y))]
    BY DEF SayOn, SayPut
  <2>6. SayPut(r, Append(r.said, y)) \in PartType
    <3> HIDE DEF r
    <3>1. r.said \in Seq(LineType)
      BY <2>3 DEF PartType
    <3>2. Append(r.said, y) \in Seq(LineType)
      BY <3>1, <2>1, AppendProperties
    <3> DEFINE v == Append(r.said, y)
    <3>3. v \in Seq(LineType)
      BY <3>2
    <3> HIDE DEF v
    <3>4. SayPut(r, v) \in PartType
      BY <3>3, <2>3 DEF SayPut, PartType
    <3> QED
      BY <3>4 DEF v
  <2>7. SayOn(t, p, y) \in [Part -> PartType]
    <3> DEFINE v == SayPut(r, Append(r.said, y))
    <3> HIDE DEF v, r
    <3>1. v \in PartType /\ SayOn(t, p, y) = [t EXCEPT ![p] = v]
      BY <2>5, <2>6 DEF v
    <3> QED
      BY <3>1, <2>3
  <2>8. [spec |-> SayOn(t, p, y), last |-> p] \in ReadType
    BY <2>3, <2>7 DEF ReadType
  <2> QED
    BY <2>2, <2>4, <2>8
<1> QED
  BY <1>1, <1>3, <1>4, <1>5, <1>6

LEMMA ReadAfterReads ==
    ASSUME NEW read \in ReadType, NEW text \in Seq(TextLine)
    PROVE  ReadAfter(read, text) \in ReadType
<1> DEFINE n == Len(text)
<1>1. n \in Nat /\ \A i \in 1..n : text[i] \in TextLine
  OBVIOUS
<1>2. PICK f : ReadUpTo(read, text, f, n) /\ ReadAfter(read, text) = f[n]
  BY <1>1, ReadAfterIs
<1> HIDE DEF n
<1> DEFINE T == {k \in 0..n : f[k] \in ReadType}
<1>3. 0 \in T
  BY <1>1, <1>2, ReadOneOn
<1>4. ASSUME NEW k \in T, k < n PROVE k + 1 \in T
  <2>1. f[k + 1] = ReadLine(f[k], text[k + 1])
    BY <1>1, <1>2, <1>4, ReadOneOn
  <2>2. k + 1 \in 1..n /\ k + 1 \in 0..n /\ f[k] \in ReadType
    BY <1>1, <1>4
  <2>3. text[k + 1] \in TextLine
    BY <1>1, <2>2
  <2> QED
    BY <2>1, <2>2, <2>3, ReadLineReads
<1>5. T = 0..n
  <2>1. T \in SUBSET (0..n)
    OBVIOUS
  <2> HIDE DEF T
  <2> QED
    BY <1>1, <1>3, <1>4, <2>1, EachUpTo
<1>6. n \in T
  <2> HIDE DEF T
  <2> QED
    BY <1>1, <1>5
<1> QED
  BY <1>2, <1>6

LEMMA OpenIsRead == [spec |-> OpenSpec, last |-> NoPart] \in ReadType
<1>1. Open \in PartType
  <2>1. <<>> \in Seq(LineType)
    OBVIOUS
  <2> QED
    BY <2>1 DEF Open, PartType
<1>2. OpenSpec \in [Part -> PartType]
  BY <1>1, Zenon DEF OpenSpec
<1> QED
  BY <1>2 DEF ReadType

LEMMA ReadReads ==
    ASSUME NEW text \in Seq(TextLine)
    PROVE  Read(text) \in [Part -> PartType]
<1>1. ReadAfter([spec |-> OpenSpec, last |-> NoPart], text) \in ReadType
  BY OpenIsRead, ReadAfterReads
<1> QED
  BY <1>1 DEF Read, ReadType

\* A part read again, whether or not it says anything.
LEMMA PartReadAgain ==
    ASSUME NEW read \in ReadType, NEW p \in Part, NEW said \in Seq(LineType)
    PROVE  /\ WrittenPart(p, said) \in Seq(TextLine)
           /\ ReadAfter(read, WrittenPart(p, said)) \in ReadType
           /\ \A q \in Part :
                 ReadAfter(read, WrittenPart(p, said)).spec[q]
                   = IF q = p /\ said # <<>> THEN Given(Back(said)) ELSE read.spec[q]
<1>1. CASE said = <<>>
  <2>1. WrittenPart(p, said) = <<>> /\ <<>> \in Seq(TextLine)
    BY <1>1 DEF WrittenPart
  <2>2. ReadAfter(read, WrittenPart(p, said)) = read
    BY <2>1, ReadNothing
  <2> QED
    BY <1>1, <2>1, <2>2
<1>2. CASE said # <<>>
  <2> DEFINE g == Given(Back(said))
             now == ReadAfter(read, WrittenPart(p, said))
  <2>1. now = [spec |-> [read.spec EXCEPT ![p] = g], last |-> p]
    BY <1>2, PartRead
  <2>2. WrittenPart(p, said) \in Seq(TextLine)
    BY <1>2, WrittenPartIs
  <2>3. now \in ReadType
    BY <2>2, ReadAfterReads
  <2>4. \A q \in Part : now.spec[q] = IF q = p THEN g ELSE read.spec[q]
    <3> HIDE DEF g, now
    <3>1. DOMAIN read.spec = Part
      BY DEF ReadType
    <3> QED
      BY <2>1, <3>1
  <2> QED
    BY <1>2, <2>2, <2>3, <2>4
<1> QED
  BY <1>1, <1>2

LEMMA ReadJoinedText ==
    ASSUME NEW s \in Seq(TextLine), NEW t \in Seq(TextLine), NEW read
    PROVE  /\ s \o t \in Seq(TextLine)
           /\ ReadAfter(read, s \o t) = ReadAfter(ReadAfter(read, s), t)
<1>1. ReadAfter(read, s \o t) = ReadAfter(ReadAfter(read, s), t)
  BY ReadJoined
<1>2. s \o t \in Seq(TextLine)
  BY ConcatProperties
<1> QED
  BY <1>1, <1>2

ReadAgain(part) == IF part.said = <<>> THEN Open ELSE Given(Back(part.said))

\* A spec that is written is read again as it was (`Spec::read` of
\* `Spec::written`, domain/spec.rs): each part says what it said, but for the
\* marks around its first line, and counts as given by the author; of what
\* else it could have been, and whether there was a question, nothing is left.
THEOREM WrittenIsRead ==
    ASSUME NEW sp \in [Part -> PartType]
    PROVE  /\ Written(sp) \in Seq(TextLine)
           /\ \A p \in Part : Read(Written(sp))[p] = ReadAgain(sp[p])
<1> DEFINE w(p) == WrittenPart(p, sp[p].said)
           r0 == [spec |-> OpenSpec, last |-> NoPart]
           r1 == ReadAfter(r0, w("goal"))
           r2 == ReadAfter(r1, w("place"))
           r3 == ReadAfter(r2, w("doneWhen"))
           r4 == ReadAfter(r3, w("onFailure"))
           r5 == ReadAfter(r4, w("why"))
           r6 == ReadAfter(r5, w("scope"))
           one(p, now, was) ==
               \A q \in Part : now.spec[q] = IF q = p /\ sp[p].said # <<>>
                                             THEN Given(Back(sp[p].said)) ELSE was.spec[q]
<1>1. \A p \in Part : sp[p].said \in Seq(LineType)
  BY DEF PartType
<1>2. /\ "goal" \in Part /\ "place" \in Part /\ "doneWhen" \in Part
      /\ "onFailure" \in Part /\ "why" \in Part /\ "scope" \in Part
      /\ \A p \in Part : p \in {"goal", "place", "doneWhen", "onFailure", "why", "scope"}
  BY DEF Part
<1>3. r0 \in ReadType /\ \A q \in Part : r0.spec[q] = Open
  BY OpenIsRead DEF OpenSpec
<1>4. ASSUME NEW p \in Part, NEW r \in ReadType
      PROVE  /\ w(p) \in Seq(TextLine)
             /\ ReadAfter(r, w(p)) \in ReadType
             /\ one(p, ReadAfter(r, w(p)), r)
  BY <1>1, PartReadAgain
<1> HIDE DEF one, r0
<1>5. w("goal") \in Seq(TextLine) /\ r1 \in ReadType /\ one("goal", r1, r0)
  BY <1>2, <1>3, <1>4
<1> HIDE DEF r1
<1>6. w("place") \in Seq(TextLine) /\ r2 \in ReadType /\ one("place", r2, r1)
  BY <1>2, <1>5, <1>4
<1> HIDE DEF r2
<1>7. w("doneWhen") \in Seq(TextLine) /\ r3 \in ReadType /\ one("doneWhen", r3, r2)
  BY <1>2, <1>6, <1>4
<1> HIDE DEF r3
<1>8. w("onFailure") \in Seq(TextLine) /\ r4 \in ReadType /\ one("onFailure", r4, r3)
  BY <1>2, <1>7, <1>4
<1> HIDE DEF r4
<1>9. w("why") \in Seq(TextLine) /\ r5 \in ReadType /\ one("why", r5, r4)
  BY <1>2, <1>8, <1>4
<1> HIDE DEF r5
<1>10. w("scope") \in Seq(TextLine) /\ r6 \in ReadType /\ one("scope", r6, r5)
  BY <1>2, <1>9, <1>4
<1> HIDE DEF r6
<1> DEFINE t2 == w("goal") \o w("place")
           t3 == t2 \o w("doneWhen")
           t4 == t3 \o w("onFailure")
           t5 == t4 \o w("why")
           t6 == t5 \o w("scope")
<1>11. Written(sp) = t6
  BY DEF Written
<1> HIDE DEF w
<1>12. t2 \in Seq(TextLine) /\ ReadAfter(r0, t2) = r2
  BY <1>5, <1>6, ReadJoinedText DEF r1, r2
<1> HIDE DEF t2
<1>13. t3 \in Seq(TextLine) /\ ReadAfter(r0, t3) = r3
  BY <1>12, <1>7, ReadJoinedText DEF r3
<1> HIDE DEF t3
<1>14. t4 \in Seq(TextLine) /\ ReadAfter(r0, t4) = r4
  BY <1>13, <1>8, ReadJoinedText DEF r4
<1> HIDE DEF t4
<1>15. t5 \in Seq(TextLine) /\ ReadAfter(r0, t5) = r5
  BY <1>14, <1>9, ReadJoinedText DEF r5
<1> HIDE DEF t5
<1>16. t6 \in Seq(TextLine) /\ ReadAfter(r0, t6) = r6
  BY <1>15, <1>10, ReadJoinedText DEF r6
<1> HIDE DEF t6
<1>17. Read(Written(sp)) = r6.spec
  BY <1>11, <1>16 DEF Read, r0
<1>18. ASSUME NEW p \in Part PROVE r6.spec[p] = ReadAgain(sp[p])
  <2> DEFINE g == Given(Back(sp[p].said))
             says == sp[p].said # <<>>
  <2>1. r1.spec[p] = IF p = "goal" /\ says THEN g ELSE r0.spec[p]
    BY <1>5 DEF one
  <2>2. r2.spec[p] = IF p = "place" /\ says THEN g ELSE r1.spec[p]
    BY <1>6 DEF one
  <2>3. r3.spec[p] = IF p = "doneWhen" /\ says THEN g ELSE r2.spec[p]
    BY <1>7 DEF one
  <2>4. r4.spec[p] = IF p = "onFailure" /\ says THEN g ELSE r3.spec[p]
    BY <1>8 DEF one
  <2>5. r5.spec[p] = IF p = "why" /\ says THEN g ELSE r4.spec[p]
    BY <1>9 DEF one
  <2>6. r6.spec[p] = IF p = "scope" /\ says THEN g ELSE r5.spec[p]
    BY <1>10 DEF one
  <2>7. r0.spec[p] = Open
    BY <1>3
  <2>8. ReadAgain(sp[p]) = IF says THEN g ELSE Open
    BY DEF ReadAgain
  <2> HIDE DEF g, says
  <2>9. r6.spec[p] = IF says THEN g ELSE Open
    BY <1>2, <2>1, <2>2, <2>3, <2>4, <2>5, <2>6, <2>7
  <2> QED
    BY <2>8, <2>9
<1> QED
  BY <1>11, <1>16, <1>17, <1>18

\* Which parts a text names, and whether it has the marks of a spec's.
NamedIn(t) == {t[i].names : i \in DOMAIN t}
MarkedAs(t, sp) ==
    \A i \in DOMAIN t :
        t[i].names # NoPart =>
            /\ sp[t[i].names].said # <<>>
            /\ t[i].marked = sp[t[i].names].said[1].marked

LEMMA NamesJoined ==
    ASSUME NEW a \in Seq(TextLine), NEW b \in Seq(TextLine), NEW sp
    PROVE  /\ a \o b \in Seq(TextLine)
           /\ NamedIn(a) \subseteq NamedIn(a \o b)
           /\ NamedIn(b) \subseteq NamedIn(a \o b)
           /\ MarkedAs(a, sp) /\ MarkedAs(b, sp) => MarkedAs(a \o b, sp)
<1> DEFINE c == a \o b
<1>1. /\ c \in Seq(TextLine) /\ Len(c) = Len(a) + Len(b)
      /\ \A j \in 1..(Len(a) + Len(b)) : c[j] = IF j <= Len(a) THEN a[j] ELSE b[j - Len(a)]
  BY ConcatProperties
<1>2. Len(a) \in Nat /\ Len(b) \in Nat /\ DOMAIN a = 1..Len(a) /\ DOMAIN b = 1..Len(b)
  OBVIOUS
<1> HIDE DEF c
<1>3. DOMAIN c = 1..(Len(a) + Len(b))
  BY <1>1
<1>4. ASSUME NEW i \in DOMAIN a PROVE i \in DOMAIN c /\ c[i] = a[i]
  <2>1. i \in 1..(Len(a) + Len(b)) /\ i <= Len(a)
    BY <1>2
  <2> QED
    BY <2>1, <1>1, <1>3
<1>5. ASSUME NEW i \in DOMAIN b PROVE i + Len(a) \in DOMAIN c /\ c[i + Len(a)] = b[i]
  <2>1. i + Len(a) \in 1..(Len(a) + Len(b)) /\ ~ (i + Len(a) <= Len(a))
        /\ i + Len(a) - Len(a) = i
    BY <1>2
  <2> QED
    BY <2>1, <1>1, <1>3
<1>6. ASSUME NEW j \in DOMAIN c
      PROVE  (\E i \in DOMAIN a : c[j] = a[i]) \/ (\E i \in DOMAIN b : c[j] = b[i])
  <2>1. CASE j <= Len(a)
    <3>1. j \in DOMAIN a
      BY <2>1, <1>2, <1>3
    <3> QED
      BY <3>1, <1>4
  <2>2. CASE ~ (j <= Len(a))
    <3>1. j - Len(a) \in DOMAIN b /\ j \in 1..(Len(a) + Len(b))
      BY <2>2, <1>2, <1>3
    <3> QED
      BY <3>1, <2>2, <1>1
  <2> QED
    BY <2>1, <2>2
<1>7. NamedIn(a) \subseteq NamedIn(c)
  BY <1>4 DEF NamedIn
<1>8. NamedIn(b) \subseteq NamedIn(c)
  BY <1>5 DEF NamedIn
<1>9. ASSUME MarkedAs(a, sp), MarkedAs(b, sp) PROVE MarkedAs(c, sp)
  BY <1>6, <1>9 DEF MarkedAs
<1> QED
  BY <1>1, <1>7, <1>8, <1>9 DEF c

\* The one line that names a part in the text of a spec has the marks of the
\* part's first line.
LEMMA WrittenNames ==
    ASSUME NEW sp \in [Part -> PartType]
    PROVE  /\ MarkedAs(Written(sp), sp)
           /\ \A p \in Part : sp[p].said # <<>> => p \in NamedIn(Written(sp))
<1> DEFINE w(p) == WrittenPart(p, sp[p].said)
<1>1. /\ "goal" \in Part /\ "place" \in Part /\ "doneWhen" \in Part
      /\ "onFailure" \in Part /\ "why" \in Part /\ "scope" \in Part
      /\ \A p \in Part : p \in {"goal", "place", "doneWhen", "onFailure", "why", "scope"}
  BY DEF Part
<1>2. \A p \in Part : sp[p].said \in Seq(LineType)
  BY DEF PartType
<1>3. ASSUME NEW p \in Part
      PROVE  /\ w(p) \in Seq(TextLine) /\ MarkedAs(w(p), sp)
             /\ sp[p].said # <<>> => p \in NamedIn(w(p))
  <2>1. CASE sp[p].said = <<>>
    <3>1. w(p) = <<>> /\ <<>> \in Seq(TextLine) /\ DOMAIN <<>> = {}
      BY <2>1 DEF WrittenPart
    <3> QED
      BY <2>1, <3>1 DEF MarkedAs
  <2>2. CASE sp[p].said # <<>>
    <3> DEFINE said == sp[p].said
               t == WrittenPart(p, said)
    <3>1. said \in Seq(LineType) /\ said # <<>>
      BY <1>2, <2>2
    <3>2. /\ t \in Seq(TextLine) /\ Len(t) = Len(said)
          /\ t[1] = Text(p, said[1])
          /\ \A i \in 2..Len(said) : t[i] = Text(NoPart, said[i])
      <4> HIDE DEF said
      <4> QED
        BY <3>1, WrittenPartIs
    <3>3. Len(said) \in Nat /\ Len(said) # 0
      <4> HIDE DEF said
      <4> QED
        BY <3>1
    <3> HIDE DEF t
    <3>4. 1 \in DOMAIN t /\ DOMAIN t = 1..Len(said)
      BY <3>2, <3>3
    <3>5. \A q, x : Text(q, x).names = q /\ Text(q, x).marked = x.marked
      BY DEF Text
    <3>6. ASSUME NEW i \in DOMAIN t, t[i].names # NoPart PROVE i = 1
      <4>1. i # 1 => i \in 2..Len(said)
        BY <3>3, <3>4
      <4> QED
        BY <4>1, <3>2, <3>5, <3>6
    <3>7. t[1].names = p /\ t[1].marked = said[1].marked
      BY <3>2, <3>5
    <3>8. MarkedAs(t, sp)
      BY <2>2, <3>6, <3>7 DEF MarkedAs
    <3>9. p \in NamedIn(t)
      BY <3>4, <3>7 DEF NamedIn
    <3> QED
      BY <3>2, <3>8, <3>9 DEF t
  <2> QED
    BY <2>1, <2>2
<1> HIDE DEF w
<1> DEFINE t2 == w("goal") \o w("place")
           t3 == t2 \o w("doneWhen")
           t4 == t3 \o w("onFailure")
           t5 == t4 \o w("why")
           t6 == t5 \o w("scope")
<1>4. /\ t2 \in Seq(TextLine) /\ MarkedAs(t2, sp)
      /\ NamedIn(w("goal")) \subseteq NamedIn(t2) /\ NamedIn(w("place")) \subseteq NamedIn(t2)
  BY <1>1, <1>3, NamesJoined
<1> HIDE DEF t2
<1>5. /\ t3 \in Seq(TextLine) /\ MarkedAs(t3, sp)
      /\ NamedIn(t2) \subseteq NamedIn(t3) /\ NamedIn(w("doneWhen")) \subseteq NamedIn(t3)
  BY <1>1, <1>3, <1>4, NamesJoined
<1> HIDE DEF t3
<1>6. /\ t4 \in Seq(TextLine) /\ MarkedAs(t4, sp)
      /\ NamedIn(t3) \subseteq NamedIn(t4) /\ NamedIn(w("onFailure")) \subseteq NamedIn(t4)
  BY <1>1, <1>3, <1>5, NamesJoined
<1> HIDE DEF t4
<1>7. /\ t5 \in Seq(TextLine) /\ MarkedAs(t5, sp)
      /\ NamedIn(t4) \subseteq NamedIn(t5) /\ NamedIn(w("why")) \subseteq NamedIn(t5)
  BY <1>1, <1>3, <1>6, NamesJoined
<1> HIDE DEF t5
<1>8. /\ MarkedAs(t6, sp)
      /\ NamedIn(t5) \subseteq NamedIn(t6) /\ NamedIn(w("scope")) \subseteq NamedIn(t6)
  BY <1>1, <1>3, <1>7, NamesJoined
<1> HIDE DEF t6
<1>9. \A p \in Part : NamedIn(w(p)) \subseteq NamedIn(t6)
  <2>1. /\ NamedIn(w("goal")) \subseteq NamedIn(t6) /\ NamedIn(w("place")) \subseteq NamedIn(t6)
        /\ NamedIn(w("doneWhen")) \subseteq NamedIn(t6)
        /\ NamedIn(w("onFailure")) \subseteq NamedIn(t6)
        /\ NamedIn(w("why")) \subseteq NamedIn(t6) /\ NamedIn(w("scope")) \subseteq NamedIn(t6)
    BY <1>4, <1>5, <1>6, <1>7, <1>8, SetExtensionality, Zenon
  <2> QED
    BY <1>1, <2>1, Zenon
<1>10. Written(sp) = t6
  BY DEF Written, t2, t3, t4, t5, t6, w
<1> QED
  BY <1>3, <1>8, <1>9, <1>10

LEMMA WrittenMarks ==
    ASSUME NEW sp \in [Part -> PartType], NEW p \in Part, sp[p].said # <<>>
    PROVE  /\ NamesOne(Written(sp))
           /\ MarkedIn(Written(sp), p) <=> sp[p].said[1].marked
           /\ ReadsBack(Written(sp)) /\ p \in {"place", "doneWhen"} => ~ sp[p].said[1].marked
<1> DEFINE t == Written(sp)
<1>1. MarkedAs(t, sp) /\ p \in NamedIn(t)
  BY WrittenNames
<1> HIDE DEF t
<1>2. PICK i \in DOMAIN t : t[i].names = p
  BY <1>1 DEF NamedIn
<1>3. \A j \in DOMAIN t : t[j].names = p => t[j].marked = sp[p].said[1].marked
  BY <1>1, NoPartIsNone DEF MarkedAs
<1>4. NamesOne(t)
  BY <1>2, NoPartIsNone DEF NamesOne
<1>5. MarkedIn(t, p) <=> sp[p].said[1].marked
  BY <1>2, <1>3 DEF MarkedIn
<1>6. ReadsBack(t) /\ p \in {"place", "doneWhen"} => ~ sp[p].said[1].marked
  BY <1>2, <1>3 DEF ReadsBack
<1> QED
  BY <1>4, <1>5, <1>6 DEF t

----------------------------------------------------------------------------
(* What is left to decide, and what the repository answers.                *)

LeftOne == [kind : Kinds, part : Part]

LEMMA LeftJoined ==
    ASSUME NEW a \in Seq(LeftOne), NEW b \in Seq(LeftOne)
    PROVE  /\ a \o b \in Seq(LeftOne)
           /\ PartsOf(a) \subseteq PartsOf(a \o b)
           /\ PartsOf(b) \subseteq PartsOf(a \o b)
           /\ a = <<>> /\ b = <<>> => a \o b = <<>>
<1> DEFINE c == a \o b
<1>1. /\ c \in Seq(LeftOne) /\ Len(c) = Len(a) + Len(b)
      /\ \A j \in 1..(Len(a) + Len(b)) : c[j] = IF j <= Len(a) THEN a[j] ELSE b[j - Len(a)]
  BY ConcatProperties
<1>2. Len(a) \in Nat /\ Len(b) \in Nat /\ DOMAIN a = 1..Len(a) /\ DOMAIN b = 1..Len(b)
  OBVIOUS
<1>3. a = <<>> /\ b = <<>> => c = <<>>
  OBVIOUS
<1> HIDE DEF c
<1>4. DOMAIN c = 1..(Len(a) + Len(b))
  BY <1>1
<1>5. ASSUME NEW i \in DOMAIN a PROVE i \in DOMAIN c /\ c[i] = a[i]
  <2>1. i \in 1..(Len(a) + Len(b)) /\ i <= Len(a)
    BY <1>2
  <2> QED
    BY <2>1, <1>1, <1>4
<1>6. ASSUME NEW i \in DOMAIN b PROVE i + Len(a) \in DOMAIN c /\ c[i + Len(a)] = b[i]
  <2>1. i + Len(a) \in 1..(Len(a) + Len(b)) /\ ~ (i + Len(a) <= Len(a))
        /\ i + Len(a) - Len(a) = i
    BY <1>2
  <2> QED
    BY <2>1, <1>1, <1>4
<1>7. PartsOf(a) \subseteq PartsOf(c)
  BY <1>5 DEF PartsOf
<1>8. PartsOf(b) \subseteq PartsOf(c)
  BY <1>6 DEF PartsOf
<1> QED
  BY <1>1, <1>3, <1>7, <1>8 DEF c

LEMMA OneIsLeft ==
    ASSUME NEW p \in Part, NEW k \in Kinds
    PROVE  <<One(k, p)>> \in Seq(LeftOne) /\ p \in PartsOf(<<One(k, p)>>)
<1> DEFINE x == One(k, p)
<1>1. x \in LeftOne /\ x.part = p
  BY DEF One, LeftOne
<1> HIDE DEF x
<1>2. <<x>> \in Seq(LeftOne) /\ 1 \in DOMAIN <<x>> /\ <<x>>[1] = x
  BY <1>1
<1>3. p \in PartsOf(<<x>>)
  BY <1>1, <1>2 DEF PartsOf
<1> QED
  BY <1>2, <1>3 DEF x

\* Nothing, or one thing of a part.
AtMostOne(r, p) == r = <<>> \/ \E k \in Kinds : r = <<One(k, p)>>

LEMMA AtMostOneIs ==
    ASSUME NEW p \in Part, NEW r, AtMostOne(r, p)
    PROVE  r \in Seq(LeftOne) /\ (r # <<>> => p \in PartsOf(r))
<1>1. <<>> \in Seq(LeftOne)
  OBVIOUS
<1>2. \A k \in Kinds : <<One(k, p)>> \in Seq(LeftOne) /\ p \in PartsOf(<<One(k, p)>>)
  BY OneIsLeft
<1> QED
  BY <1>1, <1>2, Zenon DEF AtMostOne

LEMMA EachAtMostOne ==
    ASSUME NEW sp, NEW wrote, NEW g
    PROVE  /\ \A p \in Part : AtMostOne(LeftOf(p, sp, wrote), p)
           /\ AtMostOne(PlaceLeft(sp, g), "place")
           /\ AtMostOne(DoneLeft(sp, g), "doneWhen")
<1>1. /\ "unsettled" \in Kinds /\ "echoed" \in Kinds /\ "nowhere" \in Kinds
      /\ "reaches" \in Kinds /\ "unverifiable" \in Kinds /\ "already" \in Kinds
  BY DEF Kinds
<1>2. ASSUME NEW p \in Part PROVE AtMostOne(LeftOf(p, sp, wrote), p)
  BY <1>1 DEF LeftOf, AtMostOne
<1>3. AtMostOne(PlaceLeft(sp, g), "place")
  BY <1>1 DEF PlaceLeft, AtMostOne
<1>4. AtMostOne(DoneLeft(sp, g), "doneWhen")
  BY <1>1 DEF DoneLeft, AtMostOne
<1> QED
  BY <1>2, <1>3, <1>4

\* What is left is what is left of each part, of the place and of the command.
NoneLeft(sp, wrote, g) ==
    /\ \A p \in Part : LeftOf(p, sp, wrote) = <<>>
    /\ PlaceLeft(sp, g) = <<>> /\ DoneLeft(sp, g) = <<>>

LEMMA LeftIs ==
    ASSUME NEW sp, NEW wrote, NEW g
    PROVE  /\ LeftToDecide(sp, wrote, g) \in Seq(LeftOne)
           /\ \A p \in Part \ PartsOf(LeftToDecide(sp, wrote, g)) :
                 /\ LeftOf(p, sp, wrote) = <<>>
                 /\ p = "place" => PlaceLeft(sp, g) = <<>>
                 /\ p = "doneWhen" => DoneLeft(sp, g) = <<>>
           /\ NoneLeft(sp, wrote, g) => LeftToDecide(sp, wrote, g) = <<>>
<1> DEFINE of(p) == LeftOf(p, sp, wrote)
           t2 == of("goal") \o of("place")
           t3 == t2 \o of("doneWhen")
           t4 == t3 \o of("onFailure")
           t5 == t4 \o of("why")
           t6 == t5 \o of("scope")
           t7 == t6 \o PlaceLeft(sp, g)
           t8 == t7 \o DoneLeft(sp, g)
<1>1. LeftToDecide(sp, wrote, g) = t8
  BY DEF LeftToDecide
<1>2. /\ "goal" \in Part /\ "place" \in Part /\ "doneWhen" \in Part
      /\ "onFailure" \in Part /\ "why" \in Part /\ "scope" \in Part
      /\ \A p \in Part : p \in {"goal", "place", "doneWhen", "onFailure", "why", "scope"}
  BY DEF Part
<1>3. \A p \in Part : AtMostOne(of(p), p)
  BY EachAtMostOne
<1>4. \A p \in Part : of(p) \in Seq(LeftOne) /\ (of(p) # <<>> => p \in PartsOf(of(p)))
  <2> HIDE DEF of
  <2> QED
    BY <1>3, AtMostOneIs
<1> DEFINE place == PlaceLeft(sp, g)
           done == DoneLeft(sp, g)
<1>5. place \in Seq(LeftOne) /\ (place # <<>> => "place" \in PartsOf(place))
  BY <1>2, EachAtMostOne, AtMostOneIs
<1>6. done \in Seq(LeftOne) /\ (done # <<>> => "doneWhen" \in PartsOf(done))
  BY <1>2, EachAtMostOne, AtMostOneIs
<1>7. NoneLeft(sp, wrote, g) =>
        place = <<>> /\ done = <<>> /\ \A p \in Part : of(p) = <<>>
  BY DEF NoneLeft
<1> HIDE DEF of, place, done
<1>8. /\ t2 \in Seq(LeftOne) /\ PartsOf(of("goal")) \subseteq PartsOf(t2)
      /\ PartsOf(of("place")) \subseteq PartsOf(t2)
      /\ NoneLeft(sp, wrote, g) => t2 = <<>>
  BY <1>2, <1>4, <1>7, LeftJoined
<1> HIDE DEF t2
<1>9. /\ t3 \in Seq(LeftOne) /\ PartsOf(t2) \subseteq PartsOf(t3)
      /\ PartsOf(of("doneWhen")) \subseteq PartsOf(t3)
      /\ NoneLeft(sp, wrote, g) => t3 = <<>>
  BY <1>2, <1>4, <1>7, <1>8, LeftJoined
<1> HIDE DEF t3
<1>10. /\ t4 \in Seq(LeftOne) /\ PartsOf(t3) \subseteq PartsOf(t4)
       /\ PartsOf(of("onFailure")) \subseteq PartsOf(t4)
       /\ NoneLeft(sp, wrote, g) => t4 = <<>>
  BY <1>2, <1>4, <1>7, <1>9, LeftJoined
<1> HIDE DEF t4
<1>11. /\ t5 \in Seq(LeftOne) /\ PartsOf(t4) \subseteq PartsOf(t5)
       /\ PartsOf(of("why")) \subseteq PartsOf(t5)
       /\ NoneLeft(sp, wrote, g) => t5 = <<>>
  BY <1>2, <1>4, <1>7, <1>10, LeftJoined
<1> HIDE DEF t5
<1>12. /\ t6 \in Seq(LeftOne) /\ PartsOf(t5) \subseteq PartsOf(t6)
       /\ PartsOf(of("scope")) \subseteq PartsOf(t6)
       /\ NoneLeft(sp, wrote, g) => t6 = <<>>
  BY <1>2, <1>4, <1>7, <1>11, LeftJoined
<1> HIDE DEF t6
<1>13. /\ t7 \in Seq(LeftOne) /\ PartsOf(t6) \subseteq PartsOf(t7)
       /\ PartsOf(place) \subseteq PartsOf(t7)
       /\ NoneLeft(sp, wrote, g) => t7 = <<>>
  BY <1>5, <1>7, <1>12, LeftJoined DEF place
<1> HIDE DEF t7
<1>14. /\ t8 \in Seq(LeftOne) /\ PartsOf(t7) \subseteq PartsOf(t8)
       /\ PartsOf(done) \subseteq PartsOf(t8)
       /\ NoneLeft(sp, wrote, g) => t8 = <<>>
  BY <1>6, <1>7, <1>13, LeftJoined DEF done
<1> HIDE DEF t8
<1>15. /\ \A p \in Part : PartsOf(of(p)) \subseteq PartsOf(t8)
       /\ PartsOf(place) \subseteq PartsOf(t8)
       /\ PartsOf(done) \subseteq PartsOf(t8)
  <2>1. /\ PartsOf(of("goal")) \subseteq PartsOf(t8) /\ PartsOf(of("place")) \subseteq PartsOf(t8)
        /\ PartsOf(of("doneWhen")) \subseteq PartsOf(t8)
        /\ PartsOf(of("onFailure")) \subseteq PartsOf(t8)
        /\ PartsOf(of("why")) \subseteq PartsOf(t8) /\ PartsOf(of("scope")) \subseteq PartsOf(t8)
        /\ PartsOf(place) \subseteq PartsOf(t8) /\ PartsOf(done) \subseteq PartsOf(t8)
    BY <1>8, <1>9, <1>10, <1>11, <1>12, <1>13, <1>14, SetExtensionality, Zenon
  <2> QED
    BY <1>2, <2>1, Zenon
<1>16. ASSUME NEW p \in Part \ PartsOf(t8)
       PROVE  /\ of(p) = <<>>
              /\ p = "place" => place = <<>>
              /\ p = "doneWhen" => done = <<>>
  BY <1>4, <1>5, <1>6, <1>15
<1> QED
  BY <1>1, <1>14, <1>16 DEF of, place, done

----------------------------------------------------------------------------
FilesOf(said, r) == IF Len(said) = 1 THEN Reaches(r, said[1]) ELSE 0
RanOf(said, r) ==
    IF Len(said) = 1 /\ Runnable(r, said[1]) THEN Run(r, said[1]) ELSE "unknown"

LEMMA GroundedIs ==
    \A sp, r : /\ Grounded(sp, r).files = FilesOf(sp["place"].said, r)
               /\ Grounded(sp, r).ran = RanOf(sp["doneWhen"].said, r)
  BY DEF Grounded, FilesOf, RanOf

LEMMA GroundedTypes ==
    ASSUME NEW said, NEW r \in DOMAIN Tracked
    PROVE  /\ FilesOf(said, r) \in Nat
           /\ RanOf(said, r) \in {"passed", "failed", "unknown"}
<1>1. ASSUME NEW x PROVE Reaches(r, x) \in Nat
  <2>1. CASE \E n \in DOMAIN Tracked[r] : x = Lone(n)
    <3> DEFINE n == CHOOSE n \in DOMAIN Tracked[r] : x = Lone(n)
    <3>1. n \in DOMAIN Tracked[r]
      BY <2>1
    <3>2. Reaches(r, x) = Tracked[r][n]
      BY <2>1 DEF Reaches
    <3> HIDE DEF n
    <3> QED
      BY <3>1, <3>2, SpecsAssumption DEF SpecsAssumption
  <2>2. CASE ~ \E n \in DOMAIN Tracked[r] : x = Lone(n)
    BY <2>2 DEF Reaches
  <2> QED
    BY <2>1, <2>2
<1>2. FilesOf(said, r) \in Nat
  BY <1>1 DEF FilesOf
<1>3. RanOf(said, r) \in {"passed", "failed", "unknown"}
  BY DEF RanOf, Run
<1> QED
  BY <1>2, <1>3

\* What names a part and has no marks is read again as it was.
LEMMA PlainStays ==
    ASSUME NEW said \in Seq(LineType), said # <<>>, ~ said[1].marked
    PROVE  Back(said) = said
<1>1. DOMAIN said = 1..Len(said) /\ \A i \in DOMAIN said : said[i] \in LineType
  OBVIOUS
<1>2. ASSUME NEW x \in LineType, ~ x.marked PROVE Bare(x) = x
  <2>1. x.marked = FALSE
    BY <1>2 DEF LineType
  <2>2. x = [words |-> x.words, marked |-> x.marked]
    BY DEF LineType
  <2> QED
    BY <2>1, <2>2 DEF Bare, Says
<1>3. ASSUME NEW i \in DOMAIN said
      PROVE  (IF i = 1 THEN Bare(said[1]) ELSE said[i]) = said[i]
  BY <1>1, <1>2
<1>4. Back(said) = [i \in DOMAIN said |-> said[i]]
  BY <1>3 DEF Back
<1>5. said = [i \in DOMAIN said |-> said[i]]
  OBVIOUS
<1> QED
  BY <1>4, <1>5

\* And with the marks it has in a text, whatever is written stands there as it
\* was.
LEMMA MarksStay ==
    ASSUME NEW said \in Seq(LineType), said # <<>>, NEW m \in BOOLEAN, m = said[1].marked
    PROVE  Stands(Back(said), m) = said
<1>1. /\ DOMAIN said = 1..Len(said) /\ (\A i \in DOMAIN said : said[i] \in LineType)
      /\ 1 \in DOMAIN said
  <2>1. Len(said) \in Nat /\ Len(said) # 0
    OBVIOUS
  <2> QED
    BY <2>1
<1>2. DOMAIN Back(said) = DOMAIN said
  BY DEF Back
<1>3. Back(said)[1].words = said[1].words
  BY <1>1 DEF Back, Bare, Says
<1>4. said[1] = [words |-> said[1].words, marked |-> m]
  <2>1. said[1] \in LineType
    BY <1>1
  <2> QED
    BY <2>1 DEF LineType
<1>5. ASSUME NEW i \in DOMAIN said, i # 1 PROVE Back(said)[i] = said[i]
  BY <1>5 DEF Back
<1>6. ASSUME NEW i \in DOMAIN said
      PROVE  (IF i = 1 THEN [words |-> Back(said)[1].words, marked |-> m] ELSE Back(said)[i])
                 = said[i]
  BY <1>3, <1>4, <1>5
<1>7. Stands(Back(said), m) = [i \in DOMAIN said |-> said[i]]
  BY <1>2, <1>6 DEF Stands
<1> QED
  BY <1>7

LEMMA PlaceAndDone ==
    ASSUME NEW sp \in [Part -> PartType], NEW r \in DOMAIN Tracked
    PROVE  /\ ~IsOpen(sp["place"]) =>
                 (PlaceLeft(sp, Grounded(sp, r)) = <<>>
                     <=> FilesOf(sp["place"].said, r) \in 1..ReachesAtMost)
           /\ ~IsOpen(sp["doneWhen"]) =>
                 (DoneLeft(sp, Grounded(sp, r)) = <<>>
                     <=> RanOf(sp["doneWhen"].said, r) = "failed")
<1> DEFINE g == Grounded(sp, r)
           f == FilesOf(sp["place"].said, r)
           n == RanOf(sp["doneWhen"].said, r)
<1>1. g.files = f /\ g.ran = n /\ f \in Nat /\ n \in {"passed", "failed", "unknown"}
  BY GroundedIs, GroundedTypes
<1>2. \A k, p : <<One(k, p)>> # <<>>
  OBVIOUS
<1>3. ReachesAtMost \in Nat
  BY SpecsAssumption DEF SpecsAssumption
<1> HIDE DEF g, f, n
<1>4. ASSUME ~IsOpen(sp["place"])
      PROVE  PlaceLeft(sp, g) = <<>> <=> f \in 1..ReachesAtMost
  <2>1. f \in 1..ReachesAtMost <=> f # 0 /\ ~ (f > ReachesAtMost)
    BY <1>1, <1>3
  <2> QED
    BY <2>1, <1>1, <1>2, <1>4 DEF PlaceLeft
<1>5. ASSUME ~IsOpen(sp["doneWhen"])
      PROVE  DoneLeft(sp, g) = <<>> <=> n = "failed"
  BY <1>1, <1>2, <1>5 DEF DoneLeft
<1> QED
  BY <1>4, <1>5 DEF g, f, n

----------------------------------------------------------------------------
(* What is written and read again says and leaves what it did.             *)

LEMMA BackSays ==
    ASSUME NEW said \in Seq(LineType)
    PROVE  Bared(Back(said)) = Bared(said)
<1>1. DOMAIN Back(said) = DOMAIN said
  BY DEF Back
<1>2. \A x : Bare(Bare(x)) = Bare(x)
  BY DEF Bare, Says
<1>3. ASSUME NEW i \in DOMAIN said PROVE Bare(Back(said)[i]) = Bare(said[i])
  BY <1>2 DEF Back
<1> QED
  BY <1>1, <1>3 DEF Bared

LEMMA SeenAgain ==
    ASSUME NEW sp \in [Part -> PartType]
    PROVE  SaysAs(Read(Written(sp)), sp)
<1> SUFFICES ASSUME NEW p \in Part
             PROVE  Bared(Read(Written(sp))[p].said) = Bared(sp[p].said)
  BY DEF SaysAs
<1>1. sp[p].said \in Seq(LineType)
  BY DEF PartType
<1>2. Read(Written(sp))[p] = ReadAgain(sp[p])
  BY WrittenIsRead
<1>3. CASE sp[p].said = <<>>
  BY <1>2, <1>3 DEF ReadAgain, Open
<1>4. CASE sp[p].said # <<>>
  <2>1. Read(Written(sp))[p].said = Back(sp[p].said)
    BY <1>2, <1>4 DEF ReadAgain, Given
  <2> QED
    BY <2>1, <1>1, BackSays
<1> QED
  BY <1>3, <1>4

LEMMA BackSaysSome ==
    ASSUME NEW said \in Seq(LineType), said # <<>>
    PROVE  Back(said) # <<>>
<1>1. Len(said) # 0 /\ Len(Back(said)) = Len(said)
  BY BackIsRow
<1> QED
  BY <1>1

LEMMA NothingLeft ==
    ASSUME NEW sp \in [Part -> PartType], NEW wrote, NEW r \in DOMAIN Tracked,
           Counted(sp, wrote, r) = <<>>
    PROVE  /\ \A p \in Part \ {"why"} : ~IsOpen(sp[p])
           /\ FilesOf(sp["place"].said, r) \in 1..ReachesAtMost
           /\ RanOf(sp["doneWhen"].said, r) = "failed"
<1> DEFINE g == Grounded(sp, r)
           l == LeftToDecide(sp, wrote, g)
<1>1. l = <<>>
  BY DEF Counted
<1>2. PartsOf(<<>>) = {}
  BY DEF PartsOf
<1>3. \A p \in Part : /\ LeftOf(p, sp, wrote) = <<>>
                      /\ p = "place" => PlaceLeft(sp, g) = <<>>
                      /\ p = "doneWhen" => DoneLeft(sp, g) = <<>>
  <2> HIDE DEF g
  <2>1. PartsOf(l) = {}
    BY <1>1, <1>2
  <2> QED
    BY <2>1, LeftIs
<1>4. ASSUME NEW p \in Part \ {"why"} PROVE ~IsOpen(sp[p])
  <2>1. <<One("unsettled", p)>> # <<>>
    OBVIOUS
  <2>2. p \notin Undecided(sp)
    BY <2>1, <1>3 DEF LeftOf
  <2> QED
    BY <2>2 DEF Undecided
<1>5. "place" \in Part \ {"why"} /\ "doneWhen" \in Part \ {"why"}
  BY DEF Part
<1> QED
  BY <1>3, <1>4, <1>5, PlaceAndDone

\* In a text a spec stands as it was written.
LEMMA StandsAsWritten ==
    ASSUME NEW sp \in [Part -> PartType], NEW p \in Part
    PROVE  AsItStands(Written(sp))[p].said = sp[p].said
<1> DEFINE t == Written(sp)
           said == sp[p].said
           m == MarkedIn(t, p)
<1>1. said \in Seq(LineType) /\ Read(t)[p] = ReadAgain(sp[p])
  BY WrittenIsRead DEF PartType
<1>2. AsItStands(t)[p].said = Stands(Read(t)[p].said, m)
  BY DEF AsItStands, Given
<1>3. CASE said = <<>>
  <2>1. Read(t)[p].said = <<>>
    BY <1>1, <1>3 DEF ReadAgain, Open
  <2>2. Stands(<<>>, m) = <<>>
    BY DEF Stands
  <2> QED
    BY <1>2, <1>3, <2>1, <2>2
<1>4. CASE said # <<>>
  <2>1. Read(t)[p].said = Back(said)
    BY <1>1, <1>4 DEF ReadAgain, Given
  <2>2. m \in BOOLEAN /\ (m <=> said[1].marked)
    BY <1>4, WrittenMarks DEF MarkedIn
  <2>3. said[1].marked \in BOOLEAN
    <3>1. Len(said) \in Nat /\ Len(said) # 0
      BY <1>1, <1>4
    <3>2. said[1] \in LineType
      BY <1>1, <3>1
    <3> QED
      BY <3>2 DEF LineType
  <2> HIDE DEF said, m, t
  <2>4. m = said[1].marked
    BY <2>2, <2>3
  <2>5. Stands(Back(said), m) = said
    BY <1>1, <1>4, <2>2, <2>4, MarksStay
  <2> QED
    BY <1>2, <2>1, <2>5 DEF said, t
<1> QED
  BY <1>3, <1>4

LEMMA NothingLeftAgain ==
    ASSUME NEW sp \in [Part -> PartType], NEW wrote, NEW r \in DOMAIN Tracked,
           Counted(sp, wrote, r) = <<>>
    PROVE  /\ \A p \in Part \ {"why"} : AsItStands(Written(sp))[p].said # <<>>
           /\ Grounded(AsItStands(Written(sp)), r).files \in 1..ReachesAtMost
           /\ Grounded(AsItStands(Written(sp)), r).ran = "failed"
<1> DEFINE back == AsItStands(Written(sp))
<1>1. \A p \in Part : back[p].said = sp[p].said
  BY StandsAsWritten
<1>2. /\ \A p \in Part \ {"why"} : sp[p].said # <<>>
      /\ FilesOf(sp["place"].said, r) \in 1..ReachesAtMost
      /\ RanOf(sp["doneWhen"].said, r) = "failed"
  BY NothingLeft DEF IsOpen
<1>3. "place" \in Part /\ "doneWhen" \in Part
  BY DEF Part
<1> HIDE DEF back
<1> QED
  BY <1>1, <1>2, <1>3, GroundedIs DEF back

\* A spec that settles what a run cannot start without, with a place and a
\* command the repository holds and that are read back as they stand, leaves
\* nothing when it is written and read.
LEMMA SettledLeavesNothing ==
    ASSUME NEW sp \in [Part -> PartType], NEW r \in DOMAIN Tracked, NEW wrote,
           \A p \in Part \ {"why"} : sp[p].said # <<>>,
           FilesOf(sp["place"].said, r) \in 1..ReachesAtMost,
           RanOf(sp["doneWhen"].said, r) = "failed",
           ReadsBack(Written(sp))
    PROVE  NamesOne(Written(sp)) /\ Counted(Read(Written(sp)), wrote, r) = <<>>
<1> DEFINE back == Read(Written(sp))
           g == Grounded(back, r)
<1>1. \A p \in Part : back[p] = ReadAgain(sp[p]) /\ sp[p].said \in Seq(LineType)
  BY WrittenIsRead DEF PartType
<1>2. back \in [Part -> PartType]
  BY WrittenIsRead, ReadReads
<1>3. /\ "goal" \in Part \ {"why"} /\ "place" \in Part \ {"why"}
      /\ "doneWhen" \in Part \ {"why"}
  BY DEF Part
<1> HIDE DEF back
<1>4. ASSUME NEW p \in Part \ {"why"}
      PROVE  ~IsOpen(back[p]) /\ back[p].said = Back(sp[p].said)
  <2>1. back[p] = Given(Back(sp[p].said))
    BY <1>1 DEF ReadAgain
  <2>2. Back(sp[p].said) # <<>>
    BY <1>1, BackSaysSome
  <2> QED
    BY <2>1, <2>2 DEF Given, IsOpen
<1>5. ASSUME NEW p \in Part PROVE back[p].settled \in {"given", "open"}
  <2>1. back[p] = Open \/ back[p] = Given(Back(sp[p].said))
    BY <1>1 DEF ReadAgain
  <2> QED
    BY <2>1 DEF Given, Open
<1>6. ASSUME NEW p \in Part PROVE LeftOf(p, back, wrote) = <<>>
  <2>1. p \notin Undecided(back)
    BY <1>4 DEF Undecided
  <2>2. ~Echoed(back[p], wrote)
    BY <1>5 DEF Echoed
  <2> QED
    BY <2>1, <2>2 DEF LeftOf
<1>7. PlaceLeft(back, g) = <<>> /\ DoneLeft(back, g) = <<>>
  <2>1. ASSUME NEW p \in {"place", "doneWhen"} PROVE Back(sp[p].said) = sp[p].said
    <3>1. p \in Part /\ sp[p].said \in Seq(LineType) /\ sp[p].said # <<>>
      BY <1>1, <1>3
    <3>2. ~ sp[p].said[1].marked
      BY <3>1, WrittenMarks
    <3> QED
      BY <3>1, <3>2, PlainStays
  <2>2. /\ FilesOf(back["place"].said, r) \in 1..ReachesAtMost
        /\ RanOf(back["doneWhen"].said, r) = "failed"
    BY <1>3, <1>4, <2>1
  <2> QED
    BY <1>2, <1>3, <1>4, <2>2, PlaceAndDone
<1>8. LeftToDecide(back, wrote, g) = <<>>
  <2> HIDE DEF g
  <2>1. NoneLeft(back, wrote, g)
    BY <1>6, <1>7 DEF NoneLeft
  <2> QED
    BY <2>1, LeftIs
<1>9. NamesOne(Written(sp))
  BY <1>3, WrittenMarks
<1> QED
  BY <1>8, <1>9 DEF Counted, back

----------------------------------------------------------------------------
(* What a person and a model answer with.                                  *)

LEMMA AnswersAreLines ==
    ASSUME parts \in [Part -> PartType], NEW p \in Part, NEW said \in Answerable(p)
    PROVE  \E x \in LineType : said = <<x>>
<1>1. Typable[p] \in SUBSET LineType /\ Stops \in Word
  BY AddingAssumption DEF AddingAssumption
<1>2. Offered(p) \subseteq LineType
  <2>1. ASSUME NEW n \in Name PROVE Lone(n) \in LineType
    BY DEF Lone, Name, LineType
  <2>2. Says({Stops}) \in LineType
    BY <1>1 DEF Says, LineType
  <2>3. parts[p].others \subseteq Name
    BY DEF PartType
  <2> QED
    BY <2>1, <2>2, <2>3 DEF Offered
<1>3. ASSUME NEW lines \in SUBSET LineType, lines # {}, NEW x \in Rows(lines)
      PROVE  x \in LineType
  <2>1. PICK m \in {line_.marked : line_ \in lines}
                       \cup {FALSE : several \in {a \in lines : \E b \in lines : a # b}} :
          x = [words |-> UNION {line_.words : line_ \in lines}, marked |-> m]
    BY DEF Rows
  <2>2. m \in BOOLEAN
    BY <2>1 DEF LineType
  <2> DEFINE all == UNION {line_.words : line_ \in lines}
  <2>3. ASSUME NEW y \in lines PROVE y.words \in SUBSET Word /\ y.words # {}
    BY DEF LineType
  <2>4. all \in SUBSET Word
    BY <2>3
  <2>5. all # {}
    <3>1. PICK y \in lines : TRUE
      BY <1>3
    <3>2. y.words \subseteq all
      OBVIOUS
    <3> QED
      BY <2>3, <3>2
  <2> HIDE DEF all
  <2>6. [words |-> all, marked |-> m] \in LineType
    BY <2>2, <2>4, <2>5 DEF LineType
  <2> QED
    BY <2>1, <2>6 DEF all
<1> DEFINE rows == {lines \in (SUBSET (Offered(p) \cup Typable[p])) \ {{}} :
                       /\ \A a, b \in lines \ Offered(p) : a = b
                       /\ \A a, b \in lines : a # b => a.words \cap b.words = {}}
<1>4. Answerable(p) = {<<x>> : x \in UNION {Rows(lines) : lines \in rows}}
  BY DEF Answerable
<1>5. \A lines \in rows : lines \in SUBSET LineType /\ lines # {}
  BY <1>1, <1>2
<1> HIDE DEF rows
<1>6. PICK x \in UNION {Rows(lines) : lines \in rows} : said = <<x>>
  BY <1>4
<1>7. PICK lines \in rows : x \in Rows(lines)
  BY <1>6
<1>8. x \in LineType
  BY <1>3, <1>5, <1>7
<1> QED
  BY <1>6, <1>8

LEMMA SettleIs ==
    ASSUME parts \in [Part -> PartType], NEW p \in Part, NEW x \in LineType
    PROVE  /\ Settle(p, <<x>>) \in [Part -> PartType]
           /\ Settle(p, <<x>>)[p].said = <<x>>
           /\ Settle(p, <<x>>)[p].settled = "given"
           /\ \A q \in Part \ {p} : Settle(p, <<x>>)[q] = parts[q]
<1> DEFINE v == [Given(<<x>>) EXCEPT !.asks = parts[p].asks]
<1>1. <<x>> \in Seq(LineType) /\ parts[p].asks \in BOOLEAN
  BY DEF PartType
<1>2. v.said = <<x>> /\ v.settled = "given" /\ v \in PartType
  BY <1>1 DEF Given, PartType
<1>3. Settle(p, <<x>>) = [parts EXCEPT ![p] = v]
  BY DEF Settle
<1> HIDE DEF v
<1> QED
  BY <1>2, <1>3

LEMMA FieldIsWords ==
    ASSUME NEW answer \in Seq(Line), NEW p, NEW of
    PROVE  Field(answer, p, of) \in SUBSET [word : Word, marks : Marks]
<1> DEFINE those == {i \in DOMAIN answer : answer[i].names = p /\ answer[i].of = of}
<1>1. CASE those = {}
  BY <1>1 DEF Field
<1>2. CASE those # {}
  <2>1. those \in SUBSET Nat
    OBVIOUS
  <2>2. PICK m \in those : \A j \in those : m <= j
    <3> HIDE DEF those
    <3> QED
      BY <1>2, <2>1, LeastNumber
  <2> DEFINE c == CHOOSE i \in those : \A j \in those : i <= j
  <2>3. c \in those
    <3> HIDE DEF those
    <3> QED
      BY <2>2
  <2>4. Field(answer, p, of) = answer[c].says
    BY <1>2 DEF Field
  <2>5. answer[c] \in Line
    <3> HIDE DEF c
    <3> QED
      BY <2>3
  <2>6. answer[c].says \in SUBSET [word : Word, marks : Marks]
    <3> HIDE DEF c
    <3> QED
      BY <2>5 DEF Line
  <2> QED
    BY <2>4, <2>6
<1> QED
  BY <1>1, <1>2

LEMMA DraftIsSpec ==
    ASSUME NEW answer \in Seq(Line)
    PROVE  SpecFrom(Drafted(answer)) \in [Part -> PartType]
<1> DEFINE d == Drafted(answer)
<1>1. ASSUME NEW p \in Part
      PROVE  /\ d[p].said \in SUBSET Word /\ d[p].marked \in BOOLEAN
             /\ d[p].others \in SUBSET Name /\ d[p].asks \in BOOLEAN
  <2> DEFINE row(of) == Field(answer, p, of)
  <2>1. \A of : row(of) \in SUBSET [word : Word, marks : Marks]
    BY FieldIsWords
  <2>2. d[p] = [said   |-> {w.word : w \in row("said")},
                marked |-> HasMarks(row("said")),
                others |-> Choices(row("others")),
                asks   |-> row("asks") # {}]
    BY DEF Drafted
  <2> HIDE DEF row, d
  <2>3. ASSUME NEW a \in SUBSET [word : Word, marks : Marks]
        PROVE  {w.word : w \in a} \in SUBSET Word /\ HasMarks(a) \in BOOLEAN
    BY DEF HasMarks
  <2>4. ASSUME NEW a \in SUBSET [word : Word, marks : Marks]
        PROVE  Choices(a) \in SUBSET Name
    <3> DEFINE m(w) == w.marks = "its own" \/ (w.marks = "code" /\ \E v \in a : v # w)
    <3>1. \A w \in a : m(w) \in BOOLEAN /\ w.word \in Word
      OBVIOUS
    <3> HIDE DEF m
    <3>2. \A w \in a : [word |-> w.word, marked |-> m(w)] \in Name
      BY <3>1 DEF Name
    <3> QED
      BY <3>2 DEF Choices, m
  <2> QED
    BY <2>1, <2>2, <2>3, <2>4
<1> HIDE DEF d
<1> DEFINE v(p) == [said    |-> IF d[p].said = {} THEN <<>>
                                ELSE <<[words |-> d[p].said, marked |-> d[p].marked]>>,
                    settled |-> IF d[p].said = {} THEN "open" ELSE "inferred",
                    others  |-> d[p].others,
                    asks    |-> d[p].asks]
<1>2. ASSUME NEW p \in Part PROVE v(p) \in PartType
  <2> DEFINE s == IF d[p].said = {} THEN <<>>
                  ELSE <<[words |-> d[p].said, marked |-> d[p].marked]>>
  <2>1. d[p].said # {} => [words |-> d[p].said, marked |-> d[p].marked] \in LineType
    BY <1>1 DEF LineType
  <2>2. s \in Seq(LineType)
    BY <2>1
  <2> HIDE DEF s
  <2>3. [said |-> s, settled |-> IF d[p].said = {} THEN "open" ELSE "inferred",
         others |-> d[p].others, asks |-> d[p].asks] \in PartType
    BY <1>1, <2>2 DEF PartType
  <2> QED
    BY <2>3 DEF s
<1>3. SpecFrom(d) = [p \in Part |-> v(p)]
  BY DEF SpecFrom
<1> HIDE DEF v
<1> QED
  BY <1>2, <1>3 DEF d

LEMMA MendedIsSpec ==
    ASSUME NEW a \in [Part -> PartType], NEW b \in [Part -> PartType], NEW amiss
    PROVE  Mended(a, b, amiss) \in [Part -> PartType]
  BY DEF Mended

----------------------------------------------------------------------------
(* Adding a task, step by step.                                            *)

LEMMA TextTypeIs == TextType = Seq(TextLine)
  BY DEF TextType, TextLine

LEMMA RepositoryIs == repo \in Repositories => repo \in DOMAIN Tracked
  BY AddingAssumption DEF AddingAssumption

\* A step that leaves what was worked out, and is neither an answer nor the
\* end of one.
Still == UNCHANGED <<typed, force, terminal, sent, asks, spec, left, parts, next, repo,
                     moves, careful, registered, original>>

LEMMA OverKeeps ==
    ASSUME AddingInductive, doing' = "over", Still
    PROVE  AddingInductive'
<1> USE DEF AddingInductive, Still
<1>1. AddingTypeOK'
  BY DEF AddingTypeOK
<1>2. SentAsSeen' /\ RegisteredAsSeen' /\ RegisteredLeavesNothing'
  BY DEF SentAsSeen, RegisteredAsSeen, RegisteredLeavesNothing, Unforced
<1>3. LeftIsLeft' /\ SettledSoFar' /\ SentLeavesNothing' /\ AskedOnce'
  BY DEF LeftIsLeft, SettledSoFar, SentLeavesNothing, AskedOnce
<1> QED
  BY <1>1, <1>2, <1>3

\* What a core answers with: a spec, and what that leaves.
LEMMA AnswerKeeps ==
    ASSUME AddingInductive, NEW sp \in [Part -> PartType], NEW u \in Seq(LeftOne),
           careful => u = Counted(sp, sent, repo), ~ (careful /\ asks > 1 /\ ReadsBack(sent)),
           doing' \in {"answered", "amiss"}, spec' = sp, left' = u,
           UNCHANGED <<typed, force, sent, asks, parts, next, repo, careful, registered>>
    PROVE  AddingInductive'
<1> USE DEF AddingInductive
<1>1. AddingTypeOK'
  BY DEF AddingTypeOK, LeftOne
<1>2. SentAsSeen' /\ RegisteredAsSeen' /\ RegisteredLeavesNothing'
  BY DEF SentAsSeen, RegisteredAsSeen, RegisteredLeavesNothing, Unforced
<1>3. LeftIsLeft'
  BY DEF LeftIsLeft
<1>4. SettledSoFar' /\ SentLeavesNothing' /\ AskedOnce'
  BY DEF SettledSoFar, SentLeavesNothing, AskedOnce
<1> QED
  BY <1>1, <1>2, <1>3, <1>4

LEMMA ReadAsSpecKeeps ==
    ASSUME AddingInductive, ReadAsSpec
    PROVE  AddingInductive'
<1> DEFINE sp == Read(sent)
           u == Counted(sp, sent, repo)
<1>1. doing = "sent" /\ ~force /\ NamesOne(sent)
  BY DEF ReadAsSpec
<1>2. sp \in [Part -> PartType] /\ repo \in DOMAIN Tracked /\ sent \in Seq(TextLine)
  BY ReadReads, RepositoryIs, TextTypeIs DEF AddingInductive, AddingTypeOK
<1>3. u \in Seq(LeftOne)
  BY LeftIs DEF Counted
<1>4. CASE u # <<>>
  <2>1. Confirm(sp, u)
    BY <1>4 DEF ReadAsSpec
  <2>2. ~ (careful /\ asks > 1 /\ ReadsBack(sent))
    BY <1>1, <1>4 DEF AddingInductive, SentLeavesNothing
  <2>3. /\ doing' \in {"answered", "amiss"} /\ spec' = sp /\ left' = u
        /\ UNCHANGED <<typed, force, sent, asks, parts, next, repo, careful, registered>>
    BY <2>1 DEF Confirm, AsGiven, NothingWritten
  <2> DEFINE v == Counted(sp, sent, repo)
  <2>4. careful => u = v
    OBVIOUS
  <2> HIDE DEF sp, u
  <2> QED
    BY <1>2, <1>3, <2>2, <2>3, <2>4, AnswerKeeps
<1>5. CASE u = <<>>
  <2> DEFINE w == Written(sp)
  <2>1. Register(w)
    BY <1>5 DEF ReadAsSpec
  <2>2. /\ doing' = "added" /\ registered' = w /\ original' = Original(w)
        /\ UNCHANGED <<typed, force, sent, asks, spec, left, parts, next, repo, careful>>
    BY <2>1 DEF Register, AsGiven
  <2>3. w \in TextType /\ SaysAs(Read(w), sp)
    BY <1>2, WrittenIsRead, SeenAgain, TextTypeIs
  <2>4. SaysAs(sp, parts)
    BY <1>1 DEF AddingInductive, SentAsSeen
  <2>5. SaysAs(Read(w), parts)
    BY <2>3, <2>4 DEF SaysAs
  <2>6. /\ \A p \in Part \ {"why"} : AsItStands(w)[p].said # <<>>
        /\ Grounded(AsItStands(w), repo).files \in 1..ReachesAtMost
        /\ Grounded(AsItStands(w), repo).ran = "failed"
    BY <1>2, <1>5, NothingLeftAgain
  <2> HIDE DEF w, sp, u
  <2>7. AddingTypeOK'
    BY <2>2, <2>3 DEF AddingInductive, AddingTypeOK
  <2>8. RegisteredAsSeen'
    BY <2>2, <2>5 DEF RegisteredAsSeen, SaysAs, Bared, Original
  <2>9. RegisteredLeavesNothing'
    BY <2>2, <2>6 DEF RegisteredLeavesNothing
  <2>10. SentAsSeen' /\ LeftIsLeft' /\ SettledSoFar' /\ SentLeavesNothing' /\ AskedOnce'
    BY <2>2 DEF SentAsSeen, LeftIsLeft, SettledSoFar, SentLeavesNothing, AskedOnce
  <2> QED
    BY <2>7, <2>8, <2>9, <2>10 DEF AddingInductive
<1> QED
  BY <1>4, <1>5

LEMMA TakeAsWrittenKeeps ==
    ASSUME AddingInductive, TakeAsWritten
    PROVE  AddingInductive'
<1>1. /\ doing' = "added" /\ registered' = sent /\ force
      /\ UNCHANGED <<typed, force, sent, asks, spec, left, parts, next, repo, careful>>
  BY DEF TakeAsWritten, Register, AsGiven
<1>2. AddingTypeOK'
  BY <1>1 DEF AddingInductive, AddingTypeOK
<1>3. SentAsSeen' /\ RegisteredAsSeen' /\ RegisteredLeavesNothing'
  BY <1>1 DEF SentAsSeen, RegisteredAsSeen, RegisteredLeavesNothing, Unforced
<1>4. LeftIsLeft' /\ SettledSoFar' /\ SentLeavesNothing' /\ AskedOnce'
  BY <1>1 DEF LeftIsLeft, SettledSoFar, SentLeavesNothing, AskedOnce
<1> QED
  BY <1>2, <1>3, <1>4 DEF AddingInductive

LEMMA DraftKeeps ==
    ASSUME AddingInductive, Draft
    PROVE  AddingInductive'
<1>1. doing = "sent" /\ ~NamesOne(sent)
  BY DEF Draft
<1>2. PICK cheaper \in Drafts, stronger \in Drafts :
        LET drafted == FirstOf(cheaper, stronger)
            worked_out == SpecFrom(drafted)
            counted == Counted(worked_out, sent, repo)
        IN  IF Amiss(counted) = {} THEN Confirm(worked_out, counted)
            ELSE /\ doing' = "amiss"
                 /\ spec' = worked_out
                 /\ left' = counted
                 /\ UNCHANGED <<sent, asks, parts, next, repo, moves, careful>> /\ AsGiven
                 /\ NothingWritten
  BY DEF Draft
<1> DEFINE sp == SpecFrom(FirstOf(cheaper, stronger))
           u == Counted(sp, sent, repo)
<1>3. sp \in [Part -> PartType]
  <2>1. cheaper \in Seq(Line) /\ stronger \in Seq(Line)
    BY AddingAssumption DEF AddingAssumption
  <2>2. FirstOf(cheaper, stronger) = Drafted(cheaper) \/ FirstOf(cheaper, stronger) = Drafted(stronger)
    BY DEF FirstOf
  <2> QED
    BY <2>1, <2>2, DraftIsSpec
<1>4. u \in Seq(LeftOne)
  BY LeftIs DEF Counted
<1>5. /\ doing' \in {"answered", "amiss"} /\ spec' = sp /\ left' = u
      /\ UNCHANGED <<typed, force, sent, asks, parts, next, repo, careful, registered>>
  BY <1>2 DEF Confirm, AsGiven, NothingWritten
<1>6. ~ (careful /\ asks > 1 /\ ReadsBack(sent))
  BY <1>1 DEF AddingInductive, SentLeavesNothing
<1>7. careful => u = Counted(sp, sent, repo)
  OBVIOUS
<1> HIDE DEF sp, u
<1> QED
  BY <1>3, <1>4, <1>5, <1>6, <1>7, AnswerKeeps

LEMMA DraftAgainKeeps ==
    ASSUME AddingInductive, DraftAgain
    PROVE  AddingInductive'
<1>1. doing = "amiss"
  BY DEF DraftAgain
<1>2. ~ (careful /\ asks > 1 /\ ReadsBack(sent)) /\ (careful => left = Counted(spec, sent, repo))
      /\ spec \in [Part -> PartType] /\ left \in Seq(LeftOne)
  BY <1>1 DEF AddingInductive, AskedOnce, LeftIsLeft, AddingTypeOK, LeftOne
<1>3. PICK again \in Drafts :
        LET mended == Mended(spec, SpecFrom(Drafted(again)), Amiss(left))
            counted == Counted(mended, sent, repo)
        IN  IF Drafted(again) # NoDraft /\ Len(counted) <= Len(left)
            THEN Confirm(mended, counted) ELSE Confirm(spec, left)
  BY DEF DraftAgain
<1> DEFINE sp == Mended(spec, SpecFrom(Drafted(again)), Amiss(left))
           u == Counted(sp, sent, repo)
<1>4. sp \in [Part -> PartType]
  <2>1. again \in Seq(Line)
    BY AddingAssumption DEF AddingAssumption
  <2> QED
    BY <1>2, <2>1, DraftIsSpec, MendedIsSpec
<1>5. u \in Seq(LeftOne)
  BY LeftIs DEF Counted
<1>6. Confirm(sp, u) \/ Confirm(spec, left)
  BY <1>3
<1>7. ASSUME NEW s \in [Part -> PartType], NEW l \in Seq(LeftOne),
             careful => l = Counted(s, sent, repo), Confirm(s, l)
      PROVE  AddingInductive'
  <2>1. /\ doing' \in {"answered", "amiss"} /\ spec' = s /\ left' = l
        /\ UNCHANGED <<typed, force, sent, asks, parts, next, repo, careful, registered>>
    BY <1>7 DEF Confirm, AsGiven, NothingWritten
  <2> QED
    BY <1>2, <1>7, <2>1, AnswerKeeps
<1>8. careful => u = Counted(sp, sent, repo)
  OBVIOUS
<1> HIDE DEF sp, u
<1>9. CASE Confirm(sp, u)
  BY <1>4, <1>5, <1>7, <1>8, <1>9
<1>10. CASE Confirm(spec, left)
  BY <1>2, <1>7, <1>10
<1> QED
  BY <1>6, <1>9, <1>10

LEMMA RepositoryMovesKeeps ==
    ASSUME AddingInductive, RepositoryMoves
    PROVE  AddingInductive'
<1>1. /\ doing # "added" /\ repo' \in Repositories /\ careful' = FALSE
      /\ UNCHANGED <<doing, typed, force, sent, asks, spec, left, parts, next, registered>>
  BY DEF RepositoryMoves, AsGiven, NothingWritten
<1>2. AddingTypeOK'
  BY <1>1 DEF AddingInductive, AddingTypeOK
<1>3. SentAsSeen' /\ RegisteredAsSeen' /\ RegisteredLeavesNothing'
  BY <1>1 DEF AddingInductive, SentAsSeen, RegisteredAsSeen, RegisteredLeavesNothing, Unforced
<1>4. LeftIsLeft' /\ SettledSoFar' /\ SentLeavesNothing' /\ AskedOnce'
  BY <1>1 DEF LeftIsLeft, SettledSoFar, SentLeavesNothing, AskedOnce
<1> QED
  BY <1>2, <1>3, <1>4 DEF AddingInductive

LEMMA PutUpKeeps ==
    ASSUME AddingInductive, PutUp
    PROVE  AddingInductive'
<1>1. /\ doing = "answered" /\ doing' \in {"settling", "over"} /\ parts' = spec /\ next' = 1
      /\ UNCHANGED <<typed, force, sent, asks, spec, left, repo, careful, registered>>
  BY DEF PutUp, AsGiven, NothingWritten
<1>2. AddingTypeOK'
  BY <1>1 DEF AddingInductive, AddingTypeOK
<1>3. SentAsSeen' /\ RegisteredAsSeen' /\ RegisteredLeavesNothing'
  BY <1>1 DEF SentAsSeen, RegisteredAsSeen, RegisteredLeavesNothing, Unforced
<1>4. LeftIsLeft' /\ SentLeavesNothing' /\ AskedOnce'
  BY <1>1 DEF AddingInductive, LeftIsLeft, SentLeavesNothing, AskedOnce
<1>5. SettledSoFar'
  <2>1. \A p : ~ WasAsked(p)'
    <3>1. DOMAIN left = 1..Len(left) /\ Len(left) \in Nat
      BY DEF AddingInductive, AddingTypeOK
    <3>2. \A i \in DOMAIN left : ~ (i < 1)
      BY <3>1
    <3> QED
      BY <1>1, <3>2 DEF WasAsked
  <2> QED
    BY <1>1, <2>1 DEF SettledSoFar
<1> QED
  BY <1>2, <1>3, <1>4, <1>5 DEF AddingInductive

LEMMA SettleNextKeeps ==
    ASSUME AddingInductive, SettleNext
    PROVE  AddingInductive'
<1> DEFINE p == left[next].part
<1>1. /\ doing = "settling" /\ next <= Len(left) /\ next' = next + 1
      /\ UNCHANGED <<doing, typed, force, sent, asks, spec, left, repo, registered>>
  BY DEF SettleNext, AsGiven, NothingWritten
<1>2. PICK said \in Answerable(p) : /\ parts' = Settle(p, said)
                                    /\ careful' = (careful /\ Holds(p, said))
  BY DEF SettleNext
<1>3. /\ parts \in [Part -> PartType] /\ spec \in [Part -> PartType] /\ left \in Seq(LeftOne)
      /\ next \in Nat
  BY DEF AddingInductive, AddingTypeOK, LeftOne
<1>4. next \in DOMAIN left /\ p \in Part
  <2>1. next # 0
    BY <1>1 DEF AddingInductive, AddingTypeOK
  <2>2. next \in DOMAIN left
    BY <1>1, <1>3, <2>1
  <2>3. left[next] \in LeftOne
    BY <1>3, <2>2
  <2> QED
    BY <2>2, <2>3 DEF LeftOne
<1>5. PICK x \in LineType : said = <<x>>
  <2> HIDE DEF p
  <2> QED
    BY <1>2, <1>3, <1>4, AnswersAreLines
<1>6. /\ parts' \in [Part -> PartType]
      /\ parts'[p].said = said /\ parts'[p].settled = "given"
      /\ \A q \in Part \ {p} : parts'[q] = parts[q]
  <2> HIDE DEF p
  <2> QED
    BY <1>2, <1>3, <1>4, <1>5, SettleIs
<1>7. ASSUME NEW q PROVE WasAsked(q)' <=> WasAsked(q) \/ q = p
  <2>1. \A i \in DOMAIN left : i \in Nat
    BY <1>3
  <2>2. \A i \in DOMAIN left : i < next + 1 <=> i < next \/ i = next
    BY <1>3, <2>1
  <2>3. next < next + 1
    BY <1>3
  <2>4. (\E i \in DOMAIN left : i < next + 1 /\ left[i].part = q)
          <=> (\E i \in DOMAIN left : i < next /\ left[i].part = q) \/ q = p
    BY <1>4, <2>2, <2>3
  <2> QED
    BY <1>1, <2>4 DEF WasAsked
<1> HIDE DEF p
<1>8. ASSUME NEW q, NEW s PROVE Holds(q, s)' <=> Holds(q, s)
  BY <1>1 DEF Holds
<1>9. AddingTypeOK'
  <2>1. next' \in Nat /\ next' # 0
    BY <1>1, <1>3
  <2>2. careful' \in BOOLEAN
    BY <1>2
  <2> QED
    BY <1>1, <1>6, <2>1, <2>2 DEF AddingInductive, AddingTypeOK
<1>10. SentAsSeen' /\ RegisteredAsSeen' /\ RegisteredLeavesNothing'
  BY <1>1 DEF SentAsSeen, RegisteredAsSeen, RegisteredLeavesNothing, Unforced
<1>11. careful' => careful /\ Holds(p, said)
  BY <1>2, Zenon
<1>12. LeftIsLeft' /\ SentLeavesNothing' /\ AskedOnce'
  BY <1>1, <1>11 DEF AddingInductive, LeftIsLeft, SentLeavesNothing, AskedOnce
<1>13. SettledSoFar'
  <2> SUFFICES ASSUME careful', NEW q \in Part
               PROVE  IF WasAsked(q)' THEN WellAnswered(q)' ELSE parts'[q] = spec'[q]
    BY DEF SettledSoFar
  <2>1. IF WasAsked(q) THEN WellAnswered(q) ELSE parts[q] = spec[q]
    BY <1>1, <1>11 DEF AddingInductive, SettledSoFar
  <2>2. CASE q = p
    <3>1. WasAsked(q)'
      BY <1>7, <2>2
    <3>2. Len(said) = 1
      BY <1>5
    <3>3. WellAnswered(q)'
      BY <1>6, <1>8, <1>11, <2>2, <3>2 DEF WellAnswered
    <3> QED
      BY <3>1, <3>3
  <2>3. CASE q # p
    <3>1. parts'[q] = parts[q] /\ spec'[q] = spec[q]
      BY <1>1, <1>6, <2>3
    <3>2. WasAsked(q)' <=> WasAsked(q)
      BY <1>7, <2>3
    <3>3. WellAnswered(q) => WellAnswered(q)'
      BY <1>8, <3>1 DEF WellAnswered
    <3> QED
      BY <2>1, <3>1, <3>2, <3>3
  <2> QED
    BY <2>2, <2>3
<1> QED
  BY <1>9, <1>10, <1>12, <1>13 DEF AddingInductive

LEMMA ChangeLineKeeps ==
    ASSUME AddingInductive, ChangeLine
    PROVE  AddingInductive'
<1>1. /\ doing = "settling" /\ careful' = FALSE
      /\ UNCHANGED <<doing, typed, force, sent, asks, spec, left, next, repo, registered>>
  BY DEF ChangeLine, AsGiven, NothingWritten
<1>2. PICK p \in Part : \E x \in Typable[p] : parts' = Settle(p, <<x>>)
  BY DEF ChangeLine
<1>3. PICK x \in Typable[p] : parts' = Settle(p, <<x>>)
  BY <1>2
<1>4. parts' \in [Part -> PartType]
  <2>1. x \in LineType /\ parts \in [Part -> PartType]
    BY AddingAssumption DEF AddingAssumption, AddingInductive, AddingTypeOK
  <2> QED
    BY <1>3, <2>1, SettleIs
<1>5. AddingTypeOK'
  BY <1>1, <1>4 DEF AddingInductive, AddingTypeOK
<1>6. SentAsSeen' /\ RegisteredAsSeen' /\ RegisteredLeavesNothing'
  BY <1>1 DEF SentAsSeen, RegisteredAsSeen, RegisteredLeavesNothing, Unforced
<1>7. LeftIsLeft' /\ SettledSoFar' /\ SentLeavesNothing' /\ AskedOnce'
  BY <1>1 DEF LeftIsLeft, SettledSoFar, SentLeavesNothing, AskedOnce
<1> QED
  BY <1>5, <1>6, <1>7 DEF AddingInductive

\* Who answered every question with something the repository holds leaves
\* nothing.
LEMMA AnsweredLeavesNothing ==
    ASSUME AddingInductive, careful, doing = "settling", next > Len(left), NEW wrote,
           ReadsBack(Written(parts))
    PROVE  NamesOne(Written(parts)) /\ Counted(Read(Written(parts)), wrote, repo) = <<>>
<1>1. /\ parts \in [Part -> PartType] /\ spec \in [Part -> PartType] /\ left \in Seq(LeftOne)
      /\ next \in Nat /\ repo \in DOMAIN Tracked
  BY RepositoryIs DEF AddingInductive, AddingTypeOK, LeftOne
<1>2. left = Counted(spec, sent, repo)
  BY DEF AddingInductive, LeftIsLeft
<1>3. ASSUME NEW p PROVE WasAsked(p) <=> p \in PartsOf(left)
  <2>1. \A i \in DOMAIN left : i < next
    BY <1>1
  <2> QED
    BY <2>1 DEF WasAsked, PartsOf
<1>4. \A p \in Part : IF p \in PartsOf(left) THEN WellAnswered(p) ELSE parts[p] = spec[p]
  BY <1>3 DEF AddingInductive, SettledSoFar
<1> DEFINE g == Grounded(spec, repo)
<1>5. \A p \in Part \ PartsOf(left) : /\ LeftOf(p, spec, sent) = <<>>
                                      /\ p = "place" => PlaceLeft(spec, g) = <<>>
                                      /\ p = "doneWhen" => DoneLeft(spec, g) = <<>>
  <2> HIDE DEF g
  <2>1. left = LeftToDecide(spec, sent, g)
    BY <1>2 DEF Counted, g
  <2> QED
    BY <2>1, LeftIs
<1>6. ASSUME NEW p \in Part \ {"why"}, p \notin PartsOf(left) PROVE ~IsOpen(spec[p])
  <2>1. <<One("unsettled", p)>> # <<>>
    OBVIOUS
  <2>2. p \notin Undecided(spec)
    BY <1>5, <1>6, <2>1 DEF LeftOf
  <2> QED
    BY <2>2 DEF Undecided
<1>7. ASSUME NEW p \in Part \ {"why"} PROVE parts[p].said # <<>>
  <2>1. CASE p \in PartsOf(left)
    <3> DEFINE said == parts[p].said
    <3>1. Len(said) = 1
      BY <1>4, <2>1 DEF WellAnswered
    <3> HIDE DEF said
    <3>2. said # <<>>
      BY <3>1
    <3> QED
      BY <3>2 DEF said
  <2>2. CASE p \notin PartsOf(left)
    BY <1>4, <1>6, <2>2 DEF IsOpen
  <2> QED
    BY <2>1, <2>2
<1>8. \A p \in Part : parts[p].said \in Seq(LineType) /\ spec[p].said \in Seq(LineType)
  BY <1>1 DEF PartType
<1>9. "place" \in Part \ {"why"} /\ "doneWhen" \in Part \ {"why"}
  BY DEF Part
<1>10. ASSUME NEW p \in Part, NEW said
       PROVE  [OpenSpec EXCEPT ![p] = Given(said)][p].said = said
  BY DEF OpenSpec, Given
<1>11. FilesOf(parts["place"].said, repo) \in 1..ReachesAtMost
  <2>1. CASE "place" \in PartsOf(left)
    <3> DEFINE row == parts["place"].said
               alone == [OpenSpec EXCEPT !["place"] = Given(row)]
    <3>1. Holds("place", parts["place"].said)
      BY <1>4, <1>9, <2>1 DEF WellAnswered
    <3>2. Grounded(alone, repo).files \in 1..ReachesAtMost
      BY <3>1 DEF Holds
    <3>3. alone["place"].said = row
      BY <1>9, <1>10
    <3> HIDE DEF row, alone
    <3> QED
      BY <3>2, <3>3, GroundedIs DEF row
  <2>2. CASE "place" \notin PartsOf(left)
    <3>1. parts["place"] = spec["place"] /\ PlaceLeft(spec, g) = <<>> /\ ~IsOpen(spec["place"])
      BY <1>4, <1>5, <1>6, <1>9, <2>2
    <3>2. FilesOf(spec["place"].said, repo) \in 1..ReachesAtMost
      BY <1>1, <3>1, PlaceAndDone
    <3> QED
      BY <3>1, <3>2
  <2> QED
    BY <2>1, <2>2
<1>12. RanOf(parts["doneWhen"].said, repo) = "failed"
  <2>1. CASE "doneWhen" \in PartsOf(left)
    <3> DEFINE row == parts["doneWhen"].said
               alone == [OpenSpec EXCEPT !["doneWhen"] = Given(row)]
    <3>1. Holds("doneWhen", parts["doneWhen"].said)
      BY <1>4, <1>9, <2>1 DEF WellAnswered
    <3>2. Grounded(alone, repo).ran = "failed"
      BY <3>1 DEF Holds
    <3>3. alone["doneWhen"].said = row
      BY <1>9, <1>10
    <3> HIDE DEF row, alone
    <3> QED
      BY <3>2, <3>3, GroundedIs DEF row
  <2>2. CASE "doneWhen" \notin PartsOf(left)
    <3>1. parts["doneWhen"] = spec["doneWhen"] /\ DoneLeft(spec, g) = <<>>
          /\ ~IsOpen(spec["doneWhen"])
      BY <1>4, <1>5, <1>6, <1>9, <2>2
    <3>2. RanOf(spec["doneWhen"].said, repo) = "failed"
      BY <1>1, <3>1, PlaceAndDone
    <3> QED
      BY <3>1, <3>2
  <2> QED
    BY <2>1, <2>2
<1> QED
  BY <1>1, <1>7, <1>11, <1>12, SettledLeavesNothing

LEMMA AcceptKeeps ==
    ASSUME AddingInductive, Accept
    PROVE  AddingInductive'
<1> DEFINE w == Written(parts)
<1>1. /\ doing = "settling" /\ next > Len(left) /\ doing' = "sent" /\ sent' = w
      /\ asks' = asks + 1
      /\ UNCHANGED <<typed, force, spec, left, parts, next, repo, careful, registered>>
  BY DEF Accept, AsGiven, NothingWritten
<1>2. parts \in [Part -> PartType] /\ asks \in Nat \ {0}
  BY DEF AddingInductive, AddingTypeOK
<1>3. w \in TextType /\ SaysAs(Read(w), parts)
  BY <1>2, WrittenIsRead, SeenAgain, TextTypeIs
<1>4. careful /\ ReadsBack(w) => NamesOne(w) /\ Counted(Read(w), w, repo) = <<>>
  BY <1>1, AnsweredLeavesNothing
<1> HIDE DEF w
<1>5. AddingTypeOK'
  <2>1. asks' \in Nat \ {0}
    BY <1>1, <1>2
  <2> QED
    BY <1>1, <1>3, <2>1 DEF AddingInductive, AddingTypeOK
<1>6. SentAsSeen'
  BY <1>1, <1>3 DEF SentAsSeen, SaysAs, Bared
<1>7. RegisteredAsSeen' /\ RegisteredLeavesNothing'
  BY <1>1 DEF RegisteredAsSeen, RegisteredLeavesNothing, Unforced
<1>8. SentLeavesNothing'
  BY <1>1, <1>4 DEF SentLeavesNothing
<1>9. LeftIsLeft' /\ SettledSoFar' /\ AskedOnce'
  BY <1>1 DEF LeftIsLeft, SettledSoFar, AskedOnce
<1> QED
  BY <1>5, <1>6, <1>7, <1>8, <1>9 DEF AddingInductive

\* The invariant that the three below rest on: what is on its way says what
\* was seen; what is put before a careful person is what is left; and what
\* they send back leaves nothing.
THEOREM AddingIsSound == AddingSpec => []AddingInductive
<1>1. AddingInit => AddingInductive
  <2> SUFFICES ASSUME AddingInit PROVE AddingInductive
    OBVIOUS
  <2>1. typed \in TextType /\ repo \in Repositories
    BY AddingAssumption DEF AddingInit, AddingAssumption
  <2>2. parts \in [Part -> PartType]
    BY <2>1, ReadReads, TextTypeIs DEF AddingInit
  <2>3. spec \in [Part -> PartType]
    BY OpenIsRead DEF AddingInit, ReadType
  <2>4. <<>> \in TextType /\ <<>> \in Seq([kind : Kinds, part : Part])
    BY TextTypeIs
  <2>5. AddingTypeOK
    BY <2>1, <2>2, <2>3, <2>4 DEF AddingInit, AddingTypeOK
  <2>6. SentAsSeen
    BY DEF AddingInit, SentAsSeen, SaysAs
  <2>7. RegisteredAsSeen /\ RegisteredLeavesNothing
    BY DEF AddingInit, RegisteredAsSeen, RegisteredLeavesNothing, Unforced
  <2>8. LeftIsLeft /\ SettledSoFar /\ SentLeavesNothing /\ AskedOnce
    BY DEF AddingInit, LeftIsLeft, SettledSoFar, SentLeavesNothing, AskedOnce
  <2> QED
    BY <2>5, <2>6, <2>7, <2>8 DEF AddingInductive
<1>2. AddingInductive /\ [AddingNext]_addingVars => AddingInductive'
  <2> SUFFICES ASSUME AddingInductive, [AddingNext]_addingVars
               PROVE  AddingInductive'
    OBVIOUS
  <2>1. CASE Refuse
    BY <2>1, OverKeeps DEF Refuse, AsGiven, NothingWritten, Still
  <2>2. CASE TakeAsWritten
    BY <2>2, TakeAsWrittenKeeps
  <2>3. CASE ReadAsSpec
    BY <2>3, ReadAsSpecKeeps
  <2>4. CASE Draft
    BY <2>4, DraftKeeps
  <2>5. CASE DraftAgain
    BY <2>5, DraftAgainKeeps
  <2>6. CASE RepositoryMoves
    BY <2>6, RepositoryMovesKeeps
  <2>7. CASE PutUp
    BY <2>7, PutUpKeeps
  <2>8. CASE SettleNext
    BY <2>8, SettleNextKeeps
  <2>9. CASE ChangeLine
    BY <2>9, ChangeLineKeeps
  <2>10. CASE Accept
    BY <2>10, AcceptKeeps
  <2>11. CASE SayNo
    BY <2>11, OverKeeps DEF SayNo, AsGiven, NothingWritten, Still
  <2>12. CASE UNCHANGED addingVars
    <3> USE <2>12 DEF addingVars, AddingInductive
    <3>1. AddingTypeOK'
      BY DEF AddingTypeOK
    <3>2. SentAsSeen' /\ RegisteredAsSeen' /\ RegisteredLeavesNothing'
      BY DEF SentAsSeen, RegisteredAsSeen, RegisteredLeavesNothing, Unforced
    <3>3. LeftIsLeft' /\ SentLeavesNothing' /\ AskedOnce'
      BY DEF LeftIsLeft, SentLeavesNothing, AskedOnce
    <3>4. SettledSoFar'
      BY DEF SettledSoFar, WasAsked, WellAnswered, Holds
    <3> QED
      BY <3>1, <3>2, <3>3, <3>4
  <2> QED
    BY <2>1, <2>2, <2>3, <2>4, <2>5, <2>6, <2>7, <2>8, <2>9, <2>10, <2>11, <2>12
    DEF AddingNext
<1> QED
  BY <1>1, <1>2, PTL DEF AddingSpec

\* `RegisteredAsSeen`: "nothing a model worked out is registered before the
\* author has seen it" (docs/cli.md).  What is registered, read again as the
\* text it is, says part for part what was before them when they accepted it,
\* whatever they and the model answered, in how many rounds.
THEOREM AddingRegisteredAsSeen == AddingSpec => []RegisteredAsSeen
<1>1. AddingInductive => RegisteredAsSeen
  BY DEF AddingInductive
<1> QED
  BY <1>1, AddingIsSound, PTL

\* `RegisteredLeavesNothing`: "Nothing is registered until every part but
\* `why` is settled" (docs/cli.md), with a place the repository reaches and a
\* command that does not pass yet.
THEOREM AddingRegisteredLeavesNothing == AddingSpec => []RegisteredLeavesNothing
<1>1. AddingInductive => RegisteredLeavesNothing
  BY DEF AddingInductive
<1> QED
  BY <1>1, AddingIsSound, PTL

\* `AskedOnce`: what a person settles with something the repository holds is
\* not asked again when the core reads it back as text, for a spec of any
\* length, unless the place or the command begins or ends in a mark, which the
\* reading takes for a document's.
THEOREM AddingAskedOnce == AddingSpec => []AskedOnce
<1>1. AddingInductive => AskedOnce
  BY DEF AddingInductive
<1> QED
  BY <1>1, AddingIsSound, PTL
============================================================================
