--------------------------- MODULE SessionsProofs ---------------------------
(***************************************************************************)
(* What is said of a session stands, however its looks and figures arrive; *)
(* and no session is said to have spent more than the limit moved, nor are *)
(* its runs charged for more, but for two windows for every look that was  *)
(* overtaken by one of a window that began after.                          *)
(*                                                                         *)
(* The sum a session carries is right because of when it was last looked   *)
(* at: what the limit moved until then is what the sum may come to.  That  *)
(* moment is nowhere in the code, so the invariant says there is one.  A   *)
(* look that was overtaken leaves the session measuring from a window that *)
(* is over; until the next look, the sum has to leave room for the window  *)
(* of that moment to be counted a second time.                             *)
(***************************************************************************)
EXTENDS Sessions, FiniteSetTheorems, TLAPS

\* The limit as it is seen at some moment, and the limit as it is now.
Sight == [used : 0..Full, window : Nat, when : Nat]
Now == [used |-> limit.used, window |-> limit.window, when |-> moved]

\* The limit moves by what is spent, and begins again at nothing.
Agree(a, b) ==
    /\ a.window = b.window => a.when + b.used = b.when + a.used
    /\ a.window < b.window => a.when + b.used <= b.when

NotAfter(a, b) == a.when <= b.when /\ a.window <= b.window

\* Nothing is asked about a session there is not, and no figure is ahead of
\* the session it was measured for.
LooksAsk == \A l \in looks : l.for # "open" => l.session \in DOMAIN sessions
FiguresFollow ==
    \A f \in figures : /\ f.session \in DOMAIN sessions
                       /\ f.consumed <= sessions[f.session].consumed

OneRuns == \A a, b \in DOMAIN sessions : IsRunning(sessions[a]) /\ IsRunning(sessions[b]) => a = b
ReasonGiven == \A s \in DOMAIN sessions : sessions[s].reason # NoReason <=> sessions[s].state = "stopped"

\* What holds in whatever order looks and figures arrive.
Sound == TypeOK /\ LooksAsk /\ FiguresFollow /\ OneRuns /\ ReasonGiven

\* What a look says is what the limit was when it was taken.
LooksTrue ==
    /\ \A l \in looks : NotAfter(l, Now) /\ Agree(l, Now)
    /\ \A l, k \in looks : Agree(l, k)

\* What the limit was at a moment, for everything that was seen of it.
Seen(a) == NotAfter(a, Now) /\ Agree(a, Now) /\ \A l \in looks : Agree(a, l)

\* What a session was charged and what it is said to have spent, with that much
\* more, come to no more than the limit had moved by then.
CoveredWith(s, a, more) ==
    /\ from[s] + sessions[s].consumed + more <= a.when + Doubled(s)
    /\ from[s] + charged[s] + more <= a.when + Doubled(s)

\* A session measures from the moment it was last looked at.  One that was never
\* measured was opened by a look that was taken before any that asks about it.
MeasuresFrom(s, a) ==
    /\ a.used = sessions[s].seen
    /\ CoveredWith(s, a, 0)
    /\ sessions[s].window <= heard[s].newest
    /\ sessions[s].window # NoWindow => a.window <= sessions[s].window
    /\ sessions[s].window = NoWindow =>
           \A l \in looks : l.for # "open" /\ l.session = s => NotAfter(a, l)

\* A session measures from a window that is over, since a look that was overtaken:
\* the window of the moment it was at is counted again by the next look.
CountsAgain(s, a) ==
    /\ a.window <= heard[s].newest
    /\ CoveredWith(s, a, a.used)

Stands(s, a) == Seen(a) /\ (MeasuresFrom(s, a) \/ CountsAgain(s, a))

EachStands == \A s \in DOMAIN sessions : \E a \in Sight : Stands(s, a)

Counted == LooksTrue /\ EachStands

----------------------------------------------------------------------------
(* What the operations make of a session. *)

LEMMA Bounds == Full \in Nat /\ LastWindow \in Nat \ {0}
    BY BoundAssumption

LEMMA LooksAreNumbers ==
    ASSUME NEW look \in Look
    PROVE  /\ look.used \in Nat /\ look.window \in Nat \ {0} /\ look.when \in Nat
           /\ look.window # NoWindow
<1>1. look.used \in 0..Full /\ look.window \in 1..LastWindow /\ look.when \in Nat
    BY DEF Look
<1> QED
    BY <1>1, Bounds DEF NoWindow

\* A look adds to what was consumed, and changes nothing else that is said.
LEMMA MeasuredAdds ==
    ASSUME NEW x \in Session, NEW used \in Nat, NEW window \in Nat
    PROVE  /\ Measured(x, used, window) \in Session
           /\ Measured(x, used, window).consumed >= x.consumed
           /\ Measured(x, used, window).state = x.state
           /\ Measured(x, used, window).reason = x.reason
           /\ Measured(x, used, window).usage = x.usage
<1>1. Since(x, used, window) \in Nat
    BY DEF Since, Session
<1>2. CASE Measured(x, used, window) = x
    BY <1>2 DEF Session
<1>3. CASE Measured(x, used, window) # x
    <2> DEFINE sum == x.consumed + Since(x, used, window)
               last == IF window # NoWindow THEN window ELSE x.window
    <2>1. Measured(x, used, window) =
              [x EXCEPT !.consumed = sum, !.seen = used, !.window = last]
        BY <1>3 DEF Measured
    <2>2. sum \in Nat /\ last \in Nat /\ sum >= x.consumed
        BY <1>1 DEF Session
    <2> HIDE DEF sum, last
    <2> QED
        BY <2>1, <2>2 DEF Session
<1> QED
    BY <1>2, <1>3

\* A figure is kept only where it is no less than the one that is there.
LEMMA RecordedAdds ==
    ASSUME NEW x \in Session, NEW figure \in Nat
    PROVE  /\ Recorded(x, figure) \in Session
           /\ Recorded(x, figure).consumed >= x.consumed
           /\ figure <= x.consumed => Recorded(x, figure) = x
           /\ Recorded(x, figure).state = x.state
           /\ Recorded(x, figure).reason = x.reason
           /\ Recorded(x, figure).seen = x.seen
           /\ Recorded(x, figure).window = x.window
<1>1. CASE IsRunning(x) /\ figure >= x.consumed
    <2>1. Recorded(x, figure) = [x EXCEPT !.consumed = figure]
        BY <1>1 DEF Recorded
    <2>2. figure <= x.consumed => x = [x EXCEPT !.consumed = figure]
        <3>1. ASSUME figure <= x.consumed PROVE figure = x.consumed
            BY <1>1, <3>1 DEF Session
        <3> QED
            BY <3>1 DEF Session
    <2> QED
        BY <1>1, <2>1, <2>2 DEF Session
<1>2. CASE ~ (IsRunning(x) /\ figure >= x.consumed)
    <2>1. Recorded(x, figure) = x
        BY <1>2 DEF Recorded
    <2> QED
        BY <2>1 DEF Session
<1> QED
    BY <1>1, <1>2

\* The first reason is kept.
LEMMA StoppedOnce ==
    ASSUME NEW x \in Session, NEW why \in Reason
    PROVE  /\ Stopped(x, why) \in Session
           /\ ~ IsRunning(Stopped(x, why))
           /\ ~ IsRunning(x) => Stopped(x, why) = x
           /\ IsRunning(x) => Stopped(x, why).reason = why
           /\ Stopped(x, why).state = "stopped"
           /\ Stopped(x, why).consumed = x.consumed
           /\ Stopped(x, why).seen = x.seen
           /\ Stopped(x, why).window = x.window
    BY DEF Stopped, Session, IsRunning

\* A window that is noted changes nothing but the window.
LEMMA WindowNoted ==
    ASSUME NEW x \in Session, NEW window \in Nat
    PROVE  /\ ResetsAt(x, window) \in Session
           /\ ResetsAt(x, window).window = window
           /\ ResetsAt(x, window).consumed = x.consumed
           /\ ResetsAt(x, window).seen = x.seen
           /\ ResetsAt(x, window).state = x.state
           /\ ResetsAt(x, window).reason = x.reason
    BY DEF ResetsAt, Session

----------------------------------------------------------------------------
(* What holds in whatever order looks and figures arrive. *)

\* What a step may never do, without the subscript.
SaidStands ==
    \A s \in DOMAIN sessions :
        /\ sessions'[s].consumed >= sessions[s].consumed
        /\ ~ IsRunning(sessions[s]) => /\ ~ IsRunning(sessions'[s])
                                       /\ sessions'[s].reason = sessions[s].reason

LEMMA InitSound == Init => Sound
<1> SUFFICES ASSUME Init PROVE Sound
    OBVIOUS
<1>1. DOMAIN sessions = {} /\ DOMAIN sessions = 1..(next_id - 1)
    BY DEF Init
<1>2. TypeOK
    BY <1>1, BoundAssumption DEF Init, TypeOK
<1> QED
    BY <1>1, <1>2 DEF Init, Sound, LooksAsk, FiguresFollow, OneRuns, ReasonGiven

\* What is done to one session of what the store holds.
LEMMA OneChanged ==
    ASSUME Sound, NEW s \in DOMAIN sessions, NEW new \in Session, Later(s, new)
    PROVE  /\ sessions' \in [DOMAIN sessions -> Session]
           /\ DOMAIN sessions' = DOMAIN sessions
           /\ sessions'[s] = new
           /\ \A r \in DOMAIN sessions : r # s => sessions'[r] = sessions[r]
    BY DEF Sound, TypeOK, Later

\* A session may spend more and may stop, and says why when it does.
LEMMA MayChange ==
    ASSUME Sound, NEW s \in DOMAIN sessions, NEW new \in Session, Later(s, new),
           new.consumed >= sessions[s].consumed,
           IsRunning(new) => IsRunning(sessions[s]),
           ~ IsRunning(sessions[s]) => new.reason = sessions[s].reason,
           new.reason # NoReason <=> new.state = "stopped",
           UNCHANGED <<next_id, limit, moved, from>>,
           charged' \in [DOMAIN sessions -> Nat],
           heard' \in [DOMAIN sessions -> Hearing],
           looks' \subseteq looks,
           figures' \subseteq figures \cup {[session |-> s, consumed |-> new.consumed]}
    PROVE  Sound' /\ SaidStands
<1>1. /\ sessions' \in [DOMAIN sessions -> Session]
      /\ DOMAIN sessions' = DOMAIN sessions
      /\ sessions'[s] = new
      /\ \A r \in DOMAIN sessions : r # s => sessions'[r] = sessions[r]
    BY OneChanged
<1>2. /\ \A r \in DOMAIN sessions : sessions[r].consumed \in Nat
      /\ new.consumed \in Nat
      /\ DOMAIN sessions \subseteq Nat
      /\ figures \subseteq Figure
    <2>1. sessions \in [DOMAIN sessions -> Session] /\ figures \subseteq Figure
        BY DEF Sound, TypeOK
    <2>2. DOMAIN sessions \subseteq Nat
        BY DEF Sound, TypeOK
    <2>3. \A x \in Session : x.consumed \in Nat
        BY DEF Session
    <2> QED
        BY <2>1, <2>2, <2>3
<1>3. \A r \in DOMAIN sessions : sessions'[r].consumed >= sessions[r].consumed
    BY <1>1, <1>2
<1>4. TypeOK'
    <2>1. [session |-> s, consumed |-> new.consumed] \in Figure
        BY <1>2 DEF Figure
    <2>2. looks' \subseteq Look /\ figures' \subseteq Figure
        BY <1>2, <2>1 DEF Sound, TypeOK
    <2> QED
        BY <1>1, <2>2 DEF Sound, TypeOK
<1>5. LooksAsk'
    BY <1>1 DEF Sound, LooksAsk
<1>6. FiguresFollow'
    <2> SUFFICES ASSUME NEW f \in figures'
                 PROVE  /\ f.session \in DOMAIN sessions'
                        /\ f.consumed <= sessions'[f.session].consumed
        BY DEF FiguresFollow
    <2>1. CASE f \in figures
        <3>1. /\ f.session \in DOMAIN sessions
              /\ f.consumed <= sessions[f.session].consumed
              /\ f.consumed \in Nat
            BY <1>2, <2>1 DEF Sound, FiguresFollow, Figure
        <3>2. sessions'[f.session].consumed \in Nat
            BY <1>1, <3>1 DEF Session
        <3> QED
            BY <1>1, <1>2, <1>3, <3>1, <3>2
    <2>2. CASE f = [session |-> s, consumed |-> new.consumed]
        BY <1>1, <1>2, <2>2
    <2> QED
        BY <2>1, <2>2
<1>7. OneRuns'
    BY <1>1 DEF Sound, OneRuns
<1>8. ReasonGiven'
    BY <1>1 DEF Sound, ReasonGiven
<1>9. SaidStands
    BY <1>1, <1>3 DEF SaidStands
<1> QED
    BY <1>4, <1>5, <1>6, <1>7, <1>8, <1>9 DEF Sound

\* A step that leaves the sessions alone.
LEMMA LeavesSessions ==
    ASSUME Sound, UNCHANGED <<sessions, next_id, from, charged, heard>>,
           limit' \in [used : 0..Full, window : 1..LastWindow],
           looks' \subseteq Look, moved' \in Nat, figures' \subseteq figures,
           \A l \in looks' \ looks : l.for # "open" => l.session \in DOMAIN sessions
    PROVE  Sound' /\ SaidStands
<1>1. TypeOK'
    BY DEF Sound, TypeOK
<1>2. LooksAsk' /\ FiguresFollow' /\ OneRuns' /\ ReasonGiven'
    BY DEF Sound, LooksAsk, FiguresFollow, OneRuns, ReasonGiven
<1>3. SaidStands
    BY DEF SaidStands, Sound, TypeOK, Session
<1> QED
    BY <1>1, <1>2, <1>3 DEF Sound

\* What a session has heard of, once a look of it has arrived.
LEMMA HearsOne ==
    ASSUME Sound, NEW look \in looks, NEW s \in DOMAIN sessions, look.session = s, Hear(look)
    PROVE  /\ heard' \in [DOMAIN sessions -> Hearing]
           /\ \A r \in DOMAIN sessions : r # s => heard'[r] = heard[r]
           /\ Overtaken(look) => /\ heard'[s].newest = heard[s].newest
                                /\ heard'[s].overtaken = heard[s].overtaken + 1
           /\ ~ Overtaken(look) => /\ heard'[s].newest = look.window
                                  /\ heard'[s].overtaken = heard[s].overtaken
<1>1. look.window \in Nat /\ heard \in [DOMAIN sessions -> Hearing]
    BY LooksAreNumbers DEF Sound, TypeOK
<1>2. heard[s] \in Hearing
    BY <1>1
<1> DEFINE new == Heard(heard[s], look)
<1>3. /\ new \in Hearing
      /\ Overtaken(look) => /\ new.newest = heard[s].newest
                           /\ new.overtaken = heard[s].overtaken + 1
      /\ ~ Overtaken(look) => /\ new.newest = look.window
                             /\ new.overtaken = heard[s].overtaken
    BY <1>1, <1>2 DEF Hearing, Heard
<1>4. heard' = [heard EXCEPT ![s] = new]
    BY DEF Hear
<1> HIDE DEF new
<1> QED
    BY <1>1, <1>3, <1>4

\* What is looked at is the limit as it is.
LEMMA LookSees ==
    ASSUME Sound, NEW s \in Nat, NEW what \in {"open", "measure", "turned away"},
           what # "open" => s \in DOMAIN sessions, LookFor(s, what)
    PROVE  Sound' /\ SaidStands
<1> DEFINE l == [session |-> s, for |-> what, used |-> limit.used,
                 window |-> limit.window, when |-> moved]
<1>1. l \in Look /\ l.for = what /\ l.session = s
    BY DEF Look, Sound, TypeOK
<1>2. /\ looks' = looks \cup {l}
      /\ UNCHANGED <<limit, figures, moved>>
      /\ UNCHANGED <<sessions, next_id, from, charged, heard>>
    BY DEF LookFor
<1> HIDE DEF l
<1>3. looks' \subseteq Look
    BY <1>1, <1>2 DEF Sound, TypeOK
<1>4. \A k \in looks' \ looks : k.for # "open" => k.session \in DOMAIN sessions
    BY <1>1, <1>2
<1>5. /\ limit' \in [used : 0..Full, window : 1..LastWindow]
      /\ moved' \in Nat
      /\ figures' \subseteq figures
    BY <1>2 DEF Sound, TypeOK
<1> QED
    BY <1>2, <1>3, <1>4, <1>5, LeavesSessions

\* A new session runs where none does, and its number is its own.
LEMMA OpenAdds ==
    ASSUME Sound, NEW usage \in Usage, NEW look \in looks, Open(usage, look)
    PROVE  Sound' /\ SaidStands
<1> DEFINE new == Opened(usage, Full, look.used)
<1>1. look \in Look /\ look.used \in Nat /\ look.when \in Nat
    BY LooksAreNumbers DEF Sound, TypeOK
<1>2. /\ new \in Session
      /\ new.reason = NoReason
      /\ new.state = "running"
    <2>1. /\ usage \in {"Share", "Tokens"}
          /\ Full \in Nat /\ NoWindow \in Nat
        BY UsageAssumption, Bounds DEF NoWindow
    <2> QED
        BY <1>1, <2>1 DEF Opened, Session
<1> HIDE DEF new
<1>3. /\ next_id \in Nat \ {0}
      /\ DOMAIN sessions = 1..(next_id - 1)
      /\ next_id' = next_id + 1
    BY DEF Open, Sound, TypeOK
<1>4. /\ DOMAIN sessions \cup {next_id} = 1..(next_id' - 1)
      /\ next_id \notin DOMAIN sessions
    BY <1>3
<1>5. /\ DOMAIN sessions' = DOMAIN sessions \cup {next_id}
      /\ sessions'[next_id] = new
      /\ \A r \in DOMAIN sessions : sessions'[r] = sessions[r]
      /\ sessions' \in [DOMAIN sessions' -> Session]
    <2>1. sessions' = [r \in DOMAIN sessions \cup {next_id} |->
                           IF r = next_id THEN new ELSE sessions[r]]
        BY DEF Open, new
    <2> QED
        BY <1>2, <1>4, <2>1 DEF Sound, TypeOK
<1>6. /\ looks' \subseteq looks
      /\ UNCHANGED <<limit, figures, moved>>
      /\ Running(sessions) = {}
    BY DEF Open
<1>7. /\ from' \in [DOMAIN sessions' -> Nat] /\ charged' \in [DOMAIN sessions' -> Nat]
      /\ heard' \in [DOMAIN sessions' -> Hearing]
    <2>1. /\ DOMAIN from = DOMAIN sessions /\ DOMAIN charged = DOMAIN sessions
          /\ DOMAIN heard = DOMAIN sessions
        BY DEF Sound, TypeOK
    <2>2. from' = [r \in DOMAIN from \cup {next_id} |->
                       IF r = next_id THEN look.when ELSE from[r]]
        BY DEF Open
    <2>3. charged' = [r \in DOMAIN charged \cup {next_id} |->
                       IF r = next_id THEN 0 ELSE charged[r]]
        BY DEF Open
    <2>4. heard' = [r \in DOMAIN heard \cup {next_id} |->
                       IF r = next_id THEN [newest |-> NoWindow, overtaken |-> 0] ELSE heard[r]]
        BY DEF Open
    <2>5. [newest |-> NoWindow, overtaken |-> 0] \in Hearing
        BY DEF Hearing, NoWindow
    <2>6. from' \in [DOMAIN sessions' -> Nat] /\ charged' \in [DOMAIN sessions' -> Nat]
        BY <1>1, <1>5, <2>1, <2>2, <2>3 DEF Sound, TypeOK
    <2>7. heard' \in [DOMAIN sessions' -> Hearing]
        BY <1>5, <2>1, <2>4, <2>5 DEF Sound, TypeOK
    <2> QED
        BY <2>6, <2>7
<1>8. TypeOK'
    <2>1. DOMAIN sessions' = 1..(next_id' - 1) /\ next_id' \in Nat \ {0}
        BY <1>3, <1>4, <1>5
    <2>2. looks' \subseteq Look /\ figures' \subseteq Figure /\ moved' \in Nat
        BY <1>6 DEF Sound, TypeOK
    <2>3. limit' \in [used : 0..Full, window : 1..LastWindow]
        BY <1>6 DEF Sound, TypeOK
    <2> QED
        BY <1>5, <1>7, <2>1, <2>2, <2>3 DEF TypeOK
<1>9. LooksAsk'
    BY <1>5, <1>6 DEF Sound, LooksAsk
<1>10. FiguresFollow'
    BY <1>5, <1>6 DEF Sound, FiguresFollow
<1>11. \A r \in DOMAIN sessions : ~ IsRunning(sessions[r])
    BY <1>6 DEF Running
<1>12. OneRuns'
    BY <1>5, <1>11 DEF OneRuns
<1>13. ReasonGiven'
    BY <1>2, <1>5 DEF Sound, ReasonGiven
<1>14. SaidStands
    <2>1. \A r \in DOMAIN sessions : sessions[r].consumed \in Nat
        BY DEF Sound, TypeOK, Session
    <2> QED
        BY <1>5, <2>1 DEF SaidStands
<1> QED
    BY <1>8, <1>9, <1>10, <1>12, <1>13, <1>14 DEF Sound

\* Where a look goes that asks about a session.
LEMMA MeasureAdds ==
    ASSUME Sound, NEW look \in looks, look.for # "open",
           Measure(look) \/ NoteWindow(look)
    PROVE  Sound' /\ SaidStands
<1> DEFINE s == look.session
<1>1. /\ s \in DOMAIN sessions
      /\ look.used \in Nat /\ look.window \in Nat
    BY LooksAreNumbers DEF Sound, TypeOK, LooksAsk
<1>2. sessions[s] \in Session /\ (sessions[s].reason # NoReason <=> sessions[s].state = "stopped")
    BY <1>1 DEF Sound, TypeOK, ReasonGiven
<1>3. sessions[s].consumed \in Nat /\ sessions[s].consumed >= sessions[s].consumed
    BY <1>2 DEF Session
<1>4. CASE Measure(look)
    <2> DEFINE new == Measured(sessions[s], look.used, look.window)
               over == Charge(sessions[s], look.used, look.window)
               more == IF over[2] > over[1] THEN over[2] - over[1] ELSE 0
    <2>1. /\ new \in Session
          /\ new.consumed >= sessions[s].consumed
          /\ new.state = sessions[s].state
          /\ new.reason = sessions[s].reason
        BY <1>1, <1>2, MeasuredAdds
    <2>2. more \in Nat
        <3>1. sessions[s].seen \in Nat
            BY <1>2 DEF Session
        <3> QED
            BY <1>1, <3>1 DEF Charge
    <2>3. /\ Later(s, new)
          /\ figures' = figures \cup {[session |-> s, consumed |-> new.consumed]}
          /\ charged' = [charged EXCEPT ![s] = @ + more]
          /\ looks' = looks \ {look}
          /\ UNCHANGED <<next_id, limit, moved, from>>
        BY <1>4 DEF Measure
    <2> HIDE DEF new, over, more
    <2>4. charged' \in [DOMAIN sessions -> Nat]
        <3>1. charged \in [DOMAIN sessions -> Nat]
            BY DEF Sound, TypeOK
        <3> HIDE DEF s
        <3> QED
            BY <1>1, <2>2, <2>3, <3>1
    <2>5. looks' \subseteq looks /\ heard' \in [DOMAIN sessions -> Hearing]
        BY <1>1, <1>4, <2>3, HearsOne DEF Measure
    <2>6. /\ IsRunning(new) => IsRunning(sessions[s])
          /\ new.reason # NoReason <=> new.state = "stopped"
        BY <1>2, <2>1 DEF IsRunning
    <2> HIDE DEF s
    <2> QED
        BY <1>1, <2>1, <2>3, <2>4, <2>5, <2>6, MayChange
<1>5. CASE NoteWindow(look)
    <2> DEFINE new == ResetsAt(sessions[s], look.window)
    <2>1. /\ new \in Session
          /\ new.consumed = sessions[s].consumed
          /\ new.state = sessions[s].state
          /\ new.reason = sessions[s].reason
        BY <1>1, <1>2, WindowNoted
    <2>2. /\ Later(s, new)
          /\ looks' = looks \ {look}
          /\ UNCHANGED <<next_id, limit, moved, from>>
          /\ UNCHANGED <<charged, figures>>
        BY <1>5 DEF NoteWindow
    <2> HIDE DEF new
    <2>3. /\ charged' \in [DOMAIN sessions -> Nat]
          /\ looks' \subseteq looks
          /\ figures' \subseteq figures \cup {[session |-> s, consumed |-> new.consumed]}
        BY <2>2 DEF Sound, TypeOK
    <2>5. heard' \in [DOMAIN sessions -> Hearing]
        BY <1>1, <1>5, HearsOne DEF NoteWindow
    <2>4. /\ IsRunning(new) => IsRunning(sessions[s])
          /\ new.reason # NoReason <=> new.state = "stopped"
          /\ new.consumed >= sessions[s].consumed
        BY <1>2, <1>3, <2>1 DEF IsRunning
    <2> HIDE DEF s
    <2> QED
        BY <1>1, <2>1, <2>2, <2>3, <2>4, <2>5, MayChange
<1> QED
    BY <1>4, <1>5

LEMMA RecordAdds ==
    ASSUME Sound, NEW f \in figures, Record(f)
    PROVE  Sound' /\ SaidStands
<1> DEFINE s == f.session
           new == Recorded(sessions[s], f.consumed)
<1>1. s \in DOMAIN sessions /\ f.consumed \in Nat
    BY DEF Sound, TypeOK, FiguresFollow, Figure
<1>2. sessions[s] \in Session /\ (sessions[s].reason # NoReason <=> sessions[s].state = "stopped")
    BY <1>1 DEF Sound, TypeOK, ReasonGiven
<1>3. /\ new \in Session
      /\ new.consumed >= sessions[s].consumed
      /\ new.state = sessions[s].state
      /\ new.reason = sessions[s].reason
    BY <1>1, <1>2, RecordedAdds
<1>4. /\ Later(s, new)
      /\ figures' = figures \ {f}
      /\ UNCHANGED <<next_id, limit, moved, from>>
      /\ UNCHANGED <<looks, charged, heard>>
    BY DEF Record
<1> HIDE DEF new
<1>5. /\ charged' \in [DOMAIN sessions -> Nat] /\ heard' \in [DOMAIN sessions -> Hearing]
      /\ looks' \subseteq looks
      /\ figures' \subseteq figures \cup {[session |-> s, consumed |-> new.consumed]}
    BY <1>4 DEF Sound, TypeOK
<1>6. /\ IsRunning(new) => IsRunning(sessions[s])
      /\ new.reason # NoReason <=> new.state = "stopped"
    BY <1>2, <1>3 DEF IsRunning
<1> HIDE DEF s
<1> QED
    BY <1>1, <1>3, <1>4, <1>5, <1>6, MayChange

LEMMA StopEnds ==
    ASSUME Sound, NEW s \in DOMAIN sessions, NEW why \in Why, Stop(s, why)
    PROVE  Sound' /\ SaidStands
<1> DEFINE new == Stopped(sessions[s], why)
<1>1. sessions[s] \in Session /\ (sessions[s].reason # NoReason <=> sessions[s].state = "stopped")
    BY DEF Sound, TypeOK, ReasonGiven
<1>2. why \in Reason /\ why # NoReason
    BY UsageAssumption DEF Reason, NoReason
<1>3. /\ new \in Session
      /\ ~ IsRunning(new)
      /\ ~ IsRunning(sessions[s]) => new = sessions[s]
      /\ IsRunning(sessions[s]) => new.reason = why
      /\ new.state = "stopped"
      /\ new.consumed = sessions[s].consumed
    BY <1>1, <1>2, StoppedOnce
<1>4. /\ Later(s, new)
      /\ UNCHANGED <<next_id, limit, moved, from>>
      /\ UNCHANGED <<looks, figures, charged, heard>>
    BY DEF Stop
<1> HIDE DEF new
<1>5. /\ charged' \in [DOMAIN sessions -> Nat] /\ heard' \in [DOMAIN sessions -> Hearing]
      /\ looks' \subseteq looks
      /\ figures' \subseteq figures \cup {[session |-> s, consumed |-> new.consumed]}
    BY <1>4 DEF Sound, TypeOK
<1>6. new.consumed >= sessions[s].consumed
    BY <1>1, <1>3 DEF Session
<1>7. /\ new.reason # NoReason <=> new.state = "stopped"
      /\ ~ IsRunning(sessions[s]) => new.reason = sessions[s].reason
    BY <1>1, <1>2, <1>3
<1> QED
    BY <1>3, <1>4, <1>5, <1>6, <1>7, MayChange

\* Every step keeps it, whatever is in flight.
LEMMA StepSound == Sound /\ Next => Sound' /\ SaidStands
<1> SUFFICES ASSUME Sound, Next PROVE Sound' /\ SaidStands
    OBVIOUS
<1>1. CASE Spend \/ BeginAgain
    <2>1. /\ UNCHANGED <<sessions, next_id, from, charged, heard>>
          /\ UNCHANGED <<looks, figures>>
        BY <1>1 DEF Spend, BeginAgain
    <2>2. limit' \in [used : 0..Full, window : 1..LastWindow] /\ moved' \in Nat
        <3>1. /\ limit \in [used : 0..Full, window : 1..LastWindow] /\ moved \in Nat
              /\ limit.used \in 0..Full /\ limit.window \in 1..LastWindow
            BY DEF Sound, TypeOK
        <3>2. CASE Spend
            <4>1. limit.used + 1 \in 0..Full
                BY <3>1, <3>2, Bounds DEF Spend
            <4> QED
                BY <3>1, <3>2, <4>1 DEF Spend
        <3>3. CASE BeginAgain
            <4>1. limit.window + 1 \in 1..LastWindow /\ 0 \in 0..Full
                BY <3>1, <3>3, Bounds DEF BeginAgain
            <4> QED
                BY <3>1, <3>3, <4>1 DEF BeginAgain
        <3> QED
            BY <1>1, <3>2, <3>3
    <2>3. looks' \subseteq Look /\ figures' \subseteq figures /\ looks' \ looks = {}
        BY <2>1 DEF Sound, TypeOK
    <2> QED
        BY <2>1, <2>2, <2>3, LeavesSessions
<1>2. CASE LookToOpen
    <2>1. LookFor(NoWindow, "open") /\ NoWindow \in Nat
        BY <1>2 DEF LookToOpen, NoWindow
    <2> QED
        BY <2>1, LookSees
<1>3. ASSUME NEW s \in DOMAIN sessions, LookToMeasure(s) \/ LookWhenTurnedAway(s)
      PROVE  Sound' /\ SaidStands
    <2>1. s \in Nat
        BY DEF Sound, TypeOK
    <2>2. LookFor(s, "measure") \/ LookFor(s, "turned away")
        BY <1>3 DEF LookToMeasure, LookWhenTurnedAway
    <2> QED
        BY <2>1, <2>2, LookSees
<1>4. ASSUME NEW s \in DOMAIN sessions, NEW why \in Why, Stop(s, why)
      PROVE  Sound' /\ SaidStands
    BY <1>4, StopEnds
<1>5. ASSUME NEW look \in looks, Arrive(look)
      PROVE  Sound' /\ SaidStands
    <2>1. CASE look.for = "open" /\ \E usage \in Usage : Open(usage, look)
        BY <2>1, OpenAdds
    <2>2. CASE look.for = "open" /\ OpenRefused(look)
        <3>1. /\ UNCHANGED <<sessions, next_id, from, charged, heard>>
              /\ UNCHANGED <<limit, moved, figures>>
              /\ looks' \subseteq looks
            BY <2>2 DEF OpenRefused
        <3>2. /\ limit' \in [used : 0..Full, window : 1..LastWindow] /\ moved' \in Nat
              /\ looks' \subseteq Look /\ figures' \subseteq figures /\ looks' \ looks = {}
            BY <3>1 DEF Sound, TypeOK
        <3> QED
            BY <3>1, <3>2, LeavesSessions
    <2>3. CASE look.for # "open" /\ (Measure(look) \/ NoteWindow(look))
        BY <2>3, MeasureAdds
    <2> QED
        BY <1>5, <2>1, <2>2, <2>3 DEF Arrive
<1>6. ASSUME NEW f \in figures, Record(f)
      PROVE  Sound' /\ SaidStands
    BY <1>6, RecordAdds
<1> QED
    BY <1>1, <1>2, <1>3, <1>4, <1>5, <1>6 DEF Next

LEMMA StutterSound == Sound /\ UNCHANGED vars => Sound' /\ SaidStands
<1> SUFFICES ASSUME Sound, UNCHANGED vars PROVE Sound' /\ SaidStands
    OBVIOUS
<1>1. /\ UNCHANGED <<sessions, next_id, from, charged, heard>>
      /\ UNCHANGED <<limit, looks, figures, moved>>
    BY DEF vars
<1>2. /\ limit' \in [used : 0..Full, window : 1..LastWindow] /\ moved' \in Nat
      /\ looks' \subseteq Look /\ figures' \subseteq figures /\ looks' \ looks = {}
    BY <1>1 DEF Sound, TypeOK
<1> QED
    BY <1>1, <1>2, LeavesSessions

\* Whatever arrives in whatever order, what the store holds is of its type and
\* no figure in flight is ahead of the session it was measured for.
THEOREM AlwaysSound == Spec => []Sound
<1>1. Sound /\ [Next]_vars => Sound'
    BY StepSound, StutterSound
<1> QED
    BY <1>1, InitSound, PTL DEF Spec

\* The store never holds what `restore` would not take back.
THEOREM AlwaysRestorable == Spec => []StaysRestorable
<1>1. Sound => StaysRestorable
    <2> SUFFICES ASSUME Sound PROVE StaysRestorable
        OBVIOUS
    <2>1. \A a, b \in Running(sessions) : a = b
        BY DEF Sound, OneRuns, Running
    <2>2. Cardinality(Running(sessions)) <= 1
        <3>1. CASE Running(sessions) = {}
            BY <3>1, FS_EmptySet
        <3>2. ASSUME NEW a \in Running(sessions) PROVE Cardinality(Running(sessions)) = 1
            <4>1. Running(sessions) = {a}
                BY <2>1
            <4> QED
                BY <4>1, FS_Singleton
        <3> QED
            BY <3>1, <3>2
    <2> QED
        BY <2>2 DEF StaysRestorable, Restorable, Sound, ReasonGiven
<1> QED
    BY <1>1, AlwaysSound, PTL

\* A session only ever spends more, and of those that stop it the first says
\* why: for every order in which looks, figures and stops arrive.
THEOREM SaidAlwaysStands == Spec => WhatIsSaidStands
<1>1. Sound /\ [Next]_vars => [SaidStands]_vars
    BY StepSound, StutterSound
<1> QED
    BY <1>1, AlwaysSound, PTL DEF Spec, WhatIsSaidStands, SaidStands

----------------------------------------------------------------------------
(* What a session is said to have spent. *)

LEMMA NumbersOf ==
    ASSUME Sound
    PROVE  /\ limit.used \in Nat /\ limit.window \in Nat \ {0} /\ moved \in Nat
           /\ \A l \in looks : /\ l.used \in Nat /\ l.window \in Nat /\ l.when \in Nat
                              /\ l.window # NoWindow
           /\ \A s \in DOMAIN sessions : /\ sessions[s] \in Session
                                        /\ from[s] \in Nat /\ charged[s] \in Nat
                                        /\ heard[s] \in Hearing
<1>1. limit.used \in 0..Full /\ limit.window \in 1..LastWindow /\ moved \in Nat
    BY DEF Sound, TypeOK
<1>2. looks \subseteq Look
    BY DEF Sound, TypeOK
<1>3. \A s \in DOMAIN sessions : /\ sessions[s] \in Session
                                /\ from[s] \in Nat /\ charged[s] \in Nat
                                /\ heard[s] \in Hearing
    BY DEF Sound, TypeOK
<1> QED
    BY <1>1, <1>2, <1>3, Bounds, LooksAreNumbers

\* The limit moves on from wherever it was seen.
LEMMA MovesOn ==
    ASSUME Sound, Spend \/ BeginAgain,
           NEW used \in Nat, NEW window \in Nat, NEW when \in Nat,
           NEW a, a.used = used, a.window = window, a.when = when,
           NotAfter(a, Now), Agree(a, Now)
    PROVE  NotAfter(a, Now') /\ Agree(a, Now')
<1>1. /\ limit.used \in Nat /\ limit.window \in Nat /\ moved \in Nat
      /\ Now.used = limit.used /\ Now.window = limit.window /\ Now.when = moved
    BY NumbersOf DEF Now
<1>2. CASE Spend
    <2>1. /\ Now'.used = limit.used + 1 /\ Now'.window = limit.window
          /\ Now'.when = moved + 1
        <3>1. limit' = [limit EXCEPT !.used = @ + 1] /\ moved' = moved + 1
            BY <1>2 DEF Spend
        <3>2. limit \in [used : 0..Full, window : 1..LastWindow]
            BY DEF Sound, TypeOK
        <3>3. limit'.used = limit.used + 1 /\ limit'.window = limit.window
            BY <3>1, <3>2
        <3> QED
            BY <3>1, <3>3 DEF Now
    <2> HIDE DEF Now
    <2> QED
        BY <1>1, <2>1 DEF NotAfter, Agree
<1>3. CASE BeginAgain
    <2>1. /\ Now'.used = 0 /\ Now'.window = limit.window + 1 /\ Now'.when = moved
        BY <1>3 DEF BeginAgain, Now
    <2> QED
        BY <1>1, <2>1 DEF NotAfter, Agree
<1> QED
    BY <1>2, <1>3

\* What two windows for every overtaken look come to.
LEMMA DoubledGrows ==
    ASSUME NEW n \in Nat
    PROVE  /\ 2 * Full * n \in Nat
           /\ 2 * Full * (n + 1) = 2 * Full * n + 2 * Full
    BY Bounds

LEMMA DoubledIsNat ==
    ASSUME Sound, NEW s \in DOMAIN sessions
    PROVE  Doubled(s) \in Nat
<1>1. heard[s].overtaken \in Nat
    BY NumbersOf DEF Hearing
<1> QED
    BY <1>1, DoubledGrows DEF Doubled

LEMMA SightsAreNumbers ==
    ASSUME NEW a \in Sight
    PROVE  /\ a.used \in Nat /\ a.used <= Full
           /\ a.window \in Nat /\ a.when \in Nat
<1>1. a.used \in 0..Full /\ a.window \in Nat /\ a.when \in Nat
    BY DEF Sight
<1> QED
    BY <1>1, Bounds

\* A measured look adds, and charges, no more than what was used in its window.
LEMMA MeasuredAddsItsWindow ==
    ASSUME NEW x \in Session, NEW used \in Nat, NEW window \in Nat,
           NEW new, new = Measured(x, used, window),
           NEW over, over = Charge(x, used, window),
           NEW more, more = IF over[2] > over[1] THEN over[2] - over[1] ELSE 0
    PROVE  /\ more \in Nat /\ more <= used
           /\ new.consumed <= x.consumed + used
           /\ \/ new = x /\ more = 0
              \/ new.seen = used /\ (window # NoWindow => new.window = window)
<1>1. x.seen \in Nat /\ x.window \in Nat /\ x.consumed \in Nat
    BY DEF Session
<1>2. CASE x.usage = "Tokens" \/ IsLate(x, used, window)
    <2>1. new = x /\ over = <<0, 0>>
        BY <1>2 DEF Measured, Charge
    <2> QED
        BY <1>1, <2>1
<1>3. CASE ~ (x.usage = "Tokens" \/ IsLate(x, used, window))
    <2> DEFINE grown == Since(x, used, window)
               last == IF window # NoWindow THEN window ELSE x.window
    <2>1. new = [x EXCEPT !.consumed = x.consumed + grown, !.seen = used, !.window = last]
        BY <1>3 DEF Measured
    <2>2. over = <<x.seen, used>>
        BY <1>3 DEF Charge
    <2>3. more = IF used > x.seen THEN used - x.seen ELSE 0
        BY <2>2
    <2>4. grown \in Nat /\ grown <= used
        BY <1>1 DEF Since
    <2>5. window # NoWindow => last = window
        OBVIOUS
    <2> HIDE DEF grown, last
    <2>6. /\ new.seen = used /\ new.window = last
          /\ new.consumed = x.consumed + grown
        BY <2>1 DEF Session
    <2>7. more \in Nat /\ more <= used
        BY <1>1, <2>3
    <2> QED
        BY <1>1, <2>4, <2>5, <2>6, <2>7
<1> QED
    BY <1>2, <1>3

\* What a measured look leaves of a session is right as of the look, or as of
\* the one before where it changed nothing.
LEMMA MeasuredStands ==
    ASSUME NEW x \in Session, NEW a \in Sight, NEW b \in Sight,
           NEW start \in Nat, NEW c \in Nat, NEW room \in Nat,
           a.used = x.seen, Agree(a, b), b.window # NoWindow,
           start + x.consumed <= a.when + room, start + c <= a.when + room,
           x.window # NoWindow => a.window <= x.window /\ x.window <= b.window,
           x.window = NoWindow => NotAfter(a, b),
           NEW new, new = Measured(x, b.used, b.window),
           NEW over, over = Charge(x, b.used, b.window),
           NEW more, more = IF over[2] > over[1] THEN over[2] - over[1] ELSE 0
    PROVE  \/ new = x /\ more = 0
           \/ /\ new.seen = b.used /\ new.window = b.window
              /\ start + new.consumed <= b.when + room
              /\ start + c + more <= b.when + room
<1>1. /\ x.seen \in Nat /\ x.window \in Nat /\ x.consumed \in Nat
      /\ a.used \in Nat /\ a.window \in Nat /\ a.when \in Nat
      /\ b.used \in Nat /\ b.window \in Nat /\ b.when \in Nat
    BY SightsAreNumbers DEF Session
<1>2. CASE x.usage = "Tokens" \/ IsLate(x, b.used, b.window)
    <2>1. new = x /\ over = <<0, 0>>
        BY <1>2 DEF Measured, Charge
    <2> QED
        BY <2>1
<1>3. CASE ~ (x.usage = "Tokens" \/ IsLate(x, b.used, b.window))
    <2> DEFINE grown == Since(x, b.used, b.window)
    <2>1. new = [x EXCEPT !.consumed = @ + grown, !.seen = b.used, !.window = b.window]
        BY <1>3 DEF Measured
    <2>2. over = <<x.seen, b.used>>
        BY <1>3 DEF Charge
    <2>3. more = IF b.used > x.seen THEN b.used - x.seen ELSE 0
        BY <2>2
    <2>4. grown \in Nat
        BY <1>1 DEF Since
    <2>5. a.window <= b.window
        BY <1>1 DEF NotAfter
    <2>6. a.when + grown <= b.when /\ a.when + more <= b.when
        <3>1. CASE a.window = b.window
            <4>1. a.when + b.used = b.when + x.seen
                BY <3>1 DEF Agree
            <4>2. x.window # NoWindow => x.window = b.window
                BY <1>1, <3>1
            <4>3. b.used >= x.seen
                <5>1. CASE x.window = NoWindow
                    BY <1>1, <4>1, <5>1 DEF NotAfter
                <5>2. CASE x.window # NoWindow
                    BY <1>1, <1>3, <4>2, <5>2 DEF IsLate
                <5> QED
                    BY <5>1, <5>2
            <4>4. grown = b.used - x.seen
                BY <4>2, <4>3 DEF Since, BeganAgain
            <4> HIDE DEF grown
            <4> QED
                BY <1>1, <2>3, <4>1, <4>3, <4>4
        <3>2. CASE a.window < b.window
            <4>1. a.when + b.used <= b.when
                BY <3>2 DEF Agree
            <4>2. grown <= b.used /\ more <= b.used
                BY <1>1, <2>3 DEF Since
            <4>3. more \in Nat
                BY <1>1, <2>3
            <4> HIDE DEF grown
            <4> QED
                BY <1>1, <2>4, <4>1, <4>2, <4>3
        <3> QED
            BY <1>1, <2>5, <3>1, <3>2
    <2> HIDE DEF grown
    <2>7. /\ new.seen = b.used /\ new.window = b.window
          /\ new.consumed = x.consumed + grown
        BY <2>1 DEF Session
    <2>8. more \in Nat
        BY <1>1, <2>3
    <2> QED
        BY <1>1, <2>4, <2>6, <2>7, <2>8
<1> QED
    BY <1>2, <1>3

LEMMA InitCounted == Init => Counted
    BY DEF Init, Counted, LooksTrue, EachStands

\* What is left of it when nothing is said about the session and the limit.
LEMMA StillStands ==
    ASSUME NEW s, NEW a, Stands(s, a),
           UNCHANGED <<limit, moved>>, looks' \subseteq looks,
           sessions'[s].seen = sessions[s].seen,
           sessions'[s].consumed = sessions[s].consumed,
           sessions'[s].window = sessions[s].window,
           from'[s] = from[s], charged'[s] = charged[s], heard'[s] = heard[s]
    PROVE  Stands(s, a)'
    BY DEF Stands, Seen, MeasuresFrom, CountsAgain, CoveredWith, Doubled, Now

LEMMA LooksStillTrue ==
    ASSUME LooksTrue, UNCHANGED <<limit, moved>>, looks' \subseteq looks
    PROVE  LooksTrue'
    BY DEF LooksTrue, Now

\* The vendor's steps: everything that was seen is seen to be further behind.
LEMMA VendorCounts ==
    ASSUME Sound, Counted, Spend \/ BeginAgain
    PROVE  Counted'
<1>1. UNCHANGED <<sessions, looks, from, charged, heard>>
    BY DEF Spend, BeginAgain
<1>2. LooksTrue'
    <2>1. \A l \in looks : NotAfter(l, Now') /\ Agree(l, Now')
        <3> SUFFICES ASSUME NEW l \in looks PROVE NotAfter(l, Now') /\ Agree(l, Now')
            OBVIOUS
        <3>1. l.used \in Nat /\ l.window \in Nat /\ l.when \in Nat
            BY NumbersOf
        <3>2. NotAfter(l, Now) /\ Agree(l, Now)
            BY DEF Counted, LooksTrue
        <3> QED
            BY <3>1, <3>2, MovesOn
    <2> QED
        BY <1>1, <2>1 DEF Counted, LooksTrue, NotAfter, Agree
<1>3. EachStands'
    <2> SUFFICES ASSUME NEW s \in DOMAIN sessions PROVE \E a \in Sight : Stands(s, a)'
        BY <1>1 DEF EachStands
    <2>1. PICK a \in Sight : Stands(s, a)
        BY DEF Counted, EachStands
    <2>2. a.used \in Nat /\ a.window \in Nat /\ a.when \in Nat
        BY SightsAreNumbers
    <2>3. NotAfter(a, Now) /\ Agree(a, Now)
        BY <2>1 DEF Stands, Seen
    <2>4. NotAfter(a, Now') /\ Agree(a, Now')
        BY <2>2, <2>3, MovesOn
    <2>5. Seen(a)'
        BY <1>1, <2>1, <2>4 DEF Stands, Seen, NotAfter, Agree
    <2>6. (MeasuresFrom(s, a) \/ CountsAgain(s, a))'
        BY <1>1, <2>1 DEF Stands, MeasuresFrom, CountsAgain, CoveredWith, Doubled, NotAfter
    <2>7. Stands(s, a)'
        BY <2>5, <2>6 DEF Stands
    <2> QED
        BY <2>7
<1> QED
    BY <1>2, <1>3 DEF Counted

\* A look is taken of the limit as it is, after everything seen before.
LEMMA LookCounts ==
    ASSUME Sound, Counted, NEW s, NEW what, LookFor(s, what)
    PROVE  Counted'
<1> DEFINE l == [session |-> s, for |-> what, used |-> limit.used,
                 window |-> limit.window, when |-> moved]
<1>1. /\ l.used = Now.used /\ l.window = Now.window /\ l.when = Now.when
      /\ Now.used \in Nat /\ Now.window \in Nat /\ Now.when \in Nat
      /\ l.used \in Nat /\ l.window \in Nat /\ l.when \in Nat
    BY NumbersOf DEF Now
<1>2. /\ looks' = looks \cup {l}
      /\ UNCHANGED <<limit, moved>>
      /\ UNCHANGED <<sessions, from, charged, heard>>
    BY DEF LookFor
<1> HIDE DEF l
<1>3. Now' = Now
    BY <1>2 DEF Now
<1> HIDE DEF Now
<1>4. \A k \in looks : /\ k.used \in Nat /\ k.window \in Nat /\ k.when \in Nat
                      /\ NotAfter(k, Now) /\ Agree(k, Now)
    BY NumbersOf DEF Counted, LooksTrue
<1>5. LooksTrue'
    <2>1. NotAfter(l, Now) /\ Agree(l, Now) /\ Agree(l, l)
        BY <1>1 DEF NotAfter, Agree
    <2>2. \A k \in looks : Agree(k, l) /\ Agree(l, k)
        BY <1>1, <1>4 DEF NotAfter, Agree
    <2>3. \A k, j \in looks : Agree(k, j)
        BY DEF Counted, LooksTrue
    <2> HIDE DEF Agree, NotAfter
    <2>4. \A k \in looks' : NotAfter(k, Now) /\ Agree(k, Now)
        BY <1>2, <1>4, <2>1
    <2>5. \A k, j \in looks' : Agree(k, j)
        BY <1>2, <2>1, <2>2, <2>3
    <2> QED
        BY <1>3, <2>4, <2>5 DEF LooksTrue, Agree, NotAfter
<1>6. EachStands'
    <2> SUFFICES ASSUME NEW r \in DOMAIN sessions PROVE \E a \in Sight : Stands(r, a)'
        BY <1>2 DEF EachStands
    <2>1. PICK a \in Sight : Stands(r, a)
        BY DEF Counted, EachStands
    <2>2. NotAfter(a, Now) /\ Agree(a, Now)
        BY <2>1 DEF Stands, Seen
    <2>3. NotAfter(a, l) /\ Agree(a, l)
        BY <1>1, <2>2 DEF NotAfter, Agree
    <2>4. Seen(a)'
        BY <1>2, <1>3, <2>1, <2>3 DEF Stands, Seen, NotAfter, Agree
    <2>5. (MeasuresFrom(r, a) \/ CountsAgain(r, a))'
        BY <1>2, <2>1, <2>3 DEF Stands, MeasuresFrom, CountsAgain, CoveredWith, Doubled, NotAfter
    <2> QED
        BY <2>4, <2>5 DEF Stands
<1> QED
    BY <1>5, <1>6 DEF Counted

\* A session is opened as of the look it was opened with, and nothing has been
\* asked about it yet.
LEMMA OpenCounts ==
    ASSUME Sound, Counted, NEW usage \in Usage, NEW look \in looks, Open(usage, look)
    PROVE  Counted'
<1> DEFINE b == [used |-> look.used, window |-> look.window, when |-> look.when]
<1>1. /\ look.used \in Nat /\ look.window \in Nat /\ look.when \in Nat
      /\ NotAfter(look, Now) /\ Agree(look, Now)
      /\ \A k \in looks : Agree(look, k)
    BY NumbersOf DEF Counted, LooksTrue
<1>2. /\ b \in Sight /\ b.used = look.used /\ b.window = look.window /\ b.when = look.when
    <2>1. look.used \in 0..Full
        BY DEF Sound, TypeOK, Look
    <2> QED
        BY <1>1, <2>1 DEF Sight
<1> HIDE DEF b
<1>0. PICK n : n = next_id
    OBVIOUS
<1>3. /\ n \notin DOMAIN sessions
      /\ DOMAIN from = DOMAIN sessions /\ DOMAIN charged = DOMAIN sessions
      /\ DOMAIN heard = DOMAIN sessions
    BY <1>0 DEF Sound, TypeOK
<1>4. /\ looks' \subseteq looks
      /\ UNCHANGED <<limit, moved>>
    BY DEF Open
<1>5. /\ DOMAIN sessions' = DOMAIN sessions \cup {n}
      /\ sessions'[n] = Opened(usage, Full, look.used)
      /\ from'[n] = look.when
      /\ charged'[n] = 0
      /\ heard'[n] = [newest |-> NoWindow, overtaken |-> 0]
      /\ \A r \in DOMAIN sessions :
            /\ sessions'[r] = sessions[r]
            /\ from'[r] = from[r] /\ charged'[r] = charged[r] /\ heard'[r] = heard[r]
    BY <1>0, <1>3 DEF Open
<1>6. Stands(n, b)'
    <2>1. /\ sessions'[n].seen = look.used
          /\ sessions'[n].consumed = 0
          /\ sessions'[n].window = NoWindow
        BY <1>5 DEF Opened
    <2>2. from'[n] + 0 <= b.when
        BY <1>1, <1>2, <1>5
    <2>3. \A l \in looks' : ~ (l.for # "open" /\ l.session = n)
        BY <1>3, <1>4 DEF Sound, LooksAsk
    <2>4. NotAfter(b, Now') /\ Agree(b, Now')
        BY <1>1, <1>2, <1>4 DEF NotAfter, Agree, Now
    <2>5. \A l \in looks' : Agree(b, l)
        BY <1>1, <1>2, <1>4 DEF Agree
    <2>6. Seen(b)'
        BY <2>4, <2>5 DEF Seen, NotAfter, Agree
    <2>7. heard'[n].newest = NoWindow /\ Doubled(n)' = 0
        <3>1. heard'[n].newest = NoWindow /\ heard'[n].overtaken = 0
            BY <1>5
        <3>2. 2 * Full * 0 = 0
            BY Bounds
        <3> QED
            BY <3>1, <3>2 DEF Doubled
    <2>8. MeasuresFrom(n, b)'
        BY <1>1, <1>2, <1>5, <2>1, <2>2, <2>3, <2>7 DEF MeasuresFrom, CoveredWith, NoWindow
    <2> QED
        BY <2>6, <2>8 DEF Stands
<1>7. EachStands'
    <2>0. \E a \in Sight : Stands(n, a)'
        BY <1>2, <1>6
    <2>1. ASSUME NEW r \in DOMAIN sessions PROVE \E a \in Sight : Stands(r, a)'
        <3>1. PICK a \in Sight : Stands(r, a)
            BY DEF Counted, EachStands
        <3>2. Stands(r, a)'
            BY <1>4, <1>5, <3>1, StillStands
        <3> QED
            BY <3>2
    <2> QED
        BY <1>5, <2>0, <2>1 DEF EachStands
<1> QED
    BY <1>4, <1>7, LooksStillTrue DEF Counted

\* A step that changes one session to one that stands as of a sight that is no
\* later than now and agrees with what is in flight.
LEMMA OneStands ==
    ASSUME Sound, Counted, NEW s \in DOMAIN sessions, NEW new \in Session, Later(s, new),
           UNCHANGED <<limit, moved>>, from' = from, looks' \subseteq looks,
           \A r \in DOMAIN sessions :
               r # s => charged'[r] = charged[r] /\ heard'[r] = heard[r],
           NEW b \in Sight, Stands(s, b)'
    PROVE  Counted'
<1>1. /\ DOMAIN sessions' = DOMAIN sessions
      /\ \A r \in DOMAIN sessions : r # s => sessions'[r] = sessions[r]
    BY OneChanged
<1>2. ASSUME NEW r \in DOMAIN sessions, r # s PROVE \E a \in Sight : Stands(r, a)'
    <2>1. PICK a \in Sight : Stands(r, a)
        BY DEF Counted, EachStands
    <2>2. Stands(r, a)'
        BY <1>1, <1>2, <2>1, StillStands
    <2> QED
        BY <2>2
<1>3. EachStands'
    BY <1>1, <1>2 DEF EachStands
<1> QED
    BY <1>3, LooksStillTrue DEF Counted

\* A look that was overtaken: what it adds, and what the next look will add again,
\* is within the two windows it is allowed.
LEMMA OvertakenCounts ==
    ASSUME Sound, Counted, NEW look \in looks, NEW s \in DOMAIN sessions, look.session = s,
           Overtaken(look), look.for # "open", Hear(look),
           NEW new \in Session, Later(s, new),
           new.consumed <= sessions[s].consumed + Full,
           NEW more \in Nat, more <= Full, charged'[s] = charged[s] + more,
           \A r \in DOMAIN sessions : r # s => charged'[r] = charged[r],
           UNCHANGED <<limit, moved>>, from' = from, looks' \subseteq looks
    PROVE  Counted'
<1>1. PICK a \in Sight : Stands(s, a)
    BY DEF Counted, EachStands
<1>2. /\ a.used \in Nat /\ a.used <= Full /\ a.window \in Nat /\ a.when \in Nat
      /\ look.window \in Nat
      /\ sessions[s].consumed \in Nat /\ sessions[s].window \in Nat
      /\ new.consumed \in Nat /\ from[s] \in Nat /\ charged[s] \in Nat
      /\ heard[s].newest \in Nat /\ heard[s].overtaken \in Nat
      /\ Full \in Nat /\ Doubled(s) \in Nat
    BY NumbersOf, SightsAreNumbers, Bounds, DoubledIsNat DEF Session, Hearing
<1>3. /\ sessions'[s] = new
      /\ \A r \in DOMAIN sessions : r # s => heard'[r] = heard[r]
      /\ heard'[s].newest = heard[s].newest
      /\ heard'[s].overtaken = heard[s].overtaken + 1
    BY OneChanged, HearsOne
<1>4. Doubled(s)' = Doubled(s) + 2 * Full
    BY <1>2, <1>3, DoubledGrows DEF Doubled
<1>5. /\ from[s] + sessions[s].consumed <= a.when + Doubled(s)
      /\ from[s] + charged[s] <= a.when + Doubled(s)
    <2>1. CASE MeasuresFrom(s, a)
        BY <1>2, <2>1 DEF MeasuresFrom, CoveredWith
    <2>2. CASE CountsAgain(s, a)
        BY <1>2, <2>2 DEF CountsAgain, CoveredWith
    <2> QED
        BY <1>1, <2>1, <2>2 DEF Stands
<1>6. a.window <= heard[s].newest
    <2>1. CASE CountsAgain(s, a)
        BY <2>1 DEF CountsAgain
    <2>2. CASE MeasuresFrom(s, a) /\ sessions[s].window # NoWindow
        BY <1>2, <2>2 DEF MeasuresFrom
    <2>3. CASE MeasuresFrom(s, a) /\ sessions[s].window = NoWindow
        <3>1. a.window <= look.window
            BY <2>3 DEF MeasuresFrom, NotAfter
        <3>2. look.window < heard[s].newest
            BY DEF Overtaken
        <3> QED
            BY <1>2, <3>1, <3>2
    <2> QED
        BY <1>1, <2>1, <2>2, <2>3 DEF Stands
<1>7. /\ from[s] + new.consumed + a.used <= a.when + (Doubled(s) + 2 * Full)
      /\ from[s] + (charged[s] + more) + a.used <= a.when + (Doubled(s) + 2 * Full)
    BY <1>2, <1>5
<1>8. CountsAgain(s, a)'
    BY <1>3, <1>4, <1>6, <1>7 DEF CountsAgain, CoveredWith
<1>9. Seen(a)'
    BY <1>1 DEF Stands, Seen, Now
<1>10. Stands(s, a)'
    BY <1>8, <1>9 DEF Stands
<1> QED
    BY <1>1, <1>3, <1>10, OneStands

\* A look that was not overtaken and was measured.
LEMMA MeasuredInTime ==
    ASSUME Sound, Counted, NEW look \in looks, look.for # "open", ~ Overtaken(look),
           Measure(look)
    PROVE  Counted'
<1>0. PICK s : s = look.session
    OBVIOUS
<1> DEFINE x == sessions[s]
           b == [used |-> look.used, window |-> look.window, when |-> look.when]
           new == Measured(x, look.used, look.window)
           over == Charge(x, look.used, look.window)
           more == IF over[2] > over[1] THEN over[2] - over[1] ELSE 0
<1>1. /\ s \in DOMAIN sessions
      /\ look.used \in Nat /\ look.window \in Nat /\ look.when \in Nat
      /\ look.window # NoWindow
      /\ x \in Session /\ from[s] \in Nat /\ charged[s] \in Nat
      /\ x.consumed \in Nat /\ x.window \in Nat /\ heard[s].newest \in Nat
    BY <1>0, NumbersOf DEF Sound, LooksAsk, Session, Hearing
<1>2. b \in Sight /\ b.used = look.used /\ b.window = look.window /\ b.when = look.when
    <2>1. look.used \in 0..Full
        BY DEF Sound, TypeOK, Look
    <2> QED
        BY <1>1, <2>1 DEF Sight
<1>3. /\ NotAfter(look, Now) /\ Agree(look, Now)
      /\ \A k \in looks : Agree(look, k)
    BY DEF Counted, LooksTrue
<1>4. /\ Later(s, new)
      /\ charged' = [charged EXCEPT ![s] = @ + more]
      /\ UNCHANGED <<limit, moved>> /\ from' = from
      /\ looks' = looks \ {look}
      /\ Hear(look)
    BY <1>0 DEF Measure
<1>5. PICK a \in Sight : Stands(s, a)
    BY <1>1 DEF Counted, EachStands
<1>6. heard[s].newest <= look.window
    BY <1>0, <1>1 DEF Overtaken
<1>7. /\ more \in Nat /\ more <= look.used
      /\ new.consumed <= x.consumed + look.used
      /\ new \in Session
      /\ \/ new = x /\ more = 0
         \/ new.seen = look.used /\ new.window = look.window
    <2>1. new \in Session
        BY <1>1, MeasuredAdds
    <2>2. /\ new = Measured(x, look.used, look.window)
          /\ over = Charge(x, look.used, look.window)
          /\ more = IF over[2] > over[1] THEN over[2] - over[1] ELSE 0
        OBVIOUS
    <2> HIDE DEF new, over, more, x
    <2> QED
        BY <1>1, <2>1, <2>2, MeasuredAddsItsWindow
<1>8. new.consumed \in Nat
    BY <1>7 DEF Session
<1>9. /\ a.used \in Nat /\ a.window \in Nat /\ a.when \in Nat
      /\ Doubled(s) \in Nat
    BY <1>1, SightsAreNumbers, DoubledIsNat
<1>10. Agree(a, b)
    BY <1>2, <1>5 DEF Stands, Seen, Agree
<1> HIDE DEF b
<1>11. ASSUME MeasuresFrom(s, a)
       PROVE  \/ new = x /\ more = 0
              \/ /\ new.seen = b.used /\ new.window = b.window
                 /\ from[s] + new.consumed <= b.when + Doubled(s)
                 /\ from[s] + charged[s] + more <= b.when + Doubled(s)
    <2>1. /\ a.used = x.seen
          /\ from[s] + x.consumed <= a.when + Doubled(s)
          /\ from[s] + charged[s] <= a.when + Doubled(s)
        BY <1>1, <1>9, <1>11 DEF MeasuresFrom, CoveredWith
    <2>2. /\ x.window # NoWindow => a.window <= x.window /\ x.window <= b.window
          /\ x.window = NoWindow => NotAfter(a, b)
        BY <1>0, <1>1, <1>2, <1>6, <1>11 DEF MeasuresFrom, NotAfter
    <2>3. new = Measured(x, b.used, b.window) /\ over = Charge(x, b.used, b.window)
        BY <1>2
    <2>4. more = IF over[2] > over[1] THEN over[2] - over[1] ELSE 0
        OBVIOUS
    <2>5. b.window # NoWindow
        BY <1>1, <1>2
    <2>6. /\ x \in Session /\ a \in Sight /\ b \in Sight
          /\ from[s] \in Nat /\ charged[s] \in Nat /\ Doubled(s) \in Nat
        BY <1>1, <1>2, <1>9
    <2> HIDE DEF x, new, over, more
    <2> QED
        BY <1>10, <2>1, <2>2, <2>3, <2>4, <2>5, <2>6, MeasuredStands
<1>12. ASSUME CountsAgain(s, a)
       PROVE  \/ new = x /\ more = 0
              \/ /\ new.seen = b.used /\ new.window = b.window
                 /\ from[s] + new.consumed <= b.when + Doubled(s)
                 /\ from[s] + charged[s] + more <= b.when + Doubled(s)
    <2> HIDE DEF x, new, over, more
    <2>1. /\ from[s] + x.consumed + a.used <= a.when + Doubled(s)
          /\ from[s] + charged[s] + a.used <= a.when + Doubled(s)
          /\ a.window <= b.window
        BY <1>1, <1>2, <1>6, <1>9, <1>12 DEF CountsAgain, CoveredWith, x
    <2>2. b.used \in Nat /\ b.window \in Nat /\ b.when \in Nat
        BY <1>1, <1>2
    <2>3. a.when + b.used <= b.when + a.used
        <3>1. CASE a.window = b.window
            BY <1>10, <3>1, <1>9, <2>2 DEF Agree
        <3>2. CASE a.window < b.window
            BY <1>10, <3>2, <1>9, <2>2 DEF Agree
        <3> QED
            BY <1>9, <2>1, <2>2, <3>1, <3>2
    <2>4. /\ from[s] + new.consumed <= b.when + Doubled(s)
          /\ from[s] + charged[s] + more <= b.when + Doubled(s)
        BY <1>1, <1>2, <1>7, <1>8, <1>9, <2>1, <2>2, <2>3
    <2> QED
        BY <1>2, <1>7, <2>4
<1>13. /\ sessions'[s] = new
       /\ \A r \in DOMAIN sessions :
             r # s => charged'[r] = charged[r] /\ heard'[r] = heard[r]
       /\ charged'[s] = charged[s] + more
       /\ heard'[s].newest = look.window
       /\ heard'[s].overtaken = heard[s].overtaken
       /\ looks' \subseteq looks
    <2>1. DOMAIN charged = DOMAIN sessions
        BY DEF Sound, TypeOK
    <2> HIDE DEF new, more
    <2> QED
        BY <1>0, <1>1, <1>4, <1>7, <2>1, OneChanged, HearsOne
<1>14. Doubled(s)' = Doubled(s)
    BY <1>13 DEF Doubled
<1> HIDE DEF new, more
<1>15. CASE new = x /\ more = 0
    <2>1. Seen(a)'
        BY <1>4, <1>5, <1>13 DEF Stands, Seen, Now
    <2>2. charged'[s] = charged[s] /\ sessions'[s] = sessions[s] /\ from'[s] = from[s]
        BY <1>1, <1>4, <1>13, <1>15
    <2>3. ASSUME MeasuresFrom(s, a) PROVE Stands(s, a)'
        <3>1. sessions[s].window <= look.window
            BY <1>1, <1>6, <2>3 DEF MeasuresFrom
        <3>2. MeasuresFrom(s, a)'
            BY <1>13, <1>14, <2>2, <2>3, <3>1 DEF MeasuresFrom, CoveredWith, NotAfter
        <3> QED
            BY <2>1, <3>2 DEF Stands
    <2>4. ASSUME CountsAgain(s, a) PROVE Stands(s, a)'
        <3>1. a.window <= look.window
            BY <1>1, <1>6, <1>9, <2>4 DEF CountsAgain
        <3>2. CountsAgain(s, a)'
            BY <1>13, <1>14, <2>2, <2>4, <3>1 DEF CountsAgain, CoveredWith
        <3> QED
            BY <2>1, <3>2 DEF Stands
    <2>5. Stands(s, a)'
        BY <1>5, <2>3, <2>4 DEF Stands
    <2> QED
        BY <1>1, <1>4, <1>5, <1>7, <1>13, <2>5, OneStands
<1>16. CASE /\ new.seen = b.used /\ new.window = b.window
            /\ from[s] + new.consumed <= b.when + Doubled(s)
            /\ from[s] + charged[s] + more <= b.when + Doubled(s)
    <2>1. NotAfter(b, Now') /\ Agree(b, Now')
        BY <1>2, <1>3, <1>4 DEF NotAfter, Agree, Now
    <2>2. \A l \in looks' : Agree(b, l)
        BY <1>2, <1>3, <1>13 DEF Agree
    <2>3. Seen(b)'
        BY <2>1, <2>2 DEF Seen, NotAfter, Agree
    <2>4. /\ sessions'[s].seen = b.used /\ sessions'[s].window = b.window
          /\ from'[s] + sessions'[s].consumed + 0 <= b.when + Doubled(s)'
        BY <1>1, <1>4, <1>8, <1>13, <1>14, <1>16
    <2>5. from'[s] + charged'[s] + 0 <= b.when + Doubled(s)'
        BY <1>1, <1>4, <1>7, <1>13, <1>14, <1>16
    <2>6. b.window <= b.window /\ b.window # NoWindow /\ heard'[s].newest = b.window
        BY <1>1, <1>2, <1>13
    <2>7. MeasuresFrom(s, b)'
        BY <2>4, <2>5, <2>6 DEF MeasuresFrom, CoveredWith
    <2>8. Stands(s, b)'
        BY <2>3, <2>7 DEF Stands
    <2> QED
        BY <1>1, <1>2, <1>4, <1>7, <1>13, <2>8, OneStands
<1> QED
    BY <1>5, <1>11, <1>12, <1>15, <1>16 DEF Stands

\* A look that was not overtaken and was only noted.
LEMMA NotedInTime ==
    ASSUME Sound, Counted, NEW look \in looks, look.for # "open", ~ Overtaken(look),
           NoteWindow(look)
    PROVE  Counted'
<1>0. PICK s : s = look.session
    OBVIOUS
<1> DEFINE new == ResetsAt(sessions[s], look.window)
<1>1. /\ s \in DOMAIN sessions
      /\ look.used \in Nat /\ look.window \in Nat /\ look.when \in Nat
      /\ look.window # NoWindow
      /\ sessions[s] \in Session /\ sessions[s].window \in Nat /\ heard[s].newest \in Nat
    BY <1>0, NumbersOf DEF Sound, LooksAsk, Session, Hearing
<1>2. /\ new \in Session
      /\ new.window = look.window
      /\ new.consumed = sessions[s].consumed
      /\ new.seen = sessions[s].seen
    BY <1>1, WindowNoted
<1>3. /\ Later(s, new)
      /\ UNCHANGED <<limit, moved>> /\ from' = from /\ charged' = charged
      /\ looks' \subseteq looks
      /\ Hear(look)
    BY <1>0 DEF NoteWindow
<1> HIDE DEF new
<1>4. PICK a \in Sight : Stands(s, a)
    BY <1>1 DEF Counted, EachStands
<1>5. heard[s].newest <= look.window /\ a.window \in Nat
    BY <1>0, <1>1, SightsAreNumbers DEF Overtaken
<1>6. /\ sessions'[s] = new
      /\ \A r \in DOMAIN sessions : r # s => heard'[r] = heard[r]
      /\ heard'[s].newest = look.window
      /\ heard'[s].overtaken = heard[s].overtaken
    BY <1>0, <1>1, <1>2, <1>3, OneChanged, HearsOne
<1>7. Doubled(s)' = Doubled(s)
    BY <1>6 DEF Doubled
<1>8. Seen(a)'
    BY <1>3, <1>4 DEF Stands, Seen, Now
<1>9. ASSUME MeasuresFrom(s, a) PROVE Stands(s, a)'
    <2>1. a.window <= look.window
        <3>1. CASE sessions[s].window = NoWindow
            BY <1>0, <1>9, <3>1 DEF MeasuresFrom, NotAfter
        <3>2. CASE sessions[s].window # NoWindow
            BY <1>1, <1>5, <1>9, <3>2 DEF MeasuresFrom
        <3> QED
            BY <3>1, <3>2
    <2>2. CoveredWith(s, a, 0)'
        BY <1>2, <1>3, <1>6, <1>7, <1>9 DEF MeasuresFrom, CoveredWith
    <2>3. /\ a.used = sessions'[s].seen
          /\ sessions'[s].window = look.window /\ look.window <= look.window
        BY <1>1, <1>2, <1>6, <1>9 DEF MeasuresFrom
    <2>4. MeasuresFrom(s, a)'
        BY <1>1, <1>6, <2>1, <2>2, <2>3 DEF MeasuresFrom
    <2> QED
        BY <1>8, <2>4 DEF Stands
<1>10. ASSUME CountsAgain(s, a) PROVE Stands(s, a)'
    <2>1. a.window <= look.window
        BY <1>1, <1>5, <1>10 DEF CountsAgain
    <2>2. CountsAgain(s, a)'
        BY <1>2, <1>3, <1>6, <1>7, <1>10, <2>1 DEF CountsAgain, CoveredWith
    <2> QED
        BY <1>8, <2>2 DEF Stands
<1>11. Stands(s, a)'
    BY <1>4, <1>9, <1>10 DEF Stands
<1> QED
    BY <1>1, <1>2, <1>3, <1>4, <1>6, <1>11, OneStands

\* A look that asks about a session, overtaken or not.
LEMMA ArrivesCounted ==
    ASSUME Sound, Counted, NEW look \in looks, look.for # "open",
           Measure(look) \/ NoteWindow(look)
    PROVE  Counted'
<1>0. PICK s : s = look.session
    OBVIOUS
<1>1. /\ s \in DOMAIN sessions /\ sessions[s] \in Session
      /\ sessions[s].consumed \in Nat /\ charged[s] \in Nat
      /\ look.used \in Nat /\ look.used <= Full /\ look.window \in Nat
      /\ Full \in Nat
      /\ DOMAIN charged = DOMAIN sessions
    <2>1. look.used \in 0..Full
        BY DEF Sound, TypeOK, Look
    <2>2. s \in DOMAIN sessions
        BY <1>0 DEF Sound, LooksAsk
    <2>3. sessions[s] \in Session /\ charged[s] \in Nat /\ look.window \in Nat
        BY <2>2, NumbersOf
    <2>4. DOMAIN charged = DOMAIN sessions
        BY DEF Sound, TypeOK
    <2> QED
        BY <2>1, <2>2, <2>3, <2>4, Bounds DEF Session
<1>2. CASE ~ Overtaken(look)
    BY <1>2, MeasuredInTime, NotedInTime
<1>3. CASE Overtaken(look) /\ Measure(look)
    <2> DEFINE new == Measured(sessions[s], look.used, look.window)
               over == Charge(sessions[s], look.used, look.window)
               more == IF over[2] > over[1] THEN over[2] - over[1] ELSE 0
    <2>1. /\ Later(s, new)
          /\ charged' = [charged EXCEPT ![s] = @ + more]
          /\ UNCHANGED <<limit, moved>> /\ from' = from
          /\ looks' \subseteq looks
          /\ Hear(look)
        BY <1>0, <1>3 DEF Measure
    <2>2. /\ more \in Nat /\ more <= look.used
          /\ new.consumed <= sessions[s].consumed + look.used
          /\ new \in Session
        <3>1. new \in Session
            BY <1>1, MeasuredAdds
        <3>2. /\ new = Measured(sessions[s], look.used, look.window)
              /\ over = Charge(sessions[s], look.used, look.window)
              /\ more = IF over[2] > over[1] THEN over[2] - over[1] ELSE 0
            OBVIOUS
        <3> HIDE DEF new, over, more
        <3>3. PICK x \in Session : x = sessions[s]
            BY <1>1
        <3>4. new = Measured(x, look.used, look.window) /\ over = Charge(x, look.used, look.window)
            BY <3>2, <3>3
        <3>5. more \in Nat /\ more <= look.used /\ new.consumed <= x.consumed + look.used
            BY <1>1, <3>2, <3>4, MeasuredAddsItsWindow
        <3> QED
            BY <3>1, <3>3, <3>5
    <2>3. new.consumed \in Nat
        BY <2>2 DEF Session
    <2> HIDE DEF new, over, more
    <2>4. /\ more <= Full /\ new.consumed <= sessions[s].consumed + Full
        BY <1>1, <2>2, <2>3
    <2>5. /\ charged'[s] = charged[s] + more
          /\ \A r \in DOMAIN sessions : r # s => charged'[r] = charged[r]
        BY <1>1, <2>1
    <2> QED
        BY <1>0, <1>1, <1>3, <2>1, <2>2, <2>4, <2>5, OvertakenCounts
<1>4. CASE Overtaken(look) /\ NoteWindow(look)
    <2> DEFINE new == ResetsAt(sessions[s], look.window)
    <2>1. /\ Later(s, new)
          /\ UNCHANGED <<limit, moved>> /\ from' = from /\ charged' = charged
          /\ looks' \subseteq looks
          /\ Hear(look)
        BY <1>0, <1>4 DEF NoteWindow
    <2>2. new \in Session /\ new.consumed = sessions[s].consumed
        BY <1>1, WindowNoted
    <2> HIDE DEF new
    <2>3. /\ new.consumed <= sessions[s].consumed + Full
          /\ 0 \in Nat /\ 0 <= Full
          /\ charged'[s] = charged[s] + 0
          /\ \A r \in DOMAIN sessions : r # s => charged'[r] = charged[r]
        BY <1>1, <2>1, <2>2
    <2> QED
        BY <1>0, <1>1, <1>4, <2>1, <2>2, <2>3, OvertakenCounts
<1> QED
    BY <1>2, <1>3, <1>4

\* A figure that is recorded is one the session was already said to have spent,
\* and stopping says nothing of what was spent.
LEMMA OthersCount ==
    ASSUME Sound, Counted, NEW s \in DOMAIN sessions, NEW new \in Session, Later(s, new),
           new.consumed = sessions[s].consumed, new.seen = sessions[s].seen,
           new.window = sessions[s].window,
           UNCHANGED <<limit, moved>>, UNCHANGED <<looks, from, charged, heard>>
    PROVE  Counted'
<1>1. PICK a \in Sight : Stands(s, a)
    BY DEF Counted, EachStands
<1>2. sessions'[s] = new
    BY OneChanged
<1>3. Stands(s, a)'
    BY <1>1, <1>2, StillStands
<1> QED
    BY <1>1, <1>3, OneStands

LEMMA StepCounted == Sound /\ Counted /\ [Next]_vars => Counted'
<1> SUFFICES ASSUME Sound, Counted, [Next]_vars PROVE Counted'
    OBVIOUS
<1>1. CASE Spend \/ BeginAgain
    BY <1>1, VendorCounts
<1>2. CASE LookToOpen
    BY <1>2, LookCounts DEF LookToOpen
<1>3. ASSUME NEW s \in DOMAIN sessions, LookToMeasure(s) \/ LookWhenTurnedAway(s)
      PROVE  Counted'
    BY <1>3, LookCounts DEF LookToMeasure, LookWhenTurnedAway
<1>4. ASSUME NEW s \in DOMAIN sessions, NEW why \in Why, Stop(s, why)
      PROVE  Counted'
    <2>1. sessions[s] \in Session /\ why \in Reason
        BY UsageAssumption DEF Sound, TypeOK
    <2>2. /\ Later(s, Stopped(sessions[s], why))
          /\ UNCHANGED <<limit, moved>> /\ UNCHANGED <<looks, from, charged, heard>>
        BY <1>4 DEF Stop
    <2> QED
        BY <2>1, <2>2, StoppedOnce, OthersCount
<1>5. ASSUME NEW look \in looks, Arrive(look)
      PROVE  Counted'
    <2>1. CASE look.for = "open" /\ \E usage \in Usage : Open(usage, look)
        BY <2>1, OpenCounts
    <2>2. CASE look.for = "open" /\ OpenRefused(look)
        <3>1. /\ UNCHANGED <<limit, moved>> /\ looks' \subseteq looks
              /\ UNCHANGED <<sessions, from, charged, heard>>
            BY <2>2 DEF OpenRefused
        <3>2. ASSUME NEW r \in DOMAIN sessions PROVE \E a \in Sight : Stands(r, a)'
            <4>1. PICK a \in Sight : Stands(r, a)
                BY DEF Counted, EachStands
            <4> QED
                BY <3>1, <4>1, StillStands
        <3> QED
            BY <3>1, <3>2, LooksStillTrue DEF Counted, EachStands
    <2>3. CASE look.for # "open" /\ (Measure(look) \/ NoteWindow(look))
        BY <2>3, ArrivesCounted
    <2> QED
        BY <1>5, <2>1, <2>2, <2>3 DEF Arrive
<1>6. ASSUME NEW f \in figures, Record(f)
      PROVE  Counted'
    <2> DEFINE s == f.session
    <2>1. /\ s \in DOMAIN sessions /\ sessions[s] \in Session
          /\ f.consumed \in Nat /\ f.consumed <= sessions[s].consumed
        BY DEF Sound, TypeOK, FiguresFollow, Figure
    <2>2. Recorded(sessions[s], f.consumed) = sessions[s]
        BY <2>1, RecordedAdds
    <2>3. /\ Later(s, sessions[s])
          /\ UNCHANGED <<limit, moved>> /\ UNCHANGED <<looks, from, charged, heard>>
        BY <1>6, <2>2 DEF Record
    <2> HIDE DEF s
    <2> QED
        BY <2>1, <2>3, OthersCount
<1>7. CASE UNCHANGED vars
    BY <1>7 DEF vars, Counted, LooksTrue, EachStands, Stands, Seen, MeasuresFrom, CountsAgain,
                CoveredWith, Doubled, Now, NotAfter, Agree
<1> QED
    BY <1>1, <1>2, <1>3, <1>4, <1>5, <1>6, <1>7 DEF Next

\* What a session's sight allows is no more than what the limit has moved.
LEMMA CoveredByNow ==
    ASSUME Sound, Counted, NEW s \in DOMAIN sessions
    PROVE  /\ sessions[s].consumed <= moved - from[s] + Doubled(s)
           /\ charged[s] <= moved - from[s] + Doubled(s)
<1>1. PICK a \in Sight : Stands(s, a)
    BY DEF Counted, EachStands
<1>2. /\ from[s] \in Nat /\ moved \in Nat /\ a.when \in Nat /\ a.used \in Nat
      /\ sessions[s].consumed \in Nat /\ charged[s] \in Nat /\ Doubled(s) \in Nat
    BY NumbersOf, SightsAreNumbers, DoubledIsNat DEF Session
<1>3. a.when <= moved
    BY <1>1 DEF Stands, Seen, NotAfter, Now
<1>4. CASE MeasuresFrom(s, a)
    BY <1>2, <1>3, <1>4 DEF MeasuresFrom, CoveredWith
<1>5. CASE CountsAgain(s, a)
    BY <1>2, <1>3, <1>5 DEF CountsAgain, CoveredWith
<1> QED
    BY <1>1, <1>4, <1>5 DEF Stands

\* A session is never said to have spent more than the limit moved since it was
\* opened, but for two windows for every look that was overtaken.
THEOREM NeverSaysMore == Spec => []OnlyTheOvertakenOverstate
<1>1. Sound /\ Counted => OnlyTheOvertakenOverstate
    BY CoveredByNow DEF OnlyTheOvertakenOverstate
<1> QED
    BY <1>1, AlwaysSound, InitCounted, StepCounted, PTL DEF Spec

\* The stretches a session's runs are charged for come to no more than the limit
\* moved since it was opened, but for two windows for every look that was overtaken.
THEOREM NoStretchChargedTwice == Spec => []NothingChargedTwice
<1>1. Sound /\ Counted => NothingChargedTwice
    BY CoveredByNow DEF NothingChargedTwice
<1> QED
    BY <1>1, AlwaysSound, InitCounted, StepCounted, PTL DEF Spec
============================================================================
