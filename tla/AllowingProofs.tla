--------------------------- MODULE AllowingProofs ---------------------------
(***************************************************************************)
(* However a session stands, and however many tasks wait, one round of     *)
(* `allow` hands out no more than was left of the budget beside the runs   *)
(* going, and passes nobody over that what is left would cover.  The check *)
(* of module Allowing is over a small range of figures; here they are any  *)
(* numbers, so long as a figure that is there is two                       *)
(* (StandingsAssumption).                                                  *)
(*                                                                         *)
(* Then what such a round is told: how the limit stands, by a look that no *)
(* other is beside, the policies, by a configuration that was set and not  *)
(* meddled with, and what a task of a model comes to, by the runs that the *)
(* ledger holds.                                                           *)
(***************************************************************************)
EXTENDS Allowing, Configuring, Looking, Sizing, TasksProofs, SequenceTheorems

\* The task that is asked about next has a cost of two figures, or none.
LEMMA NextCost ==
    ASSUME TypeOK, Waits
    PROVE  LET cost == standing.pending[at].cost
           IN  cost = NoFigure \/ (cost[1] \in Nat /\ cost[2] \in Nat)
<1> DEFINE task == standing.pending[at]
<1>1. standing \in Standings /\ standing \in Figures /\ at \in Nat \ {0}
    BY StandingsAssumption DEF TypeOK
<1>2. standing.pending \in Seq([cost : Seq(Nat), lasts : Seq(Nat)])
    BY <1>1 DEF Figures
<1>3. at \in 1..Len(standing.pending) /\ at \in DOMAIN standing.pending
    BY <1>1, <1>2 DEF Waits
<1>4. task.cost \in Seq(Nat) /\ Len(task.cost) \in {0, 2}
    <2>1. standing.pending[at] \in [cost : Seq(Nat), lasts : Seq(Nat)]
        BY <1>2, <1>3, ElementOfSeq, Zenon
    <2>2. Len(standing.pending[at].cost) \in {0, 2}
        BY <1>1, <1>3, StandingsAssumption
    <2> QED
        BY <2>1, <2>2
<1>5. CASE Len(task.cost) = 0
    BY <1>4, <1>5 DEF NoFigure
<1>6. CASE Len(task.cost) = 2
    <2>1. 1 \in DOMAIN task.cost /\ 2 \in DOMAIN task.cost
        BY <1>4, <1>6
    <2> QED
        BY <1>4, <2>1
<1> QED
    BY <1>4, <1>5, <1>6

\* What the next task is given is there to give.
LEMMA CeilingWithinFree ==
    ASSUME TypeOK, Waits
    PROVE  Ceiling \in Nat /\ Ceiling <= free
<1>1. free \in Nat /\ Alone \in BOOLEAN
    BY DEF TypeOK, Alone
<1>2. /\ SetAside(standing.pending[at], free, Alone) \in Nat
      /\ SetAside(standing.pending[at], free, Alone) <= free
    BY <1>1, NextCost, SetAsideWithinFree DEF Costed
<1> QED
    BY <1>1, <1>2 DEF Ceiling, NothingAside

----------------------------------------------------------------------------

\* Before the round nothing is handed out and everything is left.
LEMMA InitInductive == Init => Inductive
<1> SUFFICES ASSUME Init PROVE Inductive
    OBVIOUS
<1>1. standing \in Standings /\ free = Room(standing) /\ handed = 0 /\ at = 1
    BY DEF Init
<1>2. Room(standing) \in Nat
    BY <1>1, RoomIsLeft, StandingsAssumption DEF Figures
<1> QED
    BY <1>1, <1>2 DEF Inductive, TypeOK, Balanced

\* What is handed out is taken from what is left.
LEMMA StepInductive == Inductive /\ [Next]_vars => Inductive'
<1> SUFFICES ASSUME Inductive, [Next]_vars PROVE Inductive'
    OBVIOUS
<1>1. standing \in Standings /\ at \in Nat \ {0} /\ free \in Nat /\ handed \in Nat
      /\ handed + free = Room(standing)
    BY DEF Inductive, TypeOK, Balanced
<1>2. CASE Give
    <2>1. /\ standing' = standing
          /\ at' = at + 1
          /\ free' = free - Ceiling
          /\ handed' = handed + Ceiling
        BY <1>2 DEF Give
    <2>2. Ceiling \in Nat /\ Ceiling <= free
        BY <1>2, CeilingWithinFree DEF Give, Inductive
    <2>3. free' \in Nat /\ handed' \in Nat /\ handed' + free' = handed + free
        BY <1>1, <2>1, <2>2
    <2>4. Room(standing') = Room(standing)
        BY <2>1
    <2> QED
        BY <1>1, <2>1, <2>3, <2>4 DEF Inductive, TypeOK, Balanced
<1>3. CASE PassOver
    BY <1>1, <1>3 DEF PassOver, Inductive, TypeOK, Balanced
<1>4. CASE Break
    <2>1. Len(standing.pending) \in Nat
        BY <1>1, StandingsAssumption DEF Figures
    <2> QED
        BY <1>1, <1>4, <2>1 DEF Break, Inductive, TypeOK, Balanced
<1>5. CASE UNCHANGED vars
    BY <1>1, <1>5 DEF vars, Inductive, TypeOK, Balanced
<1> QED
    BY <1>2, <1>3, <1>4, <1>5 DEF Next

\* What is left is not less than nothing.
LEMMA InductiveIsWithinRoom == Inductive => WithinRoom
<1> SUFFICES ASSUME Inductive PROVE handed <= Room(standing)
    BY DEF WithinRoom
<1>1. handed \in Nat /\ free \in Nat /\ handed + free = Room(standing)
    BY DEF Inductive, TypeOK, Balanced
<1> QED
    BY <1>1

----------------------------------------------------------------------------

\* What is handed out and what is left are what there was, at every turn of
\* the loop.
THEOREM AllowingInductive == Spec => []Inductive
BY InitInductive, StepInductive, PTL DEF Spec

\* One round of `allow` holds the session to what it declared, however many
\* tasks wait and whatever they are expected to cost
\* (core/domain/supervision.rs:97-98).
THEOREM AllowingWithinRoom == Spec => []WithinRoom
BY InductiveIsWithinRoom, AllowingInductive, PTL

----------------------------------------------------------------------------
(* The round against `allow`, and what it leaves. *)

\* What a task is given, alone or not.
LEMMA AllowanceIs ==
    ASSUME NEW st, NEW task, NEW m, NEW n, NEW single \in BOOLEAN,
           single <=> (st.running = 0 /\ n = 0)
    PROVE  Allowance(st, task, m, n) =
               IF FitsTheClock(st, task) /\ FitsTheBudget(st, task, single)
               THEN SetAside(task, m, single) ELSE NothingAside
<1>1. (st.running = 0 /\ n = 0) = single
    OBVIOUS
<1> QED
    BY <1>1, Zenon DEF Allowance

LEMMA AllowanceBeside ==
    ASSUME NEW st, NEW task, NEW m
    PROVE  Allowance(st, task, m, 1) =
               IF FitsTheClock(st, task) /\ FitsTheBudget(st, task, FALSE)
               THEN SetAside(task, m, FALSE) ELSE NothingAside
<1>1. FALSE <=> (st.running = 0 /\ 1 = 0)
    OBVIOUS
<1> QED
    BY <1>1, AllowanceIs, Zenon

\* What is not set aside out of more is not out of less.
LEMMA LessAllowsNoMore ==
    ASSUME NEW st, NEW task, Costed(task), NEW m \in Nat, NEW n \in Nat, n <= m,
           Allowance(st, task, m, 1) = NothingAside
    PROVE  Allowance(st, task, n, 1) = NothingAside
<1>1. SetAside(task, m, FALSE) = NothingAside => SetAside(task, n, FALSE) = NothingAside
    BY DEF SetAside, NothingAside, AtLeastOne, Costed
<1>2. /\ Allowance(st, task, m, 1) =
             IF FitsTheClock(st, task) /\ FitsTheBudget(st, task, FALSE)
             THEN SetAside(task, m, FALSE) ELSE NothingAside
      /\ Allowance(st, task, n, 1) =
             IF FitsTheClock(st, task) /\ FitsTheBudget(st, task, FALSE)
             THEN SetAside(task, n, FALSE) ELSE NothingAside
    BY AllowanceBeside, Zenon
<1> QED
    BY <1>1, <1>2, Zenon

\* What a task is not given alone it is not given beside another.
LEMMA NoMoreBeside ==
    ASSUME NEW st, NEW task, Costed(task), NEW m \in Nat, m # 0, NEW n,
           Allowance(st, task, m, n) = NothingAside
    PROVE  Allowance(st, task, m, 1) = NothingAside
<1>1. PICK single \in BOOLEAN : single <=> (st.running = 0 /\ n = 0)
    OBVIOUS
<1>2. Allowance(st, task, m, n) =
          IF FitsTheClock(st, task) /\ FitsTheBudget(st, task, single)
          THEN SetAside(task, m, single) ELSE NothingAside
    BY <1>1, AllowanceIs
<1>3. FitsTheBudget(st, task, FALSE) => FitsTheBudget(st, task, single)
    BY <1>1 DEF FitsTheBudget
<1>4. SetAside(task, m, single) = NothingAside => SetAside(task, m, FALSE) = NothingAside
    BY <1>1 DEF SetAside, NothingAside, AtLeastOne, Costed
<1>5. Allowance(st, task, m, 1) =
          IF FitsTheClock(st, task) /\ FitsTheBudget(st, task, FALSE)
          THEN SetAside(task, m, FALSE) ELSE NothingAside
    BY AllowanceBeside, Zenon
<1> QED
    BY <1>2, <1>3, <1>4, <1>5, Zenon

\* Nothing, so many times over.
Nothings(k) == [i \in 1..k |-> NothingAside]

\* Sequences put one behind the other.
LEMMA InAnyOrder ==
    ASSUME NEW s \in Seq(Nat), NEW t \in Seq(Nat), NEW u \in Seq(Nat)
    PROVE  (s \o t) \o u = s \o (t \o u)
OBVIOUS

LEMMA Joined ==
    ASSUME NEW s \in Seq(Nat), NEW t \in Seq(Nat)
    PROVE  /\ s \o t \in Seq(Nat) /\ Len(s \o t) = Len(s) + Len(t)
           /\ \A i \in 1..Len(s) : (s \o t)[i] = s[i]
           /\ \A i \in 1..Len(t) : (s \o t)[Len(s) + i] = t[i]
OBVIOUS

LEMMA NothingsOneMore ==
    ASSUME NEW given \in Seq(Nat), NEW k \in Nat
    PROVE  Append(given \o Nothings(k), NothingAside) = given \o Nothings(k + 1)
<1>1. Nothings(k) \in Seq(Nat) /\ Nothings(k + 1) \in Seq(Nat) /\ NothingAside \in Nat
    BY DEF Nothings, NothingAside
<1>2. Nothings(k + 1) = Append(Nothings(k), NothingAside)
    BY <1>1 DEF Nothings, NothingAside
<1>3. Nothings(k + 1) = Nothings(k) \o <<NothingAside>>
    BY <1>1, <1>2, AppendIsConcat
<1>4. given \o Nothings(k) \in Seq(Nat) /\ <<NothingAside>> \in Seq(Nat)
    BY <1>1
<1>5. Append(given \o Nothings(k), NothingAside) = (given \o Nothings(k)) \o <<NothingAside>>
    BY <1>1, <1>4, AppendIsConcat
<1>6. (given \o Nothings(k)) \o <<NothingAside>> = given \o (Nothings(k) \o <<NothingAside>>)
    BY <1>1, <1>4, InAnyOrder
<1> QED
    BY <1>3, <1>5, <1>6

\* Where nothing is left, the rest of the round gives nothing.
NothingLeft(after, j) ==
    after[j].free = 0 /\ after[j].given \in Nat /\ after[j].list \in Seq(Nat)
SameWithNothings(after, j, n) ==
    /\ after[n].free = 0 /\ after[n].given = after[j].given
    /\ after[n].list = after[j].list \o Nothings(n - j)

LEMMA NothingFurther ==
    ASSUME NEW st, NEW n \in Nat, NEW after, Round(st, after, n), NEW j \in 0..n,
           NothingLeft(after, j)
    PROVE  SameWithNothings(after, j, n)
<1> USE DEF NothingLeft
<1> DEFINE P(k) == j + k <= n =>
                     /\ after[j+k].free = 0 /\ after[j+k].given = after[j].given
                     /\ after[j+k].list = after[j].list \o Nothings(k)
           Known == {k \in Nat : P(k)}
<1>1. \A i \in 1..n : after[i] = Turn(st, after[i-1], i)
    BY DEF Round
<1>2. P(0)
    <2>1. j + 0 = j
        OBVIOUS
    <2>2. Nothings(0) = <<>>
        BY DEF Nothings
    <2>3. after[j].list \o <<>> = after[j].list
        OBVIOUS
    <2> QED
        BY <2>1, <2>2, <2>3
<1>3. ASSUME NEW k \in Nat, P(k) PROVE P(k + 1)
    <2> SUFFICES ASSUME j + (k + 1) <= n
                 PROVE  LET i == j + (k + 1)
                        IN  /\ after[i].free = 0 /\ after[i].given = after[j].given
                            /\ after[i].list = after[j].list \o Nothings(k + 1)
        OBVIOUS
    <2> DEFINE i == j + (k + 1)
    <2>1. j + k <= n /\ i \in 1..n /\ i - 1 = j + k
        OBVIOUS
    <2> HIDE DEF i
    <2>2. after[i] = Turn(st, after[j+k], i)
        BY <1>1, <2>1
    <2>3. /\ after[j+k].free = 0 /\ after[j+k].given = after[j].given
          /\ after[j+k].list = after[j].list \o Nothings(k)
        BY <1>3, <2>1
    <2>4. GivenTo(st, after[j+k], i) = NothingAside
        BY <2>3 DEF GivenTo
    <2>5. /\ after[i].free = after[j+k].free - NothingAside
          /\ after[i].given = after[j+k].given + 0
          /\ after[i].list = Append(after[j+k].list, NothingAside)
        BY <2>2, <2>4 DEF Turn
    <2>6. after[i].list = after[j].list \o Nothings(k + 1)
        BY <2>3, <2>5, NothingsOneMore
    <2>7. after[i].free = 0 /\ after[i].given = after[j].given
        BY <2>3, <2>5 DEF NothingAside
    <2> QED
        BY <2>6, <2>7 DEF i
<1> HIDE DEF P
<1>4. 0 \in Known /\ Known \in SUBSET Nat /\ \A k \in Known : k + 1 \in Known
    BY <1>2, <1>3
<1> HIDE DEF Known
<1>5. Known = Nat
    BY <1>4, EveryNumber
<1> DEFINE m == n - j
<1>6. m \in Nat /\ j + m = n /\ n <= n
    OBVIOUS
<1>7. P(m)
    BY <1>5, <1>6 DEF Known
<1> HIDE DEF m
<1>8. /\ after[n].free = 0 /\ after[n].given = after[j].given
      /\ after[n].list = after[j].list \o Nothings(m)
    BY <1>6, <1>7 DEF P
<1> QED
    BY <1>8 DEF m, SameWithNothings

\* How far the round has come of what `allow` does.
AsAllow ==
    \A after : Round(standing, after, Len(standing.pending)) =>
        /\ after[at - 1].free = free /\ after[at - 1].list = list
        /\ after[at - 1].given \in Nat /\ (after[at - 1].given = 0 <=> Given = {})

\* The figures of a standing there may be.
LEMMA StandingCounts ==
    ASSUME TypeOK
    PROVE  /\ standing \in Standings /\ Counts(standing) /\ standing.running \in Nat
           /\ Len(standing.pending) \in Nat
<1>1. standing \in Standings /\ standing \in Figures
    BY StandingsAssumption DEF TypeOK
<1>2. /\ standing.declared \in Nat /\ standing.spent \in Nat /\ standing.booked \in Nat
      /\ standing.running \in Nat
      /\ standing.pending \in Seq([cost : Seq(Nat), lasts : Seq(Nat)])
    BY <1>1 DEF Figures
<1>3. ASSUME NEW i \in 1..Len(standing.pending) PROVE Costed(standing.pending[i])
    <2> DEFINE cost == standing.pending[i].cost
    <2>1. standing.pending[i] \in [cost : Seq(Nat), lasts : Seq(Nat)]
        BY <1>2, <1>3, ElementOfSeq, Zenon
    <2>2. Len(standing.pending[i].cost) \in {0, 2}
        BY <1>1, <1>2, <1>3, StandingsAssumption
    <2>3. cost \in Seq(Nat) /\ Len(cost) \in {0, 2}
        BY <2>1, <2>2
    <2>4. cost = <<>> \/ (cost[1] \in Nat /\ cost[2] \in Nat)
        <3> HIDE DEF cost
        <3>1. CASE Len(cost) = 0
            BY <2>3, <3>1
        <3>2. CASE Len(cost) = 2
            <4>1. 1 \in DOMAIN cost /\ 2 \in DOMAIN cost
                BY <2>3, <3>2
            <4> QED
                BY <2>3, <4>1
        <3> QED
            BY <2>3, <3>1, <3>2
    <2> QED
        BY <2>4 DEF Costed, NoFigure
<1> QED
    BY <1>1, <1>2, <1>3 DEF Counts

\* The loop asks what `allow` asks.
LEMMA CeilingIsAllowance ==
    ASSUME NEW given, given = 0 <=> Given = {}
    PROVE  Ceiling = Allowance(standing, standing.pending[at], free, given)
<1>1. PICK single \in BOOLEAN : single <=> Alone
    BY DEF Alone
<1>2. single <=> (standing.running = 0 /\ given = 0)
    BY <1>1 DEF Alone
<1>3. Alone = single
    BY <1>1 DEF Alone
<1>4. Ceiling = IF /\ FitsTheClock(standing, standing.pending[at])
                   /\ FitsTheBudget(standing, standing.pending[at], single)
                THEN SetAside(standing.pending[at], free, single)
                ELSE NothingAside
    BY <1>3, Zenon DEF Ceiling
<1>5. Allowance(standing, standing.pending[at], free, given) =
          IF /\ FitsTheClock(standing, standing.pending[at])
             /\ FitsTheBudget(standing, standing.pending[at], single)
          THEN SetAside(standing.pending[at], free, single)
          ELSE NothingAside
    BY <1>2, AllowanceIs
<1> QED
    BY <1>4, <1>5

\* What was given, with one more asked about.
LEMMA GivenOneMore ==
    ASSUME NEW c \in Nat, list \in Seq(Nat), list' = Append(list, c)
    PROVE  Given' = IF c = NothingAside THEN Given ELSE Given \cup {Len(list) + 1}
<1>1. /\ DOMAIN list = 1..Len(list) /\ DOMAIN list' = 1..(Len(list) + 1) /\ Len(list) \in Nat
      /\ \A i \in 1..Len(list) : list'[i] = list[i]
      /\ list'[Len(list) + 1] = c
    OBVIOUS
<1>2. Given' = {i \in 1..(Len(list) + 1) : list'[i] # NothingAside}
    BY <1>1 DEF Given
<1>3. Given = {i \in 1..Len(list) : list[i] # NothingAside}
    BY <1>1 DEF Given
<1> QED
    BY <1>1, <1>2, <1>3

\* One turn of the loop is one turn of the round.
LEMMA TurnFollows ==
    ASSUME Inductive, PassedOver, AsAllow, Waits, free # 0,
           list' = Append(list, Ceiling), free' = free - Ceiling, at' = at + 1,
           UNCHANGED standing
    PROVE  PassedOver' /\ AsAllow'
<1> DEFINE n == Len(standing.pending)
<1>1. /\ Counts(standing) /\ n \in Nat /\ at \in 1..n /\ free \in Nat /\ list \in Seq(Nat)
      /\ Len(list) = at - 1
    BY StandingCounts DEF Inductive, TypeOK, PassedOver, Waits
<1>2. Ceiling \in Nat /\ Ceiling <= free
    BY CeilingWithinFree DEF Inductive
<1> DEFINE c == Ceiling
<1>3. c \in Nat /\ c <= free /\ list' = Append(list, c) /\ free' = free - c
    BY <1>2
<1>4. Costed(standing.pending[at])
    BY <1>1 DEF Counts
<1>5. c = NothingAside => Allowance(standing, standing.pending[at], free, 1) = NothingAside
    <2>1. PICK given : given = 0 <=> Given = {}
        <3>1. 0 = 0 <=> TRUE
            OBVIOUS
        <3>2. 1 = 0 <=> FALSE
            OBVIOUS
        <3> QED
            BY <3>1, <3>2
    <2>2. c = Allowance(standing, standing.pending[at], free, given)
        BY <2>1, CeilingIsAllowance
    <2> HIDE DEF c
    <2> QED
        BY <1>1, <1>4, <2>2, NoMoreBeside
<1>6. ASSUME NEW after, Round(standing, after, n)
      PROVE  /\ after[at].free = free - c /\ after[at].list = Append(list, c)
             /\ after[at].given \in Nat
             /\ after[at].given = 0 <=> Given = {} /\ c = NothingAside
    <2>1. /\ after[at - 1].free = free /\ after[at - 1].list = list
          /\ after[at - 1].given \in Nat /\ (after[at - 1].given = 0 <=> Given = {})
        BY <1>6 DEF AsAllow
    <2>2. after[at] = Turn(standing, after[at - 1], at)
        <3>1. after = [i \in 0..n |-> IF i = 0 THEN BeforeAny(standing)
                                                  ELSE Turn(standing, after[i - 1], i)]
            BY <1>6 DEF Round
        <3> HIDE DEF n
        <3>2. at \in 0..n /\ at # 0
            BY <1>1
        <3> QED
            BY <3>1, <3>2
    <2>3. GivenTo(standing, after[at - 1], at) = c
        BY <2>1, CeilingIsAllowance DEF GivenTo
    <2> HIDE DEF c
    <2>4. /\ after[at].free = free - c /\ after[at].list = Append(list, c)
          /\ after[at].given = after[at - 1].given + (IF c = NothingAside THEN 0 ELSE 1)
        BY <2>1, <2>2, <2>3 DEF Turn
    <2> QED
        BY <2>1, <2>4
<1> HIDE DEF c
<1>7. /\ DOMAIN list = 1..(at - 1) /\ DOMAIN list' = 1..at
      /\ \A i \in 1..(at - 1) : list'[i] = list[i]
      /\ list'[at] = c /\ list' \in Seq(Nat) /\ Len(list') = at
    BY <1>1, <1>3
<1>8. ASSUME NEW i \in 1..at, list'[i] = NothingAside
      PROVE  \/ free' = 0
             \/ Allowance(standing, standing.pending[i], free', 1) = NothingAside
    <2>1. Costed(standing.pending[i])
        <3>1. i \in 1..n
            BY <1>1
        <3> QED
            BY <1>1, <3>1 DEF Counts
    <2>2. CASE i = at
        <3>1. c = NothingAside
            BY <1>7, <1>8, <2>2
        <3>2. free' = free
            BY <1>1, <1>3, <3>1 DEF NothingAside
        <3> QED
            BY <1>5, <2>2, <3>1, <3>2
    <2>3. CASE i # at
        <3>1. i \in DOMAIN list /\ list[i] = NothingAside
            BY <1>1, <1>7, <1>8, <2>3
        <3>2. Allowance(standing, standing.pending[i], free, 1) = NothingAside
            BY <3>1 DEF PassedOver
        <3>3. free' \in Nat /\ free' <= free
            BY <1>1, <1>3
        <3> QED
            BY <1>1, <2>1, <3>2, <3>3, LessAllowsNoMore
    <2> QED
        BY <2>2, <2>3
<1>9. PassedOver'
    BY <1>1, <1>7, <1>8 DEF PassedOver
<1>10. Given' = {} <=> Given = {} /\ c = NothingAside
    BY <1>1, <1>3, GivenOneMore
<1>11. AsAllow'
    BY <1>1, <1>3, <1>6, <1>10 DEF AsAllow
<1> QED
    BY <1>9, <1>11

\* Breaking off is going through the rest with nothing to give.
LEMMA BreakFollows ==
    ASSUME Inductive, PassedOver, AsAllow, Break
    PROVE  PassedOver' /\ AsAllow'
<1> DEFINE n == Len(standing.pending)
           k == n - at + 1
<1>1. /\ n \in Nat /\ at \in 1..n /\ list \in Seq(Nat) /\ Len(list) = at - 1
      /\ k \in Nat /\ at - 1 \in 0..n /\ n - (at - 1) = k /\ free = 0
    BY StandingCounts DEF Inductive, TypeOK, PassedOver, Waits, Break
<1>2. list' = list \o Nothings(k) /\ at' = n + 1 /\ UNCHANGED <<standing, free>>
    BY DEF Break, Nothings
<1> HIDE DEF k
<1>3. Nothings(k) \in Seq(Nat) /\ Len(Nothings(k)) = k
      /\ \A i \in 1..k : Nothings(k)[i] = NothingAside
    BY <1>1 DEF Nothings, NothingAside
<1>4. /\ list' \in Seq(Nat) /\ Len(list') = Len(list) + k
      /\ \A i \in 1..Len(list) : list'[i] = list[i]
      /\ \A i \in 1..k : list'[Len(list) + i] = NothingAside
    <2> DEFINE q == Nothings(k)
    <2>1. list' = list \o q /\ q \in Seq(Nat) /\ Len(q) = k
          /\ \A i \in 1..k : q[i] = NothingAside
        BY <1>2, <1>3
    <2> HIDE DEF q
    <2>2. /\ list \o q \in Seq(Nat) /\ Len(list \o q) = Len(list) + Len(q)
          /\ \A i \in 1..Len(list) : (list \o q)[i] = list[i]
          /\ \A i \in 1..Len(q) : (list \o q)[Len(list) + i] = q[i]
        BY <1>1, <2>1, Joined
    <2> QED
        BY <2>1, <2>2
<1>5. Len(list') = n
    <2>1. at - 1 + k = n
        BY <1>1 DEF k
    <2> QED
        BY <1>1, <1>4, <2>1
<1>6. PassedOver'
    <2>1. Len(standing'.pending) = n /\ n + 1 - 1 = n /\ free' = 0
        BY <1>1, <1>2
    <2> HIDE DEF n
    <2>2. at' <= n + 1 /\ Len(list') = at' - 1
        BY <1>1, <1>2, <1>5, <2>1
    <2> QED
        BY <1>4, <2>1, <2>2 DEF PassedOver
<1>7. Given' = Given
    <2>1. \A i \in (Len(list) + 1)..(Len(list) + k) : list'[i] = NothingAside
        <3>1. ASSUME NEW i \in (Len(list) + 1)..(Len(list) + k)
              PROVE  list'[i] = NothingAside
            <4> DEFINE j == i - Len(list)
            <4>1. j \in 1..k /\ Len(list) + j = i
                BY <1>1
            <4> QED
                BY <1>4, <4>1
        <3> QED
            BY <3>1
    <2>2. DOMAIN list = 1..Len(list) /\ DOMAIN list' = 1..(Len(list) + k) /\ Len(list) \in Nat
        BY <1>1, <1>4
    <2>3. Given' = {i \in 1..(Len(list) + k) : list'[i] # NothingAside}
        BY <2>2 DEF Given
    <2>4. Given = {i \in 1..Len(list) : list[i] # NothingAside}
        BY <2>2 DEF Given
    <2> QED
        BY <1>1, <1>4, <2>1, <2>2, <2>3, <2>4
<1>8. ASSUME NEW after, Round(standing, after, n)
      PROVE  /\ after[n].free = 0 /\ after[n].list = list'
             /\ after[n].given \in Nat /\ (after[n].given = 0 <=> Given = {})
    <2>1. /\ after[at - 1].free = free /\ after[at - 1].list = list
          /\ after[at - 1].given \in Nat /\ (after[at - 1].given = 0 <=> Given = {})
        BY <1>8 DEF AsAllow
    <2> DEFINE j == at - 1
    <2> HIDE DEF n
    <2>2. /\ after[j].free = 0 /\ after[j].given \in Nat /\ after[j].list \in Seq(Nat)
          /\ j \in 0..n /\ n - j = k
        BY <1>1, <2>1
    <2>3. after[j].list = list /\ (after[j].given = 0 <=> Given = {})
        BY <2>1
    <2> HIDE DEF j
    <2>4. /\ after[n].free = 0 /\ after[n].given = after[j].given
          /\ after[n].list = after[j].list \o Nothings(n - j)
        <3>1. n \in Nat /\ j \in 0..n
            BY <1>1, <2>2
        <3>2. NothingLeft(after, j)
            BY <2>2 DEF NothingLeft
        <3>3. SameWithNothings(after, j, n)
            BY <1>8, <3>1, <3>2, NothingFurther, Zenon
        <3> QED
            BY <3>3 DEF SameWithNothings
    <2> QED
        BY <1>2, <2>2, <2>3, <2>4
<1>9. AsAllow'
    <2>1. n + 1 - 1 = n
        BY <1>1
    <2> QED
        BY <1>1, <1>2, <1>7, <1>8, <2>1 DEF AsAllow
<1> QED
    BY <1>6, <1>9

LEMMA StepFollows ==
    ASSUME Inductive, PassedOver, AsAllow, [Next]_vars
    PROVE  PassedOver' /\ AsAllow'
<1>1. CASE Give
    BY <1>1, TurnFollows DEF Give
<1>2. CASE PassOver
    <2>1. free - Ceiling = free
        BY <1>2 DEF PassOver, NothingAside, Inductive, TypeOK
    <2> QED
        BY <1>2, <2>1, TurnFollows DEF PassOver
<1>3. CASE Break
    BY <1>3, BreakFollows
<1>4. CASE UNCHANGED vars
    BY <1>4 DEF vars, PassedOver, AsAllow, Given
<1> QED
    BY <1>1, <1>2, <1>3, <1>4 DEF Next

LEMMA InitFollows ==
    ASSUME Init
    PROVE  PassedOver /\ AsAllow
<1>1. /\ standing \in Standings /\ standing \in Figures /\ at = 1 /\ list = <<>>
      /\ free = Room(standing)
    BY StandingsAssumption DEF Init
<1>2. Len(standing.pending) \in Nat
    BY <1>1 DEF Figures
<1>3. PassedOver
    BY <1>1, <1>2 DEF PassedOver
<1>4. Given = {}
    BY <1>1 DEF Given
<1>5. ASSUME NEW after, Round(standing, after, Len(standing.pending))
      PROVE  after[0] = BeforeAny(standing)
    BY <1>2, <1>5 DEF Round
<1>6. AsAllow
    BY <1>1, <1>4, <1>5 DEF AsAllow, BeforeAny
<1> QED
    BY <1>3, <1>6

\* A session that has a run going, or for which the list starts one, or none:
\* in the last case the decision is to stop.
LEMMA StopsWithNothing ==
    ASSUME list = Allow(standing), standing.running = 0, Given = {}
    PROVE  Decide(standing).kind # "start"
<1> DEFINE none == [i \in DOMAIN standing.pending |-> NothingAside]
           starting == IF standing.time_left = 0 THEN none ELSE Allow(standing)
<1>1. Starts(starting) = {}
    <2>1. Starts(none) = {}
        BY DEF Starts
    <2>2. Starts(list) = {}
        BY DEF Starts, Given
    <2> QED
        BY <2>1, <2>2
<1>2. \/ standing.running # 0 \/ Starts(starting) # {}
      \/ \E why : Decide(standing) = Stop(why)
    BY Zenon DEF Decide
<1>3. \A why : Stop(why).kind = "stop"
    BY DEF Stop
<1> QED
    BY <1>1, <1>2, <1>3

\* No task that is passed over is one that what is left would cover, the loop
\* comes to what `allow` says, and a session that is carried on has a run going
\* or starts one, however many tasks wait and whatever they are expected to
\* cost (core/domain/supervision.rs:105-106 and 275-276).
THEOREM AllowingLeavesNobodyBehind == Spec => []NobodyLeftBehind
<1>1. Init => PassedOver /\ AsAllow
    BY InitFollows
<1>2. Inductive /\ PassedOver /\ AsAllow /\ [Next]_vars => PassedOver' /\ AsAllow'
    BY StepFollows
<1>3. Inductive /\ PassedOver /\ AsAllow => NobodyLeftBehind
    <2> SUFFICES ASSUME Inductive, PassedOver, AsAllow, Done PROVE NobodyLeftBehind
        BY DEF NobodyLeftBehind
    <2>1. /\ standing.running \in Nat /\ Len(standing.pending) \in Nat
          /\ at - 1 = Len(standing.pending)
        BY StandingCounts DEF Inductive, TypeOK, PassedOver, Done, Waits
    <2>2. list = Allow(standing)
        <3>1. PICK after : /\ Round(standing, after, Len(standing.pending))
                           /\ Allow(standing) = after[Len(standing.pending)].list
            BY <2>1, AllowIsRound
        <3> QED
            BY <2>1, <3>1 DEF AsAllow
    <2>3. ASSUME NEW i \in DOMAIN list, list[i] = NothingAside
          PROVE  \/ free = 0
                 \/ Allowance(standing, standing.pending[i], free, 1) = NothingAside
        BY <2>3 DEF PassedOver
    <2>4. Decide(standing).kind = "start" => standing.running > 0 \/ Given # {}
        BY <2>1, <2>2, StopsWithNothing
    <2> QED
        BY <2>2, <2>3, <2>4 DEF NobodyLeftBehind
<1> QED
    BY <1>1, <1>2, <1>3, AllowingInductive, PTL DEF Spec

----------------------------------------------------------------------------
(* Looks at the limit. *)

LookStage == {"none", "laid", "watching", "ending", "over"}

\* What a file is read as is on a line of it.
LEMMA KeptIsThere ==
    ASSUME LookTypeOK, Kept # Unavailable
    PROVE  \E i \in DOMAIN written : written[i] # NewLine /\ Kept = written[i]
<1> DEFINE lines == {i \in DOMAIN written : IsLine(i)}
<1>1. Len(written) \in Nat /\ DOMAIN written = 1..Len(written)
    BY DEF LookTypeOK
<1>2. Kept = IF lines = {} THEN Unavailable
             ELSE written[CHOOSE i \in lines : \A j \in lines : j <= i]
    BY DEF Kept
<1>3. \A i \in lines : i \in DOMAIN written /\ written[i] # NewLine
    BY DEF IsLine
<1>4. lines \in SUBSET (0..Len(written))
    BY <1>1
<1> HIDE DEF lines
<1>5. lines # {}
    BY <1>2
<1>6. \E i \in lines : \A j \in lines : j <= i
    BY <1>1, <1>4, <1>5, GreatestNumber
<1>7. (CHOOSE i \in lines : \A j \in lines : j <= i) \in lines
    BY <1>6
<1> QED
    BY <1>2, <1>3, <1>5, <1>7

LEMMA LookInitInductive == LookInit => LookInductive
<1> SUFFICES ASSUME LookInit PROVE LookInductive
    OBVIOUS
<1>1. LookTypeOK
    BY DEF LookInit, LookTypeOK
<1>2. NothingBefore /\ FreshWhileGoing /\ FreshByItself
    BY DEF LookInit, NothingBefore, FreshWhileGoing, FreshByItself
<1> QED
    BY <1>1, <1>2 DEF LookInductive

\* A step in which no look goes on.
LEMMA LooksStand ==
    ASSUME LookInductive, LookTypeOK', UNCHANGED <<stage, reading, began, alone>>,
           \A l \in Look : stage[l] \in {"none", "laid"} => vendor'[l] = "none" /\ pen'[l] = "idle",
           \A n \in Nat : NoneBelow(n) => NoneBelow(n)'
    PROVE  LookInductive'
<1>1. NothingBefore' /\ FreshByItself'
    BY DEF LookInductive, NothingBefore, FreshByItself
<1>2. \A l \in Look : began[l] \in Nat
    BY DEF LookInductive, LookTypeOK
<1>3. FreshWhileGoing'
    BY <1>2 DEF LookInductive, FreshWhileGoing
<1> QED
    BY <1>1, <1>3 DEF LookInductive

\* A look that goes on as far as `to`, having read nothing or what is there.
LEMMA LookGoesOn ==
    ASSUME LookInductive, NEW l \in Look, NEW to \in {"watching", "ending", "over"},
           stage' = [stage EXCEPT ![l] = to],
           UNCHANGED <<used, written, figure, pen, began, alone>>,
           vendor' \in [Look -> {"none", "starting", "asking", "waiting", "answered", "gone"}],
           \A m \in Look : vendor'[m] = "answered" => vendor[m] = "answered",
           \A m \in Look \ {l} : vendor'[m] = vendor[m],
           \/ reading' = reading /\ stage[l] \in {"laid", "ending"}
              /\ (to = "watching" => stage[l] = "laid")
           \/ reading' = [reading EXCEPT ![l] = Unavailable] /\ to = "over"
           \/ reading' = [reading EXCEPT ![l] = Kept] /\ stage[l] = "watching" /\ to = "ending"
    PROVE  LookInductive'
<1>1. LookTypeOK /\ NothingBefore /\ FreshWhileGoing /\ FreshByItself
    BY DEF LookInductive
<1>2. /\ stage \in [Look -> LookStage] /\ stage' \in [Look -> LookStage] /\ stage'[l] = to
      /\ \A m \in Look \ {l} : stage'[m] = stage[m] /\ reading'[m] = reading[m]
      /\ DOMAIN reading = Look /\ DOMAIN reading' = Look
    BY <1>1 DEF LookTypeOK, LookStage
<1>3. LookTypeOK'
    BY <1>1, <1>2 DEF LookTypeOK, LookStage
<1>4. \A n \in Nat : NoneBelow(n) => NoneBelow(n)'
    BY DEF NoneBelow
<1>5. NothingBefore'
    BY <1>1, <1>2 DEF NothingBefore
<1>6. \A m \in Look : began[m] \in Nat
    BY <1>1 DEF LookTypeOK
<1>7. ASSUME NEW m \in Look, stage'[m] \in {"laid", "watching", "ending"}, alone[m]
      PROVE  NoneBelow(began[m])'
    <2>1. stage[m] \in {"laid", "watching", "ending"}
        BY <1>2, <1>7
    <2>2. NoneBelow(began[m])
        BY <1>1, <1>7, <2>1 DEF FreshWhileGoing
    <2> QED
        BY <1>4, <1>6, <2>2
<1>8. FreshWhileGoing'
    BY <1>7 DEF FreshWhileGoing
<1>9. ASSUME NEW m \in Look, reading'[m] \notin {NoReading, Unavailable}, alone[m]
      PROVE  reading'[m] >= began[m]
    <2>1. CASE reading'[m] = reading[m]
        BY <1>1, <1>9, <2>1 DEF FreshByItself
    <2>2. CASE m = l /\ reading' = [reading EXCEPT ![l] = Kept] /\ stage[l] = "watching"
        <3>1. reading'[m] = Kept /\ Kept # Unavailable
            BY <1>2, <1>9, <2>2
        <3>2. PICK i \in DOMAIN written : written[i] # NewLine /\ Kept = written[i]
            BY <1>1, <3>1, KeptIsThere
        <3>3. NoneBelow(began[m])
            BY <1>1, <1>9, <2>2 DEF FreshWhileGoing
        <3> QED
            BY <3>1, <3>2, <3>3 DEF NoneBelow
    <2> QED
        BY <1>2, <1>9, <2>1, <2>2
<1>10. FreshByItself'
    BY <1>9 DEF FreshByItself
<1> QED
    BY <1>3, <1>5, <1>8, <1>10 DEF LookInductive

\* A look that begins takes away what is in the file; where it is alone, no
\* program that was started before may write into it any more.
LEMMA LayOutKeeps ==
    ASSUME LookInductive, NEW l \in Look, LayOut(l)
    PROVE  LookInductive'
<1>1. LookTypeOK /\ NothingBefore /\ FreshWhileGoing /\ FreshByItself
    BY DEF LookInductive
<1>2. /\ stage[l] = "none" /\ written' = <<>> /\ UNCHANGED <<used, reading>>
      /\ stage' = [stage EXCEPT ![l] = "laid"] /\ began' = [began EXCEPT ![l] = used]
      /\ alone' = Beside(l) /\ UNCHANGED <<vendor, figure, pen>>
    BY DEF LayOut, program
<1>3. LookTypeOK'
    BY <1>1, <1>2 DEF LookTypeOK, Beside
<1>4. stage'[l] = "laid" /\ began'[l] = used
      /\ \A m \in Look \ {l} : stage'[m] = stage[m] /\ began'[m] = began[m]
    BY <1>1, <1>2 DEF LookTypeOK
<1>5. NothingBefore'
    BY <1>1, <1>2, <1>4 DEF NothingBefore
<1>6. \A m \in Look : alone'[m] => alone[m] /\ (m = l \/ stage[m] \in {"none", "over"})
    BY <1>2 DEF Beside
<1>7. ASSUME alone'[l] PROVE NoneBelow(used)'
    <2>1. ASSUME NEW o \in Look PROVE vendor[o] \in {"none", "gone"} /\ pen[o] = "idle"
        <3>1. CASE o = l
            BY <1>1, <1>2, <3>1 DEF NothingBefore
        <3>2. CASE o # l
            BY <1>2, <1>7, <3>2 DEF Beside, AtWork
        <3> QED
            BY <3>1, <3>2
    <2>2. used \in Nat
        BY <1>1 DEF LookTypeOK
    <2> QED
        BY <1>2, <2>1, <2>2 DEF NoneBelow
<1>8. FreshWhileGoing'
    <2>1. ASSUME NEW m \in Look, stage'[m] \in {"laid", "watching", "ending"}, alone'[m]
          PROVE  NoneBelow(began[m])'
        <3>1. m = l
            BY <1>4, <1>6, <2>1
        <3>2. began'[m] = used
            BY <1>4, <3>1
        <3>3. NoneBelow(used)'
            BY <1>7, <2>1, <3>1
        <3> QED
            BY <1>2, <3>2, <3>3 DEF NoneBelow
    <2> QED
        BY <2>1 DEF FreshWhileGoing
<1>9. reading[l] = NoReading
    BY <1>1, <1>2 DEF NothingBefore
<1>10. FreshByItself'
    BY <1>1, <1>2, <1>4, <1>6, <1>9 DEF FreshByItself
<1> QED
    BY <1>3, <1>5, <1>8, <1>10 DEF LookInductive

\* The look's own steps.
LEMMA LookKeeps ==
    ASSUME LookInductive, NEW l \in Look, LookStep(l) \/ CannotStart(l) \/ CannotWatch(l)
    PROVE  LookInductive'
<1>1. /\ vendor \in [Look -> {"none", "starting", "asking", "waiting", "answered", "gone"}]
      /\ stage \in [Look -> LookStage]
    BY DEF LookInductive, LookTypeOK, LookStage
<1>2. CASE StartVendor(l)
    BY <1>1, <1>2, LookGoesOn DEF StartVendor
<1>3. CASE CannotStart(l) \/ CannotWatch(l)
    BY <1>1, <1>3, LookGoesOn DEF CannotStart, CannotWatch, program
<1>4. CASE ReadIt(l) \/ GiveUpLooking(l)
    BY <1>1, <1>4, LookGoesOn DEF ReadIt, GiveUpLooking, Watches, program
<1>5. CASE EndVendor(l)
    BY <1>1, <1>5, LookGoesOn DEF EndVendor
<1>6. CASE TrustIt(l) \/ AskIt(l)
    <2>1. UNCHANGED <<used, written, stage, reading, began, alone>> /\ UNCHANGED program
        BY <1>6 DEF TrustIt, AskIt, Type
    <2>2. \A n \in Nat : NoneBelow(n) => NoneBelow(n)'
        BY <2>1 DEF NoneBelow, program
    <2>3. LookTypeOK'
        BY <2>1 DEF LookInductive, LookTypeOK, program
    <2> QED
        BY <2>1, <2>2, <2>3, LooksStand DEF program, LookInductive, NothingBefore
<1> QED
    BY <1>2, <1>3, <1>4, <1>5, <1>6 DEF LookStep

\* The program's steps: a figure it comes by is how the limit stands then.
LEMMA VendorKeeps ==
    ASSUME LookInductive, NEW l \in Look, VendorStep(l) \/ PutObject(l) \/ PutNewLine(l)
    PROVE  LookInductive'
<1>1. LookTypeOK /\ NothingBefore
    BY DEF LookInductive
<1>2. UNCHANGED <<used, stage, reading, began, alone>>
    BY DEF VendorStep, Screen, Trusted, AnswerComes, BeginLine, VendorEnds, PutObject, PutNewLine,
           PutLine, watching
<1>3. vendor[l] # "none" \/ pen[l] # "idle"
    BY DEF VendorStep, Screen, Trusted, AnswerComes, BeginLine, VendorEnds, PutObject, PutNewLine,
           PutLine, IsUp
<1>4. stage[l] \notin {"none", "laid"}
    BY <1>1, <1>3 DEF NothingBefore
<1>5. CASE Screen(l) \/ Trusted(l) \/ VendorEnds(l)
    <2>1. /\ UNCHANGED <<written, figure, pen>>
          /\ vendor' \in [Look -> {"none", "starting", "asking", "waiting", "answered", "gone"}]
          /\ \A m \in Look : vendor'[m] = "answered" => vendor[m] = "answered"
          /\ \A m \in Look \ {l} : vendor'[m] = vendor[m]
        BY <1>1, <1>5 DEF Screen, Trusted, VendorEnds, LookTypeOK
    <2>2. \A n \in Nat : NoneBelow(n) => NoneBelow(n)'
        BY <1>2, <2>1 DEF NoneBelow
    <2>3. LookTypeOK'
        BY <1>1, <1>2, <2>1 DEF LookTypeOK
    <2> QED
        BY <1>1, <1>2, <1>4, <2>1, <2>2, <2>3, LooksStand DEF NothingBefore
<1>6. CASE AnswerComes(l)
    <2>1. /\ UNCHANGED <<written, pen>> /\ pen[l] \in {"idle", "begun", "put"}
          /\ vendor' = [vendor EXCEPT ![l] = "answered"] /\ figure' = [figure EXCEPT ![l] = used]
        BY <1>1, <1>6 DEF AnswerComes, LookTypeOK
    <2>2. LookTypeOK'
        BY <1>1, <1>2, <2>1 DEF LookTypeOK
    <2>3. \A n \in Nat : NoneBelow(n) => NoneBelow(n)'
        BY <1>1, <1>2, <2>1 DEF NoneBelow, LookTypeOK
    <2> QED
        BY <1>1, <1>2, <1>4, <2>1, <2>2, <2>3, LooksStand DEF NothingBefore, LookTypeOK
<1>7. CASE BeginLine(l)
    <2>1. /\ UNCHANGED <<written, vendor, figure>> /\ vendor[l] = "answered"
          /\ pen' = [pen EXCEPT ![l] = "begun"]
        BY <1>7 DEF BeginLine
    <2>2. LookTypeOK'
        BY <1>1, <1>2, <2>1 DEF LookTypeOK
    <2>3. \A n \in Nat : NoneBelow(n) => NoneBelow(n)'
        BY <1>1, <1>2, <2>1 DEF NoneBelow, LookTypeOK
    <2> QED
        BY <1>1, <1>2, <1>4, <2>1, <2>2, <2>3, LooksStand DEF NothingBefore, LookTypeOK
<1>8. ASSUME NEW piece \in Nat \cup {NewLine}, NEW to \in {"put", "idle"}, pen[l] # "idle",
             pen' = [pen EXCEPT ![l] = to], written' = Append(written, piece),
             UNCHANGED <<vendor, figure>>, piece = NewLine \/ piece = figure[l]
      PROVE  LookInductive'
    <2>1. written \in Seq(Nat \cup {NewLine})
        BY <1>1 DEF LookTypeOK
    <2>2. /\ written' \in Seq(Nat \cup {NewLine}) /\ DOMAIN written' = 1..(Len(written) + 1)
          /\ DOMAIN written = 1..Len(written) /\ Len(written) \in Nat
          /\ \A i \in 1..Len(written) : written'[i] = written[i]
          /\ written'[Len(written) + 1] = piece
        BY <1>8, <2>1
    <2>3. LookTypeOK'
        BY <1>1, <1>2, <1>8, <2>2 DEF LookTypeOK
    <2>4. ASSUME NEW n \in Nat, NoneBelow(n) PROVE NoneBelow(n)'
        <3>1. ASSUME NEW i \in DOMAIN written', written'[i] # NewLine PROVE written'[i] >= n
            <4>1. CASE i = Len(written) + 1
                BY <1>8, <2>2, <2>4, <3>1, <4>1 DEF NoneBelow
            <4>2. CASE i \in DOMAIN written
                BY <2>2, <2>4, <3>1, <4>2 DEF NoneBelow
            <4> QED
                BY <2>2, <4>1, <4>2
        <3>2. \A m \in Look : pen'[m] # "idle" => pen[m] # "idle"
            BY <1>1, <1>8 DEF LookTypeOK
        <3> QED
            BY <1>2, <1>8, <2>4, <3>1, <3>2 DEF NoneBelow
    <2>5. \A m \in Look : stage[m] \in {"none", "laid"} => vendor'[m] = "none" /\ pen'[m] = "idle"
        BY <1>1, <1>4, <1>8 DEF NothingBefore, LookTypeOK
    <2> QED
        BY <1>2, <2>3, <2>4, <2>5, LooksStand
<1>9. CASE PutObject(l)
    <2>1. figure[l] \in Nat
        BY <1>1 DEF LookTypeOK
    <2> QED
        BY <1>8, <1>9, <2>1 DEF PutObject, PutLine
<1>10. CASE PutNewLine(l)
    BY <1>8, <1>10 DEF PutNewLine, PutLine
<1> QED
    BY <1>5, <1>6, <1>7, <1>9, <1>10 DEF VendorStep

LEMMA LimitMovesKeeps ==
    ASSUME LookInductive, LimitMoves
    PROVE  LookInductive'
<1>1. /\ used' = used + 1 /\ used \in Nat
      /\ UNCHANGED <<written, stage, reading, began, alone, vendor, figure, pen>>
    BY DEF LimitMoves, watching, program, LookInductive, LookTypeOK
<1>2. LookTypeOK'
    BY <1>1 DEF LookInductive, LookTypeOK
<1>3. \A n \in Nat : NoneBelow(n) => NoneBelow(n)'
    BY <1>1 DEF NoneBelow
<1> QED
    BY <1>1, <1>2, <1>3, LooksStand DEF LookInductive, NothingBefore

\* Since a look began that nobody has begun another beside, whatever is in the
\* file or may be put into it says how the limit stood then, or later.
THEOREM LookingInductive == LookSpec => []LookInductive
<1>1. LookInductive /\ [LookNext]_lookVars => LookInductive'
    <2> SUFFICES ASSUME LookInductive, [LookNext]_lookVars PROVE LookInductive'
        OBVIOUS
    <2>1. CASE UNCHANGED lookVars
        BY <2>1 DEF lookVars, watching, program, LookInductive, LookTypeOK, NothingBefore,
                    FreshWhileGoing, NoneBelow, FreshByItself
    <2>2. CASE LookNext
        BY <2>2, LimitMovesKeeps, LayOutKeeps, LookKeeps, VendorKeeps DEF LookNext
    <2> QED
        BY <2>1, <2>2
<1> QED
    BY <1>1, LookInitInductive, PTL DEF LookSpec

\* Nothing an earlier look left is read by one that no other is beside, however
\* many looks there are, whatever the vendor's program does and whenever it is
\* killed (adapter/outbound/program/limit.rs:71-118).
THEOREM LookingFreshByItself == LookSpec => []FreshByItself
BY LookingInductive, PTL DEF LookInductive

----------------------------------------------------------------------------
(* What a person chooses. *)

\* What a core starts under does not depend on what it is, only on the file and
\* the definitions there are.
LEMMA StartsStill ==
    ASSUME NEW held, StartsUnder(held), KnownNow \subseteq KnownNow',
           \A v \in KnownNow' : Found(v)'
    PROVE  StartsUnder(held)'
BY DEF StartsUnder, Chosen, PolicyOf

LEMMA SamePlaced ==
    ASSUME placed' = placed
    PROVE  /\ KnownNow' = KnownNow
           /\ \A v : Found(v)' <=> Found(v)
           /\ \A held : StartsUnder(held)' <=> StartsUnder(held)
<1>1. KnownNow' = KnownNow
    BY DEF KnownNow
<1>2. ASSUME NEW v PROVE Found(v)' <=> Found(v)
    BY DEF Found
<1>3. ASSUME NEW held PROVE StartsUnder(held)' <=> StartsUnder(held)
    BY <1>1, <1>2 DEF StartsUnder
<1> QED
    BY <1>1, <1>2, <1>3

\* What `config set` makes of a file that it takes: a core starts under it.
LEMMA SetStarts ==
    ASSUME ConfInductive, ~meddled, up, NEW k \in Asked, NEW word \in Words,
           Setting(k, word), ReadsWhole(file), NEW made,
           made = [j \in DOMAIN file \cup {k} |-> IF j = k THEN word ELSE file[j]]
    PROVE  made \in Writable /\ StartsUnder(made)
<1>1. file \in Writable
    BY DEF ConfInductive, ConfTypeOK, ReadsWhole
<1>2. PICK names \in SUBSET Asked : file \in [names -> Words]
    BY <1>1 DEF Writable
<1>3. made \in [names \cup {k} -> Words]
    BY <1>2
<1>4. made \in Writable
    BY <1>3 DEF Writable
<1>5. \A j \in DOMAIN made : Setting(j, made[j])
    BY <1>2 DEF ReadsWhole
<1>6. made # Broken
    BY <1>4, BrokenAssumption
<1>7. /\ known \subseteq KnownNow /\ ByDefault \in KnownNow
      /\ \A v \in KnownNow : Found(v)
    BY ShippedAssumption DEF ConfInductive, Unmeddled, KnownNow
<1>8. Chosen(made) \in KnownNow
    BY <1>5, <1>7 DEF Chosen, Setting
<1>9. ASSUME NEW j \in DOMAIN Takes PROVE PolicyOf(made)[j] \in Takes[j]
    <2>1. PolicyOf(made)[j] = IF j \in DOMAIN made THEN made[j] ELSE Ships[j]
        BY <1>9 DEF PolicyOf
    <2>2. j # "vendor" /\ Ships[j] \in Takes[j]
        BY <1>9 DEF Takes, Ships, Timing, Pacing, Locking
    <2> QED
        BY <1>5, <2>1, <2>2 DEF Setting
<1> QED
    BY <1>4, <1>6, <1>7, <1>8, <1>9 DEF StartsUnder

LEMMA EmptyWritable == Empty \in Writable
<1>1. Empty \in [{} -> Words]
    BY DEF Empty
<1> QED
    BY <1>1 DEF Writable

LEMMA IdleHandles == IdleHandler \in Handling /\ IdleHandler.at = "idle" /\ IdleHandler.open = "none"
BY EmptyWritable DEF IdleHandler, Handling, Open

\* Whatever is written over whatever, what a file is read as is of its type.
LEMMA MixedIsRead ==
    ASSUME NEW d \in Writable, NEW other \in Writable \cup {Broken, NoCopy}
    PROVE  Mixed(d, other) \subseteq Writable \cup {Broken}
<1> DEFINE under == IF other \in {Broken, NoCopy} THEN Empty ELSE other
<1>1. under \in Writable
    BY EmptyWritable
<1>2. PICK ours \in SUBSET Asked : d \in [ours -> Words]
    BY DEF Writable
<1>3. PICK theirs \in SUBSET Asked : under \in [theirs -> Words]
    BY <1>1 DEF Writable
<1> HIDE DEF under
<1>4. ASSUME NEW names \in SUBSET (DOMAIN d \cup DOMAIN under)
      PROVE  [k \in names |-> IF k \in DOMAIN d THEN d[k] ELSE under[k]] \in Writable
    <2>1. DOMAIN d = ours /\ DOMAIN under = theirs
        BY <1>2, <1>3
    <2>2. [k \in names |-> IF k \in DOMAIN d THEN d[k] ELSE under[k]] \in [names -> Words]
        BY <1>2, <1>3, <2>1
    <2>3. names \in SUBSET Asked
        BY <2>1
    <2> QED
        BY <2>2, <2>3 DEF Writable
<1>5. Mixed(d, other) = {Broken} \cup {[k \in names |-> IF k \in DOMAIN d THEN d[k] ELSE under[k]] :
                                           names \in SUBSET (DOMAIN d \cup DOMAIN under)}
    BY DEF Mixed, under
<1> QED
    BY <1>4, <1>5

LEMMA ConfInitInductive == ConfInit => ConfInductive
<1> SUFFICES ASSUME ConfInit PROVE ConfInductive
    OBVIOUS
<1>2. Empty \in Writable
    BY EmptyWritable
<1>3. ConfTypeOK
    BY <1>2, IdleHandles DEF ConfInit, ConfTypeOK, Placed
<1>4. KnownNow = Shipped
    BY ShippedAssumption DEF ConfInit, KnownNow
<1>5. \A v \in Shipped : Found(v)
    BY ShippedAssumption DEF ConfInit, Found
<1>6. Unmeddled /\ Copies
    BY <1>4, <1>5, IdleHandles DEF ConfInit, Unmeddled, Copies
<1>7. StartsUnder(Empty)
    <2>1. Empty # Broken
        BY <1>2, BrokenAssumption
    <2>2. Chosen(Empty) = ByDefault
        BY DEF Chosen, Empty
    <2>3. \A j \in DOMAIN Takes : PolicyOf(Empty)[j] \in Takes[j]
        BY DEF PolicyOf, Empty, Takes, Ships, Timing, Pacing, Locking
    <2> QED
        BY <1>4, <1>5, <2>1, <2>2, <2>3, ShippedAssumption DEF StartsUnder
<1> QED
    BY <1>3, <1>6, <1>7 DEF ConfInductive, StartsAgain, ConfInit

\* A core that starts, or ends.
LEMMA CoreKeeps ==
    ASSUME ConfInductive, CoreStarts \/ CoreEnds
    PROVE  ConfInductive'
<1>1. UNCHANGED <<file, beside, torn, placed, meddled>>
    BY DEF CoreStarts, CoreEnds
<1>3. /\ up' \in BOOLEAN
      /\ \/ UNCHANGED setting
         \/ setting' = [x \in Handler |-> IdleHandler]
      /\ \/ known' = known /\ (up' => up)
         \/ known' = KnownNow
    BY DEF CoreStarts, CoreEnds, ConfInductive, ConfTypeOK
<1>4. KnownNow \subseteq Vendor
    BY ShippedAssumption DEF KnownNow
<1>5. ConfTypeOK'
    BY <1>1, <1>3, <1>4, IdleHandles DEF ConfInductive, ConfTypeOK
<1>6. \A x \in Handler : setting'[x].at # "idle" => setting'[x] = setting[x]
    BY <1>3, IdleHandles
<1>7. Unmeddled'
    BY <1>1, <1>3, <1>6, SamePlaced DEF ConfInductive, Unmeddled
<1>8. StartsAgain'
    BY <1>1, SamePlaced DEF ConfInductive, StartsAgain
<1>9. Copies'
    <2>1. CASE UNCHANGED setting
        BY <1>1, <2>1 DEF ConfInductive, Copies, HaveOpen
    <2>2. CASE setting' = [x \in Handler |-> IdleHandler]
        BY <2>2, IdleHandles DEF Copies
    <2> QED
        BY <1>3, <2>1, <2>2
<1> QED
    BY <1>5, <1>7, <1>8, <1>9 DEF ConfInductive

\* A value that is taken is put beside the others of a file that was taken whole.
LEMMA BeginKeeps ==
    ASSUME ConfInductive, NEW x \in Handler, NEW k \in Asked, NEW word \in Words,
           BeginSet(x, k, word)
    PROVE  ConfInductive'
<1> DEFINE made == [j \in DOMAIN file \cup {k} |-> IF j = k THEN word ELSE file[j]]
           new == [at |-> "read", open |-> "none", holds |-> made]
<1>1. UNCHANGED <<placed, up, known, meddled>> /\ up /\ UNCHANGED <<file, beside, torn>>
    BY DEF BeginSet
<1>2. /\ Setting(k, word) /\ ReadsWhole(file)
      /\ setting' = [setting EXCEPT ![x] = new]
      /\ setting[x].at = "idle"
    BY DEF BeginSet, InSet
<1>3. setting \in [Handler -> Handling] /\ file \in Writable
    BY <1>2 DEF ConfInductive, ConfTypeOK, ReadsWhole
<1>4. made \in Writable
    <2>1. PICK names \in SUBSET Asked : file \in [names -> Words]
        BY <1>3 DEF Writable
    <2>2. made \in [names \cup {k} -> Words]
        BY <2>1
    <2> QED
        BY <2>2 DEF Writable
<1>5. ~meddled => StartsUnder(made)
    BY <1>1, <1>2, SetStarts
<1> HIDE DEF made
<1>6. new \in Handling /\ new.holds = made /\ new.open = "none" /\ new.at = "read"
    BY <1>4 DEF Handling, Open
<1> HIDE DEF new
<1>7. \A y \in Handler : setting'[y] = IF y = x THEN new ELSE setting[y]
    BY <1>2, <1>3
<1>8. ConfTypeOK'
    BY <1>1, <1>2, <1>3, <1>6 DEF ConfInductive, ConfTypeOK
<1>9. Unmeddled'
    BY <1>1, <1>5, <1>6, <1>7, SamePlaced DEF ConfInductive, Unmeddled
<1>10. HaveOpen' = HaveOpen
    <2>1. setting[x].open = "none"
        BY <1>2 DEF ConfInductive, Copies
    <2> QED
        BY <1>6, <1>7, <2>1 DEF HaveOpen
<1>11. Copies'
    BY <1>1, <1>6, <1>7, <1>10 DEF ConfInductive, Copies
<1>12. StartsAgain'
    BY <1>1, SamePlaced DEF ConfInductive, StartsAgain
<1> QED
    BY <1>8, <1>9, <1>11, <1>12 DEF ConfInductive

\* A step of `set` makes no document that was not read already.
LEMMA GoesOn ==
    ASSUME ConfInductive, UNCHANGED <<placed, up, known, meddled>>,
           setting' \in [Handler -> Handling],
           \A y \in Handler : setting'[y].at # "idle" =>
               setting[y].at # "idle" /\ setting'[y].holds = setting[y].holds,
           file' \in Writable \cup {Broken}, beside' \in Writable \cup {Broken, NoCopy},
           torn' \in BOOLEAN, Copies', ~meddled /\ ~torn' => StartsUnder(file')
    PROVE  ConfInductive'
<1>1. ConfTypeOK'
    BY DEF ConfInductive, ConfTypeOK
<1>2. Unmeddled'
    BY SamePlaced DEF ConfInductive, Unmeddled
<1>3. StartsAgain'
    BY SamePlaced DEF StartsAgain
<1> QED
    BY <1>1, <1>2, <1>3 DEF ConfInductive

\* What is left of the others where one is done with, or has opened the copy.
LEMMA AllCameTo ==
    ASSUME ConfInductive, NEW x \in Handler, NEW new \in Handling, NEW to \in Open,
           AllCome(x, new, to)
    PROVE  /\ setting' \in [Handler -> Handling]
           /\ setting'[x] = new
           /\ \A y \in Handler \ {x} :
                 /\ setting'[y].at = setting[y].at /\ setting'[y].holds = setting[y].holds
                 /\ setting'[y].open = IF setting[y].open \in {"own", "shared"} THEN to
                                       ELSE setting[y].open
<1>1. setting \in [Handler -> Handling]
    BY DEF ConfInductive, ConfTypeOK
<1>2. \A y \in Handler : setting[y] \in Handling
    BY <1>1
<1>3. \A y \in Handler : /\ [setting[y] EXCEPT !.open = to] \in Handling
                        /\ [setting[y] EXCEPT !.open = to].at = setting[y].at
                        /\ [setting[y] EXCEPT !.open = to].holds = setting[y].holds
                        /\ [setting[y] EXCEPT !.open = to].open = to
    BY <1>2 DEF Handling
<1>4. setting' = [y \in Handler |-> IF y = x THEN new
                                   ELSE IF y \in HaveOpen THEN [setting[y] EXCEPT !.open = to]
                                   ELSE setting[y]]
    BY DEF AllCome
<1>5. \A y \in Handler : y \in HaveOpen <=> setting[y].open \in {"own", "shared"}
    BY DEF HaveOpen
<1> QED
    BY <1>1, <1>2, <1>3, <1>4, <1>5

\* What one step leaves of the one that makes it.
LEMMA OneCame ==
    ASSUME ConfInductive, NEW x \in Handler, NEW new \in Handling, InSet(x, new)
    PROVE  /\ setting' \in [Handler -> Handling]
           /\ setting'[x] = new
           /\ \A y \in Handler \ {x} : setting'[y] = setting[y]
<1>1. setting \in [Handler -> Handling]
    BY DEF ConfInductive, ConfTypeOK
<1> QED
    BY <1>1 DEF InSet

LEMMA OpenKeeps ==
    ASSUME ConfInductive, NEW x \in Handler, OpenBeside(x)
    PROVE  ConfInductive'
<1> DEFINE new == [setting[x] EXCEPT !.at = "write",
                                     !.open = IF HaveOpen = {} THEN "own" ELSE "shared"]
<1>1. /\ setting[x].at = "read" /\ beside' = Empty
      /\ UNCHANGED <<placed, up, known, meddled>> /\ UNCHANGED <<file, torn>>
      /\ AllCome(x, new, "shared")
    BY DEF OpenBeside
<1>2. setting[x] \in Handling /\ "shared" \in Open
    BY DEF ConfInductive, ConfTypeOK, Open
<1>3. /\ new \in Handling /\ new.at = "write" /\ new.holds = setting[x].holds
      /\ new.open = IF HaveOpen = {} THEN "own" ELSE "shared"
    BY <1>2 DEF Handling, Open
<1> HIDE DEF new
<1>4. /\ setting' \in [Handler -> Handling]
      /\ setting'[x] = new
      /\ \A y \in Handler \ {x} :
            /\ setting'[y].at = setting[y].at /\ setting'[y].holds = setting[y].holds
            /\ setting'[y].open = IF setting[y].open \in {"own", "shared"} THEN "shared"
                                  ELSE setting[y].open
    BY <1>1, <1>2, <1>3, AllCameTo
<1>5. Copies'
    <2> SUFFICES ASSUME NEW y \in Handler
                 PROVE  (/\ setting[y].open = "own" =>
                              /\ HaveOpen = {y}
                              /\ setting[y].at = "rename" => beside = setting[y].holds
                         /\ setting[y].open = "in place" => torn
                         /\ setting[y].at \in {"idle", "read"} => setting[y].open = "none")'
        BY DEF Copies
    <2>1. setting[y].open = "in place" => torn
        BY DEF ConfInductive, Copies
    <2>2. setting[y].at \in {"idle", "read"} => setting[y].open = "none"
        BY DEF ConfInductive, Copies
    <2>3. CASE y # x
        BY <1>1, <1>4, <2>1, <2>2, <2>3
    <2>4. CASE y = x
        <3>1. ASSUME HaveOpen = {} PROVE HaveOpen' = {x}
            <4>1. \A z \in Handler \ {x} : setting[z].open \notin {"own", "shared"}
                BY <3>1 DEF HaveOpen
            <4> QED
                BY <1>3, <1>4, <3>1, <4>1 DEF HaveOpen
        <3> QED
            BY <1>3, <1>4, <2>4, <3>1
    <2> QED
        BY <2>3, <2>4
<1>6. beside' \in Writable
    BY <1>1, EmptyWritable
<1>7. ~meddled /\ ~torn' => StartsUnder(file')
    BY <1>1 DEF ConfInductive, StartsAgain
<1>8. file' \in Writable \cup {Broken} /\ torn' \in BOOLEAN
    BY <1>1 DEF ConfInductive, ConfTypeOK
<1>9. \A y \in Handler : setting'[y].at # "idle" =>
          setting[y].at # "idle" /\ setting'[y].holds = setting[y].holds
    BY <1>1, <1>3, <1>4
<1> QED
    BY <1>1, <1>4, <1>5, <1>6, <1>7, <1>8, <1>9, GoesOn

\* What is written is written where nobody reads, or to what is torn already.
LEMMA WriteKeeps ==
    ASSUME ConfInductive, NEW x \in Handler, WriteSome(x) \/ WriteRest(x)
    PROVE  ConfInductive'
<1> DEFINE d == setting[x].holds
<1>1. /\ setting[x].at = "write"
      /\ UNCHANGED <<placed, up, known, meddled>> /\ UNCHANGED torn
      /\ WriteTo(x, TRUE) \/ WriteTo(x, FALSE)
    BY DEF WriteSome, WriteRest
<1>2. setting[x] \in Handling /\ setting \in [Handler -> Handling]
      /\ file \in Writable \cup {Broken} /\ beside \in Writable \cup {Broken, NoCopy}
      /\ torn \in BOOLEAN
    BY DEF ConfInductive, ConfTypeOK
<1>3. d \in Writable
    BY <1>2 DEF Handling
<1>4. /\ Mixed(d, Empty) \subseteq Writable \cup {Broken}
      /\ Mixed(d, beside) \subseteq Writable \cup {Broken}
      /\ Mixed(d, file) \subseteq Writable \cup {Broken}
    BY <1>2, <1>3, EmptyWritable, MixedIsRead
<1>5. /\ beside' \in Writable \cup {Broken, NoCopy}
      /\ file' \in Writable \cup {Broken}
      /\ setting[x].open # "in place" => file' = file
      /\ setting[x].open \notin {"own", "shared"} => beside' = beside
    BY <1>1, <1>2, <1>3, <1>4 DEF WriteTo
<1>6. ~meddled /\ ~torn' => StartsUnder(file')
    <2>1. setting[x].open = "in place" => torn
        BY DEF ConfInductive, Copies
    <2> QED
        BY <1>1, <1>5, <2>1 DEF ConfInductive, StartsAgain
<1>7. /\ setting' \in [Handler -> Handling]
      /\ \A y \in Handler \ {x} : setting'[y] = setting[y]
      /\ setting'[x].open = setting[x].open /\ setting'[x].holds = d
      /\ \/ WriteSome(x) /\ setting'[x].at = "write"
         \/ WriteRest(x) /\ setting'[x].at = "rename"
    <2>1. CASE WriteSome(x)
        BY <1>1, <1>2, <2>1 DEF WriteSome
    <2>2. CASE WriteRest(x)
        <3>1. /\ [setting[x] EXCEPT !.at = "rename"] \in Handling
              /\ [setting[x] EXCEPT !.at = "rename"].at = "rename"
              /\ [setting[x] EXCEPT !.at = "rename"].open = setting[x].open
              /\ [setting[x] EXCEPT !.at = "rename"].holds = d
            BY <1>2 DEF Handling
        <3>2. InSet(x, [setting[x] EXCEPT !.at = "rename"])
            BY <2>2 DEF WriteRest
        <3> QED
            BY <2>2, <3>1, <3>2, OneCame
    <2> QED
        BY <2>1, <2>2
<1>8. HaveOpen' = HaveOpen
    BY <1>7 DEF HaveOpen
<1>9. Copies'
    <2> SUFFICES ASSUME NEW y \in Handler
                 PROVE  (/\ setting[y].open = "own" =>
                              /\ HaveOpen = {y}
                              /\ setting[y].at = "rename" => beside = setting[y].holds
                         /\ setting[y].open = "in place" => torn
                         /\ setting[y].at \in {"idle", "read"} => setting[y].open = "none")'
        BY DEF Copies
    <2>1. /\ setting[y].open = "own" =>
               /\ HaveOpen = {y}
               /\ setting[y].at = "rename" => beside = setting[y].holds
          /\ setting[y].open = "in place" => torn
          /\ setting[y].at \in {"idle", "read"} => setting[y].open = "none"
        BY DEF ConfInductive, Copies
    <2>2. CASE y # x
        <3>1. setting[y].open = "own" => setting[x].open \notin {"own", "shared"}
            BY <2>1, <2>2 DEF HaveOpen
        <3> QED
            BY <1>1, <1>5, <1>7, <1>8, <2>1, <2>2, <3>1
    <2>3. CASE y = x
        <3>1. WriteRest(x) /\ setting[x].open = "own" => beside' = d
            BY DEF WriteRest, WriteTo
        <3> QED
            BY <1>1, <1>7, <1>8, <2>1, <2>3, <3>1
    <2> QED
        BY <2>2, <2>3
<1>10. \A y \in Handler : setting'[y].at # "idle" =>
           setting[y].at # "idle" /\ setting'[y].holds = setting[y].holds
    BY <1>1, <1>7
<1> HIDE DEF d
<1> QED
    BY <1>1, <1>2, <1>5, <1>6, <1>7, <1>9, <1>10, GoesOn

LEMMA FailKeeps ==
    ASSUME ConfInductive, NEW x \in Handler, WriteFails(x) \/ SetFails(x)
    PROVE  ConfInductive'
<1>1. /\ setting[x].at # "idle" /\ beside' \in {beside, NoCopy}
      /\ UNCHANGED <<placed, up, known, meddled>> /\ UNCHANGED <<file, torn>>
    BY DEF WriteFails, SetFails
<1>2. IdleHandler \in Handling /\ "gone" \in Open /\ IdleHandler.at = "idle" /\ IdleHandler.open = "none"
    BY IdleHandles DEF Open
<1>3. /\ setting' \in [Handler -> Handling]
      /\ setting'[x] = IdleHandler
      /\ \A y \in Handler \ {x} :
            /\ setting'[y].at = setting[y].at /\ setting'[y].holds = setting[y].holds
            /\ \/ setting'[y].open = setting[y].open /\ beside' = beside
               \/ setting'[y].open = IF setting[y].open \in {"own", "shared"} THEN "gone"
                                     ELSE setting[y].open
    <2>1. CASE WriteFails(x)
        <3>1. AllCome(x, IdleHandler, "gone")
            BY <2>1 DEF WriteFails
        <3> QED
            BY <1>2, <3>1, AllCameTo
    <2>2. CASE SetFails(x)
        <3>1. InSet(x, IdleHandler) /\ beside' = beside
            BY <2>2 DEF SetFails
        <3> QED
            BY <1>2, <3>1, OneCame
    <2> QED
        BY <2>1, <2>2
<1>4. Copies'
    <2> SUFFICES ASSUME NEW y \in Handler
                 PROVE  (/\ setting[y].open = "own" =>
                              /\ HaveOpen = {y}
                              /\ setting[y].at = "rename" => beside = setting[y].holds
                         /\ setting[y].open = "in place" => torn
                         /\ setting[y].at \in {"idle", "read"} => setting[y].open = "none")'
        BY DEF Copies
    <2>1. /\ setting[y].open = "own" =>
               /\ HaveOpen = {y}
               /\ setting[y].at = "rename" => beside = setting[y].holds
          /\ setting[y].open = "in place" => torn
          /\ setting[y].at \in {"idle", "read"} => setting[y].open = "none"
        BY DEF ConfInductive, Copies
    <2>2. CASE y = x
        BY <1>2, <1>3, <2>2
    <2>3. CASE y # x /\ setting'[y].open # "own"
        BY <1>1, <1>3, <2>1, <2>3
    <2>4. CASE y # x /\ setting'[y].open = "own"
        <3>1. setting[y].open = "own" /\ beside' = beside
            BY <1>3, <2>4
        <3>2. HaveOpen' = {y}
            <4>1. HaveOpen = {y}
                BY <2>1, <3>1
            <4>2. \A z \in Handler : setting'[z].open \in {"own", "shared"} => setting[z].open \in {"own", "shared"}
                BY <1>2, <1>3
            <4> QED
                BY <2>4, <4>1, <4>2 DEF HaveOpen
        <3> QED
            BY <1>1, <1>3, <2>1, <2>4, <3>1, <3>2
    <2> QED
        BY <2>2, <2>3, <2>4
<1>5. /\ file' \in Writable \cup {Broken} /\ torn' \in BOOLEAN
      /\ beside' \in Writable \cup {Broken, NoCopy}
    BY <1>1 DEF ConfInductive, ConfTypeOK
<1>6. ~meddled /\ ~torn' => StartsUnder(file')
    BY <1>1 DEF ConfInductive, StartsAgain
<1>7. \A y \in Handler : setting'[y].at # "idle" =>
          setting[y].at # "idle" /\ setting'[y].holds = setting[y].holds
    BY <1>1, <1>2, <1>3
<1> QED
    BY <1>1, <1>3, <1>4, <1>5, <1>6, <1>7, GoesOn

\* What a copy of one's own puts in place is its document, and leaves nobody with
\* what was there before.
LEMMA RenameKeeps ==
    ASSUME ConfInductive, NEW x \in Handler, RenameBeside(x)
    PROVE  ConfInductive'
<1>1. setting[x].at = "rename" /\ UNCHANGED <<placed, up, known, meddled>>
    BY DEF RenameBeside
<1>2. IdleHandler \in Handling /\ IdleHandler.at = "idle" /\ IdleHandler.open = "none"
    BY IdleHandles
<1>3. /\ setting \in [Handler -> Handling] /\ setting[x] \in Handling
      /\ file \in Writable \cup {Broken} /\ beside \in Writable \cup {Broken, NoCopy}
      /\ torn \in BOOLEAN
    BY DEF ConfInductive, ConfTypeOK
<1>4. CASE beside = NoCopy
    <2>1. InSet(x, IdleHandler) /\ UNCHANGED <<file, beside, torn>>
        BY <1>4 DEF RenameBeside
    <2>2. SetFails(x)
        BY <1>1, <2>1 DEF SetFails, RenameBeside
    <2> QED
        BY <2>2, FailKeeps
<1>5. CASE beside # NoCopy
    <2> DEFINE left(y) == IF y = x THEN IdleHandler
                          ELSE IF y \in HaveOpen THEN [setting[y] EXCEPT !.open = "in place"]
                          ELSE IF setting[y].open = "in place" THEN [setting[y] EXCEPT !.open = "gone"]
                          ELSE setting[y]
    <2>1. /\ file' = beside /\ beside' = NoCopy
          /\ torn' = (setting[x].open # "own")
          /\ setting' = [y \in Handler |-> left(y)]
        BY <1>5 DEF RenameBeside
    <2>2. \A y \in Handler : setting[y] \in Handling
        BY <1>3
    <2>3. \A y \in Handler :
              /\ left(y) \in Handling
              /\ y # x => left(y).at = setting[y].at /\ left(y).holds = setting[y].holds
              /\ y # x => left(y).open =
                                   IF setting[y].open \in {"own", "shared"} THEN "in place"
                                   ELSE IF setting[y].open = "in place" THEN "gone"
                                   ELSE setting[y].open
        <3> SUFFICES ASSUME NEW y \in Handler
                     PROVE  /\ left(y) \in Handling
                            /\ y # x => left(y).at = setting[y].at /\ left(y).holds = setting[y].holds
                            /\ y # x => left(y).open =
                                   IF setting[y].open \in {"own", "shared"} THEN "in place"
                                   ELSE IF setting[y].open = "in place" THEN "gone"
                                   ELSE setting[y].open
            OBVIOUS
        <3>1. y \in HaveOpen <=> setting[y].open \in {"own", "shared"}
            BY DEF HaveOpen
        <3>2. setting[y] \in Handling
            BY <2>2
        <3> QED
            BY <1>2, <3>1, <3>2 DEF Handling, Open
    <2>4. left(x) = IdleHandler
        OBVIOUS
    <2> HIDE DEF left
    <2>5. \A y \in Handler : setting'[y] = left(y)
        BY <2>1
    <2>6. setting' \in [Handler -> Handling]
        BY <2>1, <2>3
    <2>7. Copies'
        <3> SUFFICES ASSUME NEW y \in Handler
                     PROVE  (/\ setting[y].open = "own" =>
                                  /\ HaveOpen = {y}
                                  /\ setting[y].at = "rename" => beside = setting[y].holds
                             /\ setting[y].open = "in place" => torn
                             /\ setting[y].at \in {"idle", "read"} => setting[y].open = "none")'
            BY DEF Copies
        <3>1. /\ setting[y].at \in {"idle", "read"} => setting[y].open = "none"
              /\ setting[x].open = "own" => HaveOpen = {x}
            BY DEF ConfInductive, Copies
        <3>2. CASE y = x
            BY <1>2, <2>4, <2>5, <3>2
        <3>3. CASE y # x
            <4>1. setting'[y].open # "own"
                BY <2>3, <2>5, <3>3
            <4>2. ASSUME setting'[y].open = "in place" PROVE torn'
                <5>1. y \in HaveOpen
                    BY <2>3, <2>5, <3>3, <4>2 DEF HaveOpen
                <5> QED
                    BY <2>1, <3>1, <3>3, <5>1
            <4> QED
                BY <2>3, <2>5, <3>1, <3>3, <4>1, <4>2
        <3> QED
            BY <3>2, <3>3
    <2>8. ~meddled /\ ~torn' => StartsUnder(file')
        <3>1. setting[x].open = "own" => beside = setting[x].holds
            BY <1>1 DEF ConfInductive, Copies
        <3>2. ~meddled => StartsUnder(setting[x].holds)
            BY <1>1 DEF ConfInductive, Unmeddled
        <3> QED
            BY <2>1, <3>1, <3>2
    <2>9. \A y \in Handler : setting'[y].at # "idle" =>
              setting[y].at # "idle" /\ setting'[y].holds = setting[y].holds
        BY <1>2, <2>3, <2>4, <2>5
    <2>10. /\ file' \in Writable \cup {Broken} /\ beside' \in Writable \cup {Broken, NoCopy}
           /\ torn' \in BOOLEAN
        BY <1>3, <1>5, <2>1
    <2> QED
        BY <1>1, <2>6, <2>7, <2>8, <2>9, <2>10, GoesOn
<1> QED
    BY <1>4, <1>5

LEMMA HandKeeps ==
    ASSUME ConfInductive, EditByHand
    PROVE  ConfInductive'
<1>1. UNCHANGED <<placed, up, known, setting>> /\ UNCHANGED <<beside, torn>>
      /\ meddled' = (meddled \/ ~StartsUnder(file'))
    BY DEF EditByHand
<1>2. file' \in Writable \cup {Broken}
    <2>1. CASE file' = Broken \/ file' = Empty
        <3>1. Empty \in [{} -> Words]
            BY DEF Empty
        <3> QED
            BY <2>1, <3>1 DEF Writable
    <2>2. ASSUME file # Broken PROVE \E names \in SUBSET Asked : file \in [names -> Words]
        BY <2>2 DEF ConfInductive, ConfTypeOK, Writable
    <2>3. ASSUME NEW k \in Asked, NEW word \in Words, file # Broken,
                 file' = [j \in DOMAIN file \cup {k} |-> IF j = k THEN word ELSE file[j]]
          PROVE  file' \in Writable
        <3>1. PICK names \in SUBSET Asked : file \in [names -> Words]
            BY <2>2, <2>3
        <3>2. file' \in [names \cup {k} -> Words]
            BY <2>3, <3>1
        <3> QED
            BY <3>2 DEF Writable
    <2>4. ASSUME file # Broken, NEW k \in DOMAIN file,
                 file' = [j \in DOMAIN file \ {k} |-> file[j]]
          PROVE  file' \in Writable
        <3>1. PICK names \in SUBSET Asked : file \in [names -> Words]
            BY <2>2, <2>4
        <3>2. file' \in [names \ {k} -> Words]
            BY <2>4, <3>1
        <3> QED
            BY <3>2 DEF Writable
    <2> QED
        BY <2>1, <2>3, <2>4 DEF EditByHand
<1>3. ConfTypeOK'
    BY <1>1, <1>2 DEF ConfInductive, ConfTypeOK
<1>4. ~meddled' => ~meddled /\ StartsUnder(file')
    BY <1>1 DEF ConfInductive, ConfTypeOK
<1>5. Unmeddled'
    BY <1>1, <1>4, SamePlaced DEF ConfInductive, Unmeddled
<1>6. StartsAgain'
    BY <1>1, <1>4, SamePlaced DEF StartsAgain
<1>7. Copies'
    BY <1>1 DEF ConfInductive, Copies, HaveOpen
<1> QED
    BY <1>3, <1>5, <1>6, <1>7 DEF ConfInductive

\* A definition that is placed where nobody meddles by it is one more that can
\* be read.
LEMMA PlaceKeeps ==
    ASSUME ConfInductive, NEW v \in Vendor, NEW what \in Placed, Place(v, what)
    PROVE  ConfInductive'
<1>1. /\ UNCHANGED <<file, up, known, setting>> /\ UNCHANGED <<beside, torn>>
      /\ placed' = [placed EXCEPT ![v] = what]
      /\ meddled' = (meddled \/ ~Found(v)' \/ v \in KnownNow \ KnownNow')
    BY DEF Place
<1>2. ConfTypeOK'
    BY <1>1 DEF ConfInductive, ConfTypeOK
<1>3. placed \in [Vendor -> Placed] /\ meddled \in BOOLEAN
    BY DEF ConfInductive, ConfTypeOK
<1>4. \A u \in Vendor \ {v} : placed'[u] = placed[u]
    BY <1>1, <1>3
<1>5. \A u \in Vendor \ {v} : (u \in KnownNow' <=> u \in KnownNow) /\ (Found(u)' <=> Found(u))
    BY <1>4 DEF KnownNow, Found
<1>6. KnownNow \subseteq Vendor /\ KnownNow' \subseteq Vendor
    BY ShippedAssumption DEF KnownNow
<1>7. ASSUME ~meddled'
      PROVE  /\ ~meddled /\ KnownNow \subseteq KnownNow' /\ \A u \in KnownNow' : Found(u)'
    <2>1. ~meddled /\ Found(v)' /\ v \notin KnownNow \ KnownNow'
        BY <1>1, <1>7
    <2>2. \A u \in KnownNow : Found(u)
        BY <2>1 DEF ConfInductive, Unmeddled
    <2> QED
        BY <1>5, <1>6, <2>1, <2>2
<1>8. ASSUME ~meddled', NEW held, StartsUnder(held) PROVE StartsUnder(held)'
    BY <1>7, <1>8, StartsStill
<1>9. Unmeddled'
    BY <1>1, <1>7, <1>8 DEF ConfInductive, Unmeddled
<1>10. StartsAgain'
    BY <1>1, <1>7, <1>8 DEF ConfInductive, StartsAgain
<1>11. Copies'
    BY <1>1 DEF ConfInductive, Copies, HaveOpen
<1> QED
    BY <1>2, <1>9, <1>10, <1>11 DEF ConfInductive

\* Where nobody meddled, what a core found when it started can be read still,
\* and what is about to be in the file, or was put there by one that had the copy
\* to itself, a core starts under.
THEOREM ConfiguringInductive == ConfSpec => []ConfInductive
<1>1. ConfInductive /\ [ConfNext]_confVars => ConfInductive'
    <2> SUFFICES ASSUME ConfInductive, [ConfNext]_confVars PROVE ConfInductive'
        OBVIOUS
    <2>1. CASE UNCHANGED confVars
        <3>1. UNCHANGED <<file, placed, up, known, setting, meddled>> /\ UNCHANGED <<beside, torn>>
            BY <2>1 DEF confVars
        <3>2. ConfTypeOK' /\ Unmeddled' /\ StartsAgain' /\ Copies'
            BY <3>1, SamePlaced DEF ConfInductive, ConfTypeOK, Unmeddled, StartsAgain, Copies, HaveOpen
        <3> QED
            BY <3>2 DEF ConfInductive
    <2> QED
        BY <2>1, CoreKeeps, BeginKeeps, OpenKeeps, WriteKeeps, FailKeeps, RenameKeeps, HandKeeps,
           PlaceKeeps DEF ConfNext, GoOnSetting
<1> QED
    BY <1>1, ConfInitInductive, PTL DEF ConfSpec

\* Whatever `config set` writes, in whatever order its calls read, write and rename,
\* though some fail and a core dies between two, the next core starts under, for any
\* number of handlers, vendors and words, unless a person meddled by hand or what is
\* in place was put there by a call that shared its copy with another
\* (core/service/configuration.rs:36-53, file/configuration.rs:65-71).
THEOREM ConfiguringStartsAgain == ConfSpec => []StartsAgain
BY ConfiguringInductive, PTL DEF ConfInductive

----------------------------------------------------------------------------
(* Figures. *)

LEMMA MaxOfTwo ==
    ASSUME NEW a \in Nat, NEW b \in Nat
    PROVE  Max({a, b}) = IF a >= b THEN a ELSE b
BY DEF Max

LEMMA MinOfTwo ==
    ASSUME NEW a \in Nat, NEW b \in Nat
    PROVE  Min({a, b}) = IF a <= b THEN a ELSE b
BY DEF Min

\* A finite set of numbers has a greatest one, and `Max` is it.
LEMMA MaxOfMany ==
    ASSUME NEW S \in SUBSET Nat, IsFiniteSet(S), S # {}
    PROVE  Max(S) \in S /\ \A x \in S : x <= Max(S)
<1> DEFINE P(n) == \A T \in SUBSET S : Cardinality(T) = n /\ T # {} => \E m \in T : \A x \in T : x <= m
           Known == {n \in Nat : P(n)}
<1>1. \A T \in SUBSET S : IsFiniteSet(T) /\ Cardinality(T) \in Nat
    BY FS_Subset, FS_CardinalityType
<1>2. P(0)
    BY <1>1, FS_EmptySet
<1>3. ASSUME NEW n \in Nat, P(n) PROVE P(n + 1)
    <2> SUFFICES ASSUME NEW T \in SUBSET S, Cardinality(T) = n + 1, T # {}
                 PROVE  \E m \in T : \A x \in T : x <= m
        OBVIOUS
    <2>1. PICK y \in T : TRUE
        OBVIOUS
    <2> DEFINE R == T \ {y}
    <2>2. Cardinality(R) = n /\ R \in SUBSET S
        <3>1. IsFiniteSet(T)
            BY <1>1
        <3>2. Cardinality(R) = Cardinality(T) - 1
            BY <2>1, <3>1, FS_RemoveElement
        <3> QED
            BY <3>2
    <2>3. CASE R = {}
        BY <2>1, <2>3
    <2>4. CASE R # {}
        <3>1. PICK m \in R : \A x \in R : x <= m
            BY <1>3, <2>2, <2>4
        <3>2. \A x \in T : x = y \/ x \in R
            OBVIOUS
        <3>3. CASE m <= y
            <4>1. \A x \in T : x <= y
                BY <3>1, <3>2, <3>3
            <4> QED
                BY <2>1, <4>1
        <3>4. CASE ~ (m <= y)
            <4>1. \A x \in T : x <= m
                BY <2>1, <3>1, <3>2, <3>4
            <4> QED
                BY <3>1, <4>1
        <3> QED
            BY <3>3, <3>4
    <2> QED
        BY <2>3, <2>4
<1> HIDE DEF P
<1>4. 0 \in Known /\ Known \in SUBSET Nat /\ \A n \in Known : n + 1 \in Known
    BY <1>2, <1>3
<1> HIDE DEF Known
<1>5. Known = Nat
    BY <1>4, EveryNumber
<1>6. P(Cardinality(S))
    BY <1>1, <1>5 DEF Known
<1>7. \E m \in S : \A x \in S : m >= x
    <2>1. PICK m \in S : \A x \in S : x <= m
        BY <1>6 DEF P
    <2> QED
        BY <2>1
<1> QED
    BY <1>7 DEF Max

\* What a whole part and a rest come to.
LEMMA WholeAndRest ==
    ASSUME NEW h \in Nat
    PROVE  /\ h \div 300 \in Nat /\ h % 300 \in Nat /\ h % 300 < 300
           /\ h = 300 * (h \div 300) + (h % 300)
           /\ 300 * (h \div 300) <= h /\ h < 300 * (h \div 300) + 300
OBVIOUS

LEMMA MoreTimes ==
    ASSUME NEW a \in Nat, NEW b \in Nat, NEW c \in Nat, a <= b
    PROVE  a * c \in Nat /\ b * c \in Nat /\ a * c <= b * c
<1>1. b = a + (b - a) /\ b - a \in Nat
    OBVIOUS
<1>2. b * c = a * c + (b - a) * c
    BY <1>1
<1>3. (b - a) * c \in Nat
    BY <1>1
<1> QED
    BY <1>2, <1>3

----------------------------------------------------------------------------
(* What runs took, in order. *)

\* There is an order in which the figures do not fall.
LEMMA OrderExists ==
    ASSUME NEW S, IsFiniteSet(S), NEW costs \in [S -> Nat]
    PROVE  \E row \in [1..Cardinality(S) -> S] : InOrder(costs, row)
<1> DEFINE P(n) == \A T \in SUBSET S : Cardinality(T) = n =>
                       \E row \in [1..n -> T] : InOrder(costs, row)
           Known == {n \in Nat : P(n)}
<1>1. \A T \in SUBSET S : IsFiniteSet(T) /\ Cardinality(T) \in Nat
    BY FS_Subset, FS_CardinalityType
<1>2. P(0)
    <2> SUFFICES ASSUME NEW T \in SUBSET S PROVE \E row \in [1..0 -> T] : InOrder(costs, row)
        OBVIOUS
    <2> DEFINE none == [k \in 1..0 |-> 0]
    <2>1. none \in [1..0 -> T] /\ InOrder(costs, none)
        BY DEF InOrder
    <2> QED
        BY <2>1
<1>3. ASSUME NEW n \in Nat, P(n) PROVE P(n + 1)
    <2> SUFFICES ASSUME NEW T \in SUBSET S, Cardinality(T) = n + 1
                 PROVE  \E row \in [1..(n+1) -> T] : InOrder(costs, row)
        OBVIOUS
    <2> DEFINE Figures_ == {costs[i] : i \in T}
    <2>1. T # {}
        BY <1>1, FS_EmptySet
    <2>2. PICK low \in Figures_ : \A v \in Figures_ : low <= v
        <3>1. Figures_ \in SUBSET Nat /\ Figures_ # {}
            BY <2>1
        <3> HIDE DEF Figures_
        <3> QED
            BY <3>1, LeastNumber
    <2>3. PICK least \in T : \A i \in T : costs[least] <= costs[i]
        BY <2>2
    <2> DEFINE R == T \ {least}
    <2>4. Cardinality(R) = n /\ R \in SUBSET S
        <3>1. IsFiniteSet(T)
            BY <1>1
        <3>2. Cardinality(R) = Cardinality(T) - 1
            BY <2>3, <3>1, FS_RemoveElement
        <3> QED
            BY <3>2
    <2>5. PICK rest \in [1..n -> R] : InOrder(costs, rest)
        BY <1>3, <2>4
    <2> DEFINE row == [k \in 1..(n+1) |-> IF k = 1 THEN least ELSE rest[k - 1]]
    <2>6. \A k \in 1..(n+1) : k # 1 => k - 1 \in 1..n
        OBVIOUS
    <2>7. row \in [1..(n+1) -> T]
        BY <2>6
    <2>8. ASSUME NEW k \in 1..(n+1), NEW l \in 1..(n+1), k < l
          PROVE  row[k] # row[l] /\ costs[row[k]] <= costs[row[l]]
        <3>1. l # 1 /\ l - 1 \in 1..n /\ row[l] = rest[l - 1] /\ row[l] \in R
            BY <2>6, <2>8
        <3>2. CASE k = 1
            BY <2>3, <3>1, <3>2
        <3>3. CASE k # 1
            <4>1. k - 1 \in 1..n /\ row[k] = rest[k - 1] /\ k - 1 < l - 1
                BY <2>6, <2>8, <3>1, <3>3
            <4>2. DOMAIN rest = 1..n
                OBVIOUS
            <4> QED
                BY <2>5, <3>1, <4>1, <4>2 DEF InOrder
        <3> QED
            BY <3>2, <3>3
    <2>9. InOrder(costs, row)
        <3>1. DOMAIN row = 1..(n+1)
            OBVIOUS
        <3> HIDE DEF row
        <3> QED
            BY <2>8, <3>1 DEF InOrder
    <2> QED
        BY <2>7, <2>9
<1> HIDE DEF P
<1>4. 0 \in Known /\ Known \in SUBSET Nat /\ \A n \in Known : n + 1 \in Known
    BY <1>2, <1>3
<1> HIDE DEF Known
<1>5. Known = Nat
    BY <1>4, EveryNumber
<1> QED
    BY <1>1, <1>5 DEF Known, P

\* What is sorted is what was there, in such an order.
LEMMA SortedIs ==
    ASSUME NEW S, IsFiniteSet(S), NEW costs \in [S -> Nat]
    PROVE  LET n == Cardinality(S)
           IN  /\ n \in Nat
               /\ Sorted(costs) \in [1..n -> Nat]
               /\ Sorted(costs) \in Seq(Nat) /\ Len(Sorted(costs)) = n
               /\ \E row \in [1..n -> S] :
                     InOrder(costs, row) /\ \A k \in 1..n : Sorted(costs)[k] = costs[row[k]]
<1> DEFINE n == Cardinality(S)
           row == CHOOSE r \in [1..Cardinality(DOMAIN costs) -> DOMAIN costs] : InOrder(costs, r)
<1>1. n \in Nat /\ DOMAIN costs = S
    BY FS_CardinalityType
<1>2. row \in [1..n -> S] /\ InOrder(costs, row)
    BY <1>1, OrderExists
<1>3. Sorted(costs) = [k \in DOMAIN row |-> costs[row[k]]]
    BY DEF Sorted
<1> HIDE DEF row, n
<1>4. Sorted(costs) \in [1..n -> Nat] /\ \A k \in 1..n : Sorted(costs)[k] = costs[row[k]]
    BY <1>2, <1>3
<1>5. Sorted(costs) \in Seq(Nat) /\ Len(Sorted(costs)) = n
    BY <1>1, <1>4
<1> QED
    BY <1>1, <1>2, <1>4, <1>5 DEF n

\* How many took less than some figure, and how many no more.
Beneath(costs, v) == Cardinality({i \in DOMAIN costs : costs[i] < v})
NoMore(costs, v) == Cardinality({i \in DOMAIN costs : costs[i] <= v})
HasRank(costs, v, rank) == Beneath(costs, v) < rank /\ NoMore(costs, v) >= rank

\* An order leaves none of them out.
LEMMA OrderReaches ==
    ASSUME NEW S, IsFiniteSet(S), NEW costs, NEW row \in [1..Cardinality(S) -> S],
           InOrder(costs, row)
    PROVE  \A i \in S : \E k \in 1..Cardinality(S) : row[k] = i
<1> DEFINE n == Cardinality(S)
<1>1. n \in Nat
    BY FS_CardinalityType
<1>2. IsFiniteSet(1..n) /\ Cardinality(1..n) = n
    BY <1>1, FS_Interval
<1> HIDE DEF n
<1>3. row \in Injection(1..n, S)
    <2>1. row \in [1..n -> S]
        BY DEF n
    <2>2. ASSUME NEW k \in 1..n, NEW l \in 1..n, row[k] = row[l] PROVE k = l
        <3>1. \A a, b \in 1..n : a < b => row[a] # row[b]
            BY <2>1 DEF InOrder
        <3>2. k \in Nat /\ l \in Nat /\ ~ (k < l) /\ ~ (l < k)
            BY <1>1, <2>2, <3>1
        <3> QED
            BY <3>2
    <2>3. IsInjective(row)
        BY <2>1, <2>2 DEF IsInjective
    <2> QED
        BY <2>1, <2>3 DEF Injection
<1>4. row \in Surjection(1..n, S)
    BY <1>2, <1>3, FS_Injection DEF n
<1> QED
    BY <1>4 DEF Surjection, n

\* The one at a place of an order has that rank.
LEMMA PlaceIsRank ==
    ASSUME NEW S, IsFiniteSet(S), NEW costs \in [S -> Nat],
           NEW row \in [1..Cardinality(S) -> S], InOrder(costs, row),
           NEW r \in 1..Cardinality(S)
    PROVE  HasRank(costs, costs[row[r]], r)
<1> DEFINE n == Cardinality(S)
           v == costs[row[r]]
           Below == {i \in S : costs[i] < v}
           Within == {i \in S : costs[i] <= v}
           First == {row[k] : k \in 1..(r - 1)}
<1>1. n \in Nat /\ r \in Nat /\ 1 <= r /\ r <= n /\ r - 1 \in Nat
    BY FS_CardinalityType
<1>2. row \in [1..n -> S] /\ \A k \in 1..(r - 1) : k \in 1..n
    BY <1>1
<1>3. IsFiniteSet(Below) /\ IsFiniteSet(Within) /\ IsFiniteSet(First)
    BY <1>2, FS_Subset
<1>4. \A k, l \in 1..n : k < l => row[k] # row[l] /\ costs[row[k]] <= costs[row[l]]
    BY <1>2 DEF InOrder
<1>5. Cardinality(Below) < r
    <2> DEFINE g == [k \in 1..(r - 1) |-> row[k]]
    <2>1. g \in Surjection(1..(r - 1), First)
        BY DEF Surjection
    <2>2. Cardinality(First) <= r - 1
        BY <1>1, <2>1, FS_SurjCardinalityBound DEF ExistsSurjection
    <2>3. Below \in SUBSET First
        <3> SUFFICES ASSUME NEW i \in S, costs[i] < v PROVE i \in First
            OBVIOUS
        <3>1. PICK k \in 1..n : row[k] = i
            BY OrderReaches
        <3>2. k < r
            <4> SUFFICES ASSUME r <= k PROVE FALSE
                BY <1>1
            <4>1. r = k \/ r < k
                BY <1>1
            <4>2. v <= costs[i]
                BY <1>1, <1>2, <1>4, <3>1, <4>1
            <4>3. v \in Nat /\ costs[i] \in Nat
                BY <1>1, <1>2
            <4> QED
                BY <4>2, <4>3
        <3>3. k \in 1..(r - 1)
            BY <1>1, <3>2
        <3> QED
            BY <3>1, <3>3
    <2>4. Cardinality(Below) <= Cardinality(First)
        BY <1>3, <2>3, FS_Subset
    <2>5. Cardinality(Below) \in Nat /\ Cardinality(First) \in Nat
        BY <1>3, FS_CardinalityType
    <2> QED
        BY <1>1, <2>2, <2>4, <2>5
<1>6. Cardinality(Within) >= r
    <2> DEFINE g == [k \in 1..r |-> row[k]]
    <2>1. \A k \in 1..r : k \in 1..n /\ row[k] \in Within
        <3> SUFFICES ASSUME NEW k \in 1..r PROVE k \in 1..n /\ row[k] \in Within
            OBVIOUS
        <3>1. k \in 1..n /\ r \in 1..n /\ (k = r \/ k < r)
            BY <1>1
        <3>2. costs[row[k]] <= costs[row[r]]
            <4>1. CASE k < r
                BY <1>4, <3>1, <4>1
            <4>2. CASE k = r
                BY <1>2, <3>1, <4>2
            <4> QED
                BY <3>1, <4>1, <4>2
        <3> QED
            BY <1>2, <3>1, <3>2
    <2>2. g \in [1..r -> Within]
        BY <2>1
    <2>3. ASSUME NEW k \in 1..r, NEW l \in 1..r, g[k] = g[l] PROVE k = l
        <3>1. k \in 1..n /\ l \in 1..n /\ row[k] = row[l]
            BY <2>1, <2>3
        <3>2. ~ (k < l) /\ ~ (l < k)
            BY <1>4, <3>1
        <3> QED
            BY <1>1, <3>2
    <2>4. g \in Injection(1..r, Within)
        <3>1. DOMAIN g = 1..r
            OBVIOUS
        <3> HIDE DEF g
        <3>2. IsInjective(g)
            BY <2>3, <3>1 DEF IsInjective
        <3> QED
            BY <2>2, <3>2 DEF Injection
    <2>5. Cardinality(1..r) = r
        BY <1>1, FS_Interval
    <2>6. Cardinality(1..r) <= Cardinality(Within)
        BY <1>3, <2>4, FS_Injection
    <2>7. Cardinality(Within) \in Nat
        BY <1>3, FS_CardinalityType
    <2> QED
        BY <1>1, <2>5, <2>6, <2>7
<1>7. DOMAIN costs = S
    OBVIOUS
<1> QED
    BY <1>5, <1>6, <1>7 DEF HasRank, Beneath, NoMore

\* Only one figure has a rank.
LEMMA RankIsOne ==
    ASSUME NEW S, IsFiniteSet(S), NEW costs \in [S -> Nat], NEW r \in Nat,
           NEW v \in Nat, HasRank(costs, v, r), NEW w \in Nat, HasRank(costs, w, r)
    PROVE  v = w
<1>1. ASSUME NEW a \in Nat, NEW b \in Nat, HasRank(costs, a, r), HasRank(costs, b, r)
      PROVE  ~ (a < b)
    <2> SUFFICES ASSUME a < b PROVE FALSE
        OBVIOUS
    <2> DEFINE Within == {i \in S : costs[i] <= a}
               Below == {i \in S : costs[i] < b}
    <2>1. Within \in SUBSET Below
        OBVIOUS
    <2>2. IsFiniteSet(Below) /\ IsFiniteSet(Within)
        BY FS_Subset
    <2>3. Cardinality(Within) <= Cardinality(Below)
        BY <2>1, <2>2, FS_Subset
    <2>4. Cardinality(Within) \in Nat /\ Cardinality(Below) \in Nat
        BY <2>2, FS_CardinalityType
    <2>5. Cardinality(Within) >= r /\ Cardinality(Below) < r
        BY <1>1 DEF HasRank, Beneath, NoMore
    <2> QED
        BY <2>3, <2>4, <2>5
<1>2. ~ (v < w) /\ ~ (w < v)
    BY <1>1
<1> QED
    BY <1>2

\* However they are put in order, the figures at each place are the same.
Figure(costs, row, r) == costs[row[r]]

LEMMA AnyOrder ==
    ASSUME NEW S, IsFiniteSet(S), NEW costs \in [S -> Nat],
           NEW row \in [1..Cardinality(S) -> S], InOrder(costs, row),
           NEW r \in 1..Cardinality(S)
    PROVE  Sorted(costs)[r] = Figure(costs, row, r)
<1>1. PICK other \in [1..Cardinality(S) -> S] :
          InOrder(costs, other) /\ Sorted(costs)[r] = costs[other[r]]
    BY SortedIs
<1>2. HasRank(costs, costs[row[r]], r) /\ HasRank(costs, costs[other[r]], r)
    BY <1>1, PlaceIsRank
<1>3. costs[row[r]] \in Nat /\ costs[other[r]] \in Nat
    BY <1>1
<1>4. r \in Nat
    BY FS_CardinalityType
<1> QED
    BY <1>1, <1>2, <1>3, <1>4, RankIsOne DEF Figure

\* What counting finds at a rank is what stands there once they are sorted.
LEMMA RankedIsSorted ==
    ASSUME NEW S, IsFiniteSet(S), S # {}, NEW costs \in [S -> Nat], NEW k \in Nat
    PROVE  LET n == Cardinality(S)
               r == IF k > n THEN n ELSE IF k > 1 THEN k ELSE 1
           IN  r \in 1..n /\ Ranked(costs, k) = Sorted(costs)[r]
<1> DEFINE n == Cardinality(S)
           r == IF k > n THEN n ELSE IF k > 1 THEN k ELSE 1
           v == Sorted(costs)[r]
<1>1. n \in Nat \ {0} /\ r \in 1..n /\ r \in Nat
    BY FS_CardinalityType, FS_EmptySet
<1>2. Max({1, Min({k, n})}) = r
    <2>1. Min({k, n}) = IF k <= n THEN k ELSE n
        BY <1>1, MinOfTwo
    <2>2. Min({k, n}) \in Nat
        BY <1>1, <2>1
    <2>3. Max({1, Min({k, n})}) = IF 1 >= Min({k, n}) THEN 1 ELSE Min({k, n})
        BY <2>2, MaxOfTwo
    <2> QED
        BY <1>1, <2>1, <2>2, <2>3
<1>3. PICK row \in [1..n -> S] : InOrder(costs, row) /\ v = costs[row[r]]
    <2>1. PICK row \in [1..n -> S] :
              InOrder(costs, row) /\ \A i \in 1..n : Sorted(costs)[i] = costs[row[i]]
        BY SortedIs
    <2> HIDE DEF r
    <2> QED
        BY <1>1, <2>1
<1>4. v \in {costs[i] : i \in S} /\ HasRank(costs, v, r)
    BY <1>1, <1>3, PlaceIsRank
<1>5. Ranked(costs, k) = CHOOSE w \in {costs[i] : i \in S} : HasRank(costs, w, r)
    <2>1. DOMAIN costs = S
        OBVIOUS
    <2>2. Ranked(costs, k) =
              CHOOSE w \in {costs[i] : i \in S} :
                  /\ Cardinality({i \in S : costs[i] < w}) < Max({1, Min({k, n})})
                  /\ Cardinality({i \in S : costs[i] <= w}) >= Max({1, Min({k, n})})
        BY <2>1 DEF Ranked
    <2>3. Ranked(costs, k) =
              CHOOSE w \in {costs[i] : i \in S} :
                  /\ Cardinality({i \in S : costs[i] < w}) < r
                  /\ Cardinality({i \in S : costs[i] <= w}) >= r
        <3> HIDE DEF r
        <3> QED
            BY <1>2, <2>2
    <2> HIDE DEF r
    <2> QED
        BY <2>1, <2>3 DEF HasRank, Beneath, NoMore
<1>6. {costs[i] : i \in S} \in SUBSET Nat
    OBVIOUS
<1> HIDE DEF v, r
<1>7. \A w \in {costs[i] : i \in S} : HasRank(costs, w, r) => w = v
    BY <1>1, <1>4, <1>6, RankIsOne
<1>8. Ranked(costs, k) = v
    BY <1>4, <1>5, <1>7
<1> QED
    BY <1>1, <1>8 DEF r, v, n

----------------------------------------------------------------------------
(* What stands between two of them. *)

Rising(s, n) == s \in [1..n -> Nat] /\ \A k, l \in 1..n : k <= l => s[k] <= s[l]

Between(s, h) ==
    s[h \div 300] + ((s[(h \div 300) + 1] - s[h \div 300]) * (h % 300)) \div 300

At(s, n, h) ==
    CASE h <= 300 -> s[1]
      [] h >= 300 * n -> s[n]
      [] OTHER -> Between(s, h)

LEMMA Thirds ==
    ASSUME NEW d \in Nat, NEW h \in Nat
    PROVE  LET way == d * (h % 300)
               q == way \div 300
           IN  /\ way \in Nat /\ q \in Nat
               /\ 300 * q <= way /\ way < 300 * q + 300 /\ q <= d
<1> DEFINE way == d * (h % 300)
           q == way \div 300
<1>1. h % 300 \in Nat /\ h % 300 <= 300
    BY WholeAndRest
<1>2. way \in Nat /\ way <= 300 * d
    <2> DEFINE rest == h % 300
    <2>1. rest \in Nat /\ rest <= 300
        BY <1>1
    <2> HIDE DEF rest
    <2>2. rest * d \in Nat /\ rest * d <= 300 * d
        BY <2>1, MoreTimes
    <2>3. rest * d = d * rest
        BY <2>1
    <2> QED
        BY <2>2, <2>3 DEF rest
<1> HIDE DEF way
<1>3. q \in Nat /\ 300 * q <= way /\ way < 300 * q + 300
    BY <1>2, WholeAndRest
<1> HIDE DEF q
<1>4. q <= d
    BY <1>2, <1>3
<1> QED
    BY <1>2, <1>3, <1>4 DEF q, way

LEMMA BetweenIs ==
    ASSUME NEW n \in Nat, NEW s, Rising(s, n), NEW h \in Nat, 300 < h, h < 300 * n
    PROVE  LET u == h \div 300
           IN  /\ u \in 1..n /\ u + 1 \in 1..n /\ s[u] \in Nat /\ s[u + 1] \in Nat
               /\ Between(s, h) \in Nat
               /\ s[u] <= Between(s, h) /\ Between(s, h) <= s[u + 1]
               /\ 300 * (Between(s, h) - s[u]) <= (s[u + 1] - s[u]) * (h % 300)
               /\ (s[u + 1] - s[u]) * (h % 300) < 300 * (Between(s, h) - s[u]) + 300
<1> DEFINE u == h \div 300
<1>1. u \in Nat /\ 300 * u <= h /\ h < 300 * u + 300
    BY WholeAndRest
<1>2. Between(s, h) = s[u] + ((s[u + 1] - s[u]) * (h % 300)) \div 300
    BY DEF Between
<1> HIDE DEF u
<1>3. u \in 1..n /\ u + 1 \in 1..n /\ u <= u + 1
    BY <1>1
<1>4. s[u] \in Nat /\ s[u + 1] \in Nat /\ s[u] <= s[u + 1]
    BY <1>3 DEF Rising
<1> DEFINE d == s[u + 1] - s[u]
           way == d * (h % 300)
           q == way \div 300
<1>5. d \in Nat
    BY <1>4
<1> HIDE DEF d
<1>6. /\ way \in Nat /\ q \in Nat
      /\ 300 * q <= way /\ way < 300 * q + 300 /\ q <= d
    BY <1>5, Thirds
<1>7. Between(s, h) = s[u] + q
    BY <1>2 DEF d
<1> HIDE DEF q, way
<1>8. /\ Between(s, h) \in Nat /\ s[u] <= Between(s, h) /\ Between(s, h) <= s[u + 1]
      /\ 300 * (Between(s, h) - s[u]) <= way
      /\ way < 300 * (Between(s, h) - s[u]) + 300
    BY <1>4, <1>5, <1>6, <1>7 DEF d
<1>9. way = (s[u + 1] - s[u]) * (h % 300)
    BY DEF way, d
<1> QED
    BY <1>3, <1>4, <1>8, <1>9 DEF u

\* It stands inside the list.
LEMMA AtInside ==
    ASSUME NEW n \in Nat \ {0}, NEW s, Rising(s, n), NEW h \in Nat
    PROVE  At(s, n, h) \in Nat /\ s[1] <= At(s, n, h) /\ At(s, n, h) <= s[n]
<1>1. 1 \in 1..n /\ n \in 1..n /\ s[1] \in Nat /\ s[n] \in Nat /\ s[1] <= s[n]
    BY DEF Rising
<1>2. CASE h <= 300
    BY <1>1, <1>2 DEF At
<1>3. CASE ~ (h <= 300) /\ h >= 300 * n
    BY <1>1, <1>3 DEF At
<1>4. CASE ~ (h <= 300) /\ ~ (h >= 300 * n)
    <2> DEFINE u == h \div 300
    <2>1. /\ u \in 1..n /\ u + 1 \in 1..n
          /\ Between(s, h) \in Nat
          /\ s[u] <= Between(s, h) /\ Between(s, h) <= s[u + 1]
          /\ s[u] \in Nat /\ s[u + 1] \in Nat
        BY <1>4, BetweenIs
    <2>2. At(s, n, h) = Between(s, h)
        BY <1>4 DEF At
    <2> HIDE DEF u
    <2>3. s[1] <= s[u] /\ s[u + 1] <= s[n]
        BY <1>1, <2>1 DEF Rising
    <2> QED
        BY <1>1, <2>1, <2>2, <2>3
<1> QED
    BY <1>2, <1>3, <1>4

\* Further up the list it is no lower.
LEMMA AtRises ==
    ASSUME NEW n \in Nat \ {0}, NEW s, Rising(s, n), NEW h \in Nat, NEW g \in Nat, h <= g
    PROVE  At(s, n, h) <= At(s, n, g)
<1>1. /\ At(s, n, h) \in Nat /\ s[1] <= At(s, n, h) /\ At(s, n, h) <= s[n]
      /\ At(s, n, g) \in Nat /\ s[1] <= At(s, n, g) /\ At(s, n, g) <= s[n]
    BY AtInside
<1>2. CASE h <= 300
    BY <1>1, <1>2 DEF At
<1>3. CASE ~ (h <= 300) /\ g >= 300 * n
    <2>1. At(s, n, g) = s[n]
        BY <1>3 DEF At
    <2> QED
        BY <1>1, <2>1
<1>4. CASE ~ (h <= 300) /\ ~ (g >= 300 * n)
    <2> DEFINE u == h \div 300
               w == g \div 300
    <2>1. 300 < h /\ h < 300 * n /\ 300 < g /\ g < 300 * n
        BY <1>4
    <2>2. /\ u \in 1..n /\ u + 1 \in 1..n /\ s[u] \in Nat /\ s[u + 1] \in Nat
          /\ Between(s, h) \in Nat
          /\ s[u] <= Between(s, h) /\ Between(s, h) <= s[u + 1]
          /\ 300 * (Between(s, h) - s[u]) <= (s[u + 1] - s[u]) * (h % 300)
        BY <2>1, BetweenIs
    <2>3. /\ w \in 1..n /\ w + 1 \in 1..n /\ s[w] \in Nat /\ s[w + 1] \in Nat
          /\ Between(s, g) \in Nat
          /\ s[w] <= Between(s, g) /\ Between(s, g) <= s[w + 1]
          /\ (s[w + 1] - s[w]) * (g % 300) < 300 * (Between(s, g) - s[w]) + 300
        BY <2>1, BetweenIs
    <2>4. At(s, n, h) = Between(s, h) /\ At(s, n, g) = Between(s, g)
        BY <2>1 DEF At
    <2>5. /\ u \in Nat /\ w \in Nat
          /\ h % 300 \in Nat /\ g % 300 \in Nat /\ h % 300 < 300 /\ g % 300 < 300
          /\ h = 300 * u + (h % 300) /\ g = 300 * w + (g % 300)
        BY WholeAndRest
    <2> DEFINE hr == h % 300
               gr == g % 300
    <2> HIDE DEF u, w, hr, gr
    <2>6. u <= w /\ (u = w => hr <= gr)
        BY <2>5 DEF hr, gr
    <2>7. CASE u = w
        <3> DEFINE d == s[u + 1] - s[u]
        <3>1. s[u] <= s[u + 1]
            BY <2>2 DEF Rising
        <3>2. d \in Nat /\ hr \in Nat /\ gr \in Nat /\ hr <= gr
            BY <2>2, <2>5, <2>6, <2>7, <3>1 DEF hr, gr
        <3> HIDE DEF d
        <3>3. hr * d \in Nat /\ gr * d \in Nat /\ hr * d <= gr * d
            BY <3>2, MoreTimes
        <3>4. hr * d = d * hr /\ gr * d = d * gr
            BY <3>2
        <3> DEFINE a == d * hr
                   b == d * gr
        <3>5. a \in Nat /\ b \in Nat /\ a <= b
            BY <3>3, <3>4
        <3>6. 300 * (Between(s, h) - s[u]) <= a
            BY <2>2 DEF d, hr
        <3>7. b < 300 * (Between(s, g) - s[u]) + 300
            BY <2>3, <2>7 DEF d, gr
        <3> HIDE DEF a, b
        <3>8. Between(s, h) <= Between(s, g)
            BY <2>2, <2>3, <3>5, <3>6, <3>7
        <3> QED
            BY <2>4, <3>8
    <2>8. CASE u < w
        <3>1. u + 1 <= w
            BY <2>5, <2>8
        <3>2. s[u + 1] <= s[w]
            BY <2>2, <2>3, <3>1 DEF Rising
        <3> QED
            BY <2>2, <2>3, <2>4, <3>2
    <2> QED
        BY <2>5, <2>6, <2>7, <2>8
<1> QED
    BY <1>2, <1>3, <1>4

\* One more at the end lowers nothing.
LEMMA AtOneMoreAbove ==
    ASSUME NEW n \in Nat \ {0}, NEW s, Rising(s, n), NEW t, Rising(t, n + 1),
           \A k \in 1..n : t[k] = s[k], NEW h \in Nat
    PROVE  At(s, n, h) <= At(t, n + 1, h)
<1>1. 1 \in 1..n /\ n \in 1..n /\ n + 1 \in Nat \ {0} /\ 300 * n \in Nat
    OBVIOUS
<1>2. CASE h <= 300
    <2>1. At(s, n, h) = s[1] /\ At(t, n + 1, h) = t[1] /\ t[1] = s[1] /\ s[1] \in Nat
        BY <1>1, <1>2 DEF At, Rising
    <2> QED
        BY <2>1
<1>3. CASE ~ (h <= 300) /\ h >= 300 * n
    <2>1. At(s, n, h) = s[n] /\ s[n] = t[n]
        BY <1>1, <1>3 DEF At
    <2>2. t[n] = At(t, n + 1, 300 * n)
        <3>1. CASE n = 1
            BY <3>1 DEF At
        <3>2. CASE n # 1
            <4> DEFINE g == 300 * n
            <4>1. g \in Nat /\ 300 < g /\ g < 300 * (n + 1) /\ g \div 300 = n /\ g % 300 = 0
                BY <3>2
            <4>2. n + 1 \in 1..(n + 1) /\ n \in 1..(n + 1)
                BY <1>1
            <4>3. t[n] \in Nat /\ t[n + 1] \in Nat
                BY <4>2 DEF Rising
            <4> HIDE DEF g
            <4>4. At(t, n + 1, g) = Between(t, g)
                BY <4>1 DEF At
            <4>5. Between(t, g) = t[n] + ((t[n + 1] - t[n]) * 0) \div 300
                BY <4>1 DEF Between
            <4>6. (t[n + 1] - t[n]) * 0 = 0 /\ 0 \div 300 = 0
                BY <4>3
            <4> QED
                BY <4>3, <4>4, <4>5, <4>6 DEF g
        <3> QED
            BY <3>1, <3>2
    <2>3. At(t, n + 1, 300 * n) <= At(t, n + 1, h)
        BY <1>1, <1>3, AtRises
    <2> QED
        BY <2>1, <2>2, <2>3
<1>4. CASE ~ (h <= 300) /\ ~ (h >= 300 * n)
    <2> DEFINE u == h \div 300
    <2>1. u \in 1..n /\ u + 1 \in 1..n /\ Between(s, h) \in Nat
        BY <1>4, BetweenIs
    <2>2. t[u] = s[u] /\ t[u + 1] = s[u + 1]
        BY <2>1
    <2>3. Between(t, h) = Between(s, h)
        BY <2>2 DEF Between
    <2>4. At(s, n, h) = Between(s, h) /\ At(t, n + 1, h) = Between(t, h)
        BY <1>4 DEF At
    <2> QED
        BY <2>1, <2>3, <2>4
<1> QED
    BY <1>2, <1>3, <1>4

\* One more in front raises nothing, at the place that moved with it.
LEMMA AtOneMoreBelow ==
    ASSUME NEW n \in Nat \ {0}, NEW s, Rising(s, n), NEW t, Rising(t, n + 1),
           \A k \in 1..n : t[k + 1] = s[k], NEW h \in Nat
    PROVE  At(t, n + 1, h + 300) <= At(s, n, h)
<1>1. 1 \in 1..n /\ n \in 1..n /\ n + 1 \in Nat \ {0}
    OBVIOUS
<1>2. CASE h <= 300
    <2>1. At(s, n, h) = s[1] /\ s[1] = t[2]
        BY <1>1, <1>2 DEF At
    <2>2. t[2] = At(t, n + 1, 600)
        <3>1. CASE n = 1
            BY <3>1 DEF At
        <3>2. CASE n # 1
            <4>1. 600 \in Nat /\ 600 < 300 * (n + 1) /\ 600 \div 300 = 2 /\ 600 % 300 = 0
                BY <3>2
            <4>2. 2 \in 1..(n + 1) /\ 3 \in 1..(n + 1)
                BY <3>2
            <4>3. t[2] \in Nat /\ t[3] \in Nat
                BY <4>2 DEF Rising
            <4>4. At(t, n + 1, 600) = Between(t, 600)
                BY <4>1 DEF At
            <4>5. Between(t, 600) = t[2] + ((t[3] - t[2]) * 0) \div 300
                BY <4>1 DEF Between
            <4>6. (t[3] - t[2]) * 0 = 0 /\ 0 \div 300 = 0
                BY <4>3
            <4> QED
                BY <4>3, <4>4, <4>5, <4>6
        <3> QED
            BY <3>1, <3>2
    <2>3. At(t, n + 1, h + 300) <= At(t, n + 1, 600)
        BY <1>1, <1>2, AtRises
    <2> QED
        BY <2>1, <2>2, <2>3
<1>3. CASE ~ (h <= 300) /\ h >= 300 * n
    <2>1. At(s, n, h) = s[n] /\ s[n] = t[n + 1] /\ s[n] \in Nat
        BY <1>1, <1>3 DEF At, Rising
    <2>2. At(t, n + 1, h + 300) = t[n + 1]
        BY <1>3 DEF At
    <2> QED
        BY <2>1, <2>2
<1>4. CASE ~ (h <= 300) /\ ~ (h >= 300 * n)
    <2> DEFINE u == h \div 300
    <2>1. u \in 1..n /\ u + 1 \in 1..n /\ Between(s, h) \in Nat
        BY <1>4, BetweenIs
    <2>2. (h + 300) \div 300 = u + 1 /\ (h + 300) % 300 = h % 300
        OBVIOUS
    <2> HIDE DEF u
    <2>3. t[u + 1] = s[u] /\ t[u + 1 + 1] = s[u + 1]
        BY <2>1
    <2>4. Between(t, h + 300) = Between(s, h)
        BY <2>2, <2>3 DEF Between, u
    <2>5. At(s, n, h) = Between(s, h) /\ At(t, n + 1, h + 300) = Between(t, h + 300)
        BY <1>4 DEF At
    <2> QED
        BY <2>1, <2>4, <2>5
<1> QED
    BY <1>2, <1>3, <1>4

----------------------------------------------------------------------------
(* A quantile of what runs took. *)

PlaceOf(per_cent, n) == 3 * per_cent * n + per_cent + 100

LEMMA PlaceIsNumber ==
    ASSUME NEW p \in Nat, NEW n \in Nat
    PROVE  PlaceOf(p, n) \in Nat /\ PlaceOf(p, n + 1) = PlaceOf(p, n) + 3 * p
<1>1. 3 * p * n \in Nat /\ 3 * p * (n + 1) = 3 * p * n + 3 * p
    OBVIOUS
<1> QED
    BY <1>1 DEF PlaceOf

LEMMA SortedRises ==
    ASSUME NEW S, IsFiniteSet(S), NEW costs \in [S -> Nat]
    PROVE  Rising(Sorted(costs), Cardinality(S))
<1> DEFINE n == Cardinality(S)
           s == Sorted(costs)
<1>1. n \in Nat /\ s \in [1..n -> Nat]
    BY SortedIs
<1>2. PICK row \in [1..n -> S] : InOrder(costs, row) /\ \A k \in 1..n : s[k] = costs[row[k]]
    BY SortedIs
<1> HIDE DEF n, s
<1>3. ASSUME NEW k \in 1..n, NEW l \in 1..n, k <= l PROVE s[k] <= s[l]
    <2>1. k = l \/ k < l
        BY <1>1, <1>3
    <2>2. s[k] = costs[row[k]] /\ s[l] = costs[row[l]]
        BY <1>2
    <2>3. s[k] \in Nat
        BY <1>1
    <2>4. CASE k < l
        <3>1. costs[row[k]] <= costs[row[l]]
            BY <1>2, <2>4 DEF InOrder
        <3> QED
            BY <2>2, <3>1
    <2> QED
        BY <2>1, <2>3, <2>4
<1> QED
    BY <1>1, <1>3 DEF Rising, n, s

LEMMA QuantileIsAt ==
    ASSUME NEW S, IsFiniteSet(S), S # {}, NEW costs \in [S -> Nat], NEW p \in Nat
    PROVE  LET n == Cardinality(S)
           IN  /\ n \in Nat \ {0}
               /\ Quantile(Sorted(costs), p) = At(Sorted(costs), n, PlaceOf(p, n))
               /\ Quantile(Sorted(costs), p) \in Nat
<1> DEFINE n == Cardinality(S)
           s == Sorted(costs)
<1>1. n \in Nat \ {0}
    BY FS_CardinalityType, FS_EmptySet
<1>2. Len(s) = n /\ Rising(s, n)
    BY SortedIs, SortedRises
<1> HIDE DEF s, n
<1>3. Quantile(s, p) = At(s, n, PlaceOf(p, n))
    BY <1>2 DEF Quantile, At, Between, PlaceOf
<1>4. At(s, n, PlaceOf(p, n)) \in Nat
    BY <1>1, <1>2, AtInside, PlaceIsNumber
<1> QED
    BY <1>1, <1>3, <1>4 DEF s, n

\* A figure read off the sorted list stands where counting says it does.
LEMMA QuantileStands ==
    ASSUME NEW S, IsFiniteSet(S), S # {}, NEW costs \in [S -> Nat], NEW p \in Nat
    PROVE  StandsAt(Quantile(Sorted(costs), p), costs, p)
<1> DEFINE n == Cardinality(S)
           s == Sorted(costs)
           h == PlaceOf(p, n)
           u == h \div 300
           rest == h % 300
           value == Quantile(s, p)
           a == Ranked(costs, u)
           b == Ranked(costs, u + 1)
<1>1. n \in Nat \ {0} /\ h \in Nat /\ value = At(s, n, h) /\ value \in Nat
    BY QuantileIsAt, PlaceIsNumber
<1>2. Rising(s, n)
    BY SortedRises
<1>3. DOMAIN costs = S
    OBVIOUS
<1>4. /\ u \in Nat /\ rest \in Nat /\ rest < 300 /\ h = 300 * u + rest
      /\ 300 * u <= h /\ h < 300 * u + 300
    BY <1>1, WholeAndRest
<1>5. /\ a = s[IF u > n THEN n ELSE IF u > 1 THEN u ELSE 1]
      /\ b = s[IF u + 1 > n THEN n ELSE IF u + 1 > 1 THEN u + 1 ELSE 1]
    BY <1>4, RankedIsSorted
<1>6. SUFFICES 300 * (value - a) <= (b - a) * rest /\ (b - a) * rest < 300 * (value - a) + 300
    BY <1>3 DEF StandsAt, PlaceOf
<1> HIDE DEF s, h, u, rest, value, n, a, b
<1>7. s[1] \in Nat /\ s[n] \in Nat
    BY <1>1, <1>2 DEF Rising
<1>8. CASE h <= 300
    <2>1. value = s[1]
        BY <1>1, <1>8 DEF At
    <2>2. u = 0 \/ (u = 1 /\ rest = 0)
        BY <1>1, <1>4, <1>8
    <2>3. a = s[1]
        BY <1>1, <1>5, <2>2
    <2>4. CASE u = 0
        <3>1. b = s[1]
            BY <1>1, <1>5, <2>4
        <3>2. (b - a) * rest = 0
            BY <1>4, <1>7, <2>3, <3>1
        <3> QED
            BY <1>7, <2>1, <2>3, <3>2
    <2>5. CASE rest = 0 /\ u = 1
        <3>1. b \in Nat
            <4>1. (IF u + 1 > n THEN n ELSE IF u + 1 > 1 THEN u + 1 ELSE 1) \in 1..n
                BY <1>1, <2>5
            <4> QED
                BY <1>2, <1>5, <4>1 DEF Rising
        <3>2. (b - a) * rest = 0
            BY <1>7, <2>3, <2>5, <3>1
        <3> QED
            BY <1>7, <2>1, <2>3, <3>2
    <2> QED
        BY <2>2, <2>4, <2>5
<1>9. CASE ~ (h <= 300) /\ h >= 300 * n
    <2>1. value = s[n]
        BY <1>1, <1>9 DEF At
    <2>2. u >= n
        BY <1>1, <1>4, <1>9
    <2>3. a = s[n] /\ b = s[n]
        BY <1>1, <1>4, <1>5, <2>2
    <2>4. (b - a) * rest = 0
        BY <1>4, <1>7, <2>3
    <2> QED
        BY <1>7, <2>1, <2>3, <2>4
<1>10. CASE ~ (h <= 300) /\ ~ (h >= 300 * n)
    <2>1. 300 < h /\ h < 300 * n
        BY <1>1, <1>10
    <2>2. /\ u \in 1..n /\ u + 1 \in 1..n
          /\ 300 * (Between(s, h) - s[u]) <= (s[u + 1] - s[u]) * rest
          /\ (s[u + 1] - s[u]) * rest < 300 * (Between(s, h) - s[u]) + 300
        BY <1>1, <1>2, <2>1, BetweenIs DEF u, rest
    <2>3. value = Between(s, h)
        BY <1>1, <1>10 DEF At
    <2>4. a = s[u] /\ b = s[u + 1]
        BY <1>1, <1>5, <2>2
    <2> QED
        BY <2>2, <2>3, <2>4
<1> QED
    BY <1>8, <1>9, <1>10

\* A higher quantile is no lower.
LEMMA QuantilesRise ==
    ASSUME NEW S, IsFiniteSet(S), S # {}, NEW costs \in [S -> Nat],
           NEW p \in Nat, NEW q \in Nat, p <= q
    PROVE  Quantile(Sorted(costs), p) <= Quantile(Sorted(costs), q)
<1> DEFINE n == Cardinality(S)
<1>1. /\ n \in Nat \ {0}
      /\ Quantile(Sorted(costs), p) = At(Sorted(costs), n, PlaceOf(p, n))
      /\ Quantile(Sorted(costs), q) = At(Sorted(costs), n, PlaceOf(q, n))
    BY QuantileIsAt
<1>2. Rising(Sorted(costs), n)
    BY SortedRises
<1> HIDE DEF n
<1>3. PlaceOf(p, n) <= PlaceOf(q, n)
    <2>1. p * n \in Nat /\ q * n \in Nat /\ p * n <= q * n
        BY <1>1, MoreTimes
    <2>2. 3 * p * n = 3 * (p * n) /\ 3 * q * n = 3 * (q * n)
        BY <1>1
    <2> QED
        BY <2>1, <2>2 DEF PlaceOf
<1>4. PlaceOf(p, n) \in Nat /\ PlaceOf(q, n) \in Nat
    BY <1>1, PlaceIsNumber
<1> QED
    BY <1>1, <1>2, <1>3, <1>4, AtRises

----------------------------------------------------------------------------
(* What the runs of a model come to. *)

Said == {Unsaid} \cup [1..1 -> Nat]

\* Which runs are such samples.
Those(runs, model, kind, took) ==
    {j \in DOMAIN runs : runs[j].model = model /\ Sampled(runs[j]) = kind /\ took[j] # Unsaid}

LEMMA SampledIs ==
    ASSUME NEW run \in Run
    PROVE  /\ Sampled(run) = "finished" <=> run.outcome = "Completed"
           /\ Sampled(run) = "stopped" <=> run.outcome = "Interrupted" /\ run.at_ceiling
BY DEF Sampled, Run, TaskState

LEMMA SamplesAre ==
    ASSUME NEW runs \in Seq(Run), NEW took \in [DOMAIN runs -> Said], NEW model, NEW kind
    PROVE  LET D == Those(runs, model, kind, took)
           IN  /\ D \in SUBSET (DOMAIN runs) /\ IsFiniteSet(D)
               /\ Samples(runs, model, kind, took) \in [D -> Nat]
               /\ \A i \in D : took[i] \in [1..1 -> Nat]
                               /\ Samples(runs, model, kind, took)[i] = took[i][1]
<1> DEFINE D == Those(runs, model, kind, took)
<1>1. DOMAIN runs = 1..Len(runs) /\ Len(runs) \in Nat
    OBVIOUS
<1>2. D \in SUBSET (DOMAIN runs)
    BY DEF Those
<1>3. IsFiniteSet(D)
    <2>1. IsFiniteSet(1..Len(runs))
        BY <1>1, FS_Interval
    <2> HIDE DEF D
    <2> QED
        BY <1>1, <1>2, <2>1, FS_Subset
<1>4. ASSUME NEW i \in D PROVE took[i] \in [1..1 -> Nat] /\ took[i][1] \in Nat
    <2>1. took[i] \in Said /\ took[i] # Unsaid
        BY <1>2 DEF Those
    <2> QED
        BY <2>1 DEF Said
<1>5. Samples(runs, model, kind, took) = [i \in D |-> took[i][1]]
    BY DEF Samples, Those
<1> HIDE DEF D
<1> QED
    BY <1>2, <1>3, <1>4, <1>5 DEF D

\* The most that was taken is a number, and none of them took more.
LEMMA FloorIs ==
    ASSUME NEW D, IsFiniteSet(D), NEW stopped \in [D -> Nat]
    PROVE  LET floor == Max({0} \cup {stopped[i] : i \in DOMAIN stopped})
           IN  /\ floor \in Nat /\ \A i \in D : stopped[i] <= floor
               /\ floor = 0 \/ \E i \in D : floor = stopped[i]
<1> DEFINE F == {stopped[i] : i \in D}
           G == {0} \cup F
<1>1. stopped \in Surjection(D, F)
    BY DEF Surjection
<1>2. IsFiniteSet(F)
    BY <1>1, FS_Surjection
<1>3. IsFiniteSet(G)
    <2>1. IsFiniteSet(F \cup {0})
        BY <1>2, FS_AddElement
    <2>2. G = F \cup {0}
        OBVIOUS
    <2> QED
        BY <2>1, <2>2
<1>4. G \in SUBSET Nat /\ G # {}
    OBVIOUS
<1>5. DOMAIN stopped = D
    OBVIOUS
<1> HIDE DEF G
<1>6. Max(G) \in G /\ \A x \in G : x <= Max(G)
    BY <1>3, <1>4, MaxOfMany
<1>7. Max({0} \cup {stopped[i] : i \in DOMAIN stopped}) = Max(G)
    BY <1>5 DEF G
<1>8. Max(G) \in Nat
    BY <1>4, <1>6
<1>9. \A i \in D : stopped[i] \in G
    BY DEF G
<1>10. Max(G) = 0 \/ \E i \in D : Max(G) = stopped[i]
    BY <1>6 DEF G
<1> QED
    BY <1>6, <1>7, <1>8, <1>9, <1>10

\* The figures of a model, one by one.
LEMMA UnderIs ==
    ASSUME NEW runs \in Seq(Run), NEW took \in [DOMAIN runs -> Said], NEW model
    PROVE  LET finished == Samples(runs, model, "finished", took)
               stopped == Samples(runs, model, "stopped", took)
               floor == Max({0} \cup {stopped[i] : i \in DOMAIN stopped})
               busy == Quantile(Sorted(finished), 75)
               low == Quantile(Sorted(finished), 25)
               was == Under(runs, model, took)
           IN  /\ DOMAIN finished = Those(runs, model, "finished", took)
               /\ was = NoSizing <=> DOMAIN finished = {}
               /\ DOMAIN finished # {} =>
                     /\ was[1].fallback = low
                     /\ was[1].over = Cardinality(DOMAIN finished)
                     /\ was[1].estimate = IF busy >= 2 * floor THEN busy ELSE 2 * floor
                     /\ busy \in Nat /\ low \in Nat /\ floor \in Nat /\ low <= busy
                     /\ Cardinality(DOMAIN finished) \in Nat \ {0}
<1> DEFINE finished == Samples(runs, model, "finished", took)
           stopped == Samples(runs, model, "stopped", took)
           floor == Max({0} \cup {stopped[i] : i \in DOMAIN stopped})
           busy == Quantile(Sorted(finished), 75)
           low == Quantile(Sorted(finished), 25)
           D == DOMAIN finished
<1>1. /\ D = Those(runs, model, "finished", took) /\ IsFiniteSet(D) /\ finished \in [D -> Nat]
      /\ IsFiniteSet(DOMAIN stopped) /\ stopped \in [DOMAIN stopped -> Nat]
    BY SamplesAre
<1> HIDE DEF finished, stopped
<1>2. floor \in Nat
    BY <1>1, FloorIs
<1>3. Under(runs, model, took) =
          IF D = {} THEN NoSizing
          ELSE <<[estimate |-> Max({busy, floor * 2}), fallback |-> low,
                  over |-> Len(Sorted(finished))]>>
    BY DEF Under, Rule, finished, stopped
<1>4. D # {} => /\ busy \in Nat /\ low \in Nat /\ low <= busy
                /\ Cardinality(D) \in Nat \ {0} /\ Len(Sorted(finished)) = Cardinality(D)
    <2> SUFFICES ASSUME D # {}
                 PROVE  /\ busy \in Nat /\ low \in Nat /\ low <= busy
                        /\ Cardinality(D) \in Nat \ {0} /\ Len(Sorted(finished)) = Cardinality(D)
        OBVIOUS
    <2>1. IsFiniteSet(D) /\ finished \in [D -> Nat]
        BY <1>1
    <2> HIDE DEF D
    <2>2. busy \in Nat /\ Cardinality(D) \in Nat \ {0}
        BY <2>1, QuantileIsAt
    <2>3. low \in Nat
        BY <2>1, QuantileIsAt
    <2>4. low <= busy
        BY <2>1, QuantilesRise
    <2>5. Len(Sorted(finished)) = Cardinality(D)
        BY <2>1, SortedIs
    <2> QED
        BY <2>2, <2>3, <2>4, <2>5
<1> HIDE DEF floor, busy, low, D
<1>5. D # {} => Max({busy, floor * 2}) = IF busy >= 2 * floor THEN busy ELSE 2 * floor
    <2> SUFFICES ASSUME D # {}
                 PROVE  Max({busy, floor * 2}) = IF busy >= 2 * floor THEN busy ELSE 2 * floor
        OBVIOUS
    <2>1. floor * 2 \in Nat /\ floor * 2 = 2 * floor
        BY <1>2
    <2> QED
        BY <1>4, <2>1, MaxOfTwo
<1>6. /\ Under(runs, model, took) = NoSizing <=> D = {}
      /\ D # {} => /\ Under(runs, model, took)[1].fallback = low
                   /\ Under(runs, model, took)[1].over = Len(Sorted(finished))
                   /\ Under(runs, model, took)[1].estimate = Max({busy, floor * 2})
    BY <1>3 DEF NoSizing
<1>7. /\ D = Those(runs, model, "finished", took)
      /\ Under(runs, model, took) = NoSizing <=> D = {}
      /\ D # {} => /\ Under(runs, model, took)[1].fallback = low
                   /\ Under(runs, model, took)[1].over = Cardinality(D)
                   /\ Under(runs, model, took)[1].estimate = IF busy >= 2 * floor THEN busy ELSE 2 * floor
                   /\ busy \in Nat /\ low \in Nat /\ floor \in Nat /\ low <= busy
                   /\ Cardinality(D) \in Nat \ {0}
    BY <1>1, <1>2, <1>4, <1>5, <1>6
<1> QED
    BY <1>7 DEF D, busy, low, floor, finished, stopped

\* What counting says of a sizing holds of the one worked out.
LEMMA SizedAsCounted ==
    ASSUME noted \in Seq(Run), NEW took \in [DOMAIN noted -> Said], NEW model
    PROVE  Sized(model, took, Under(noted, model, took))
<1> DEFINE finished == Samples(noted, model, "finished", took)
           halted == Samples(noted, model, "stopped", took)
           floor == Max({0} \cup {halted[i] : i \in DOMAIN halted})
           busy == Quantile(Sorted(finished), 75)
           low == Quantile(Sorted(finished), 25)
           sizing == Under(noted, model, took)
           stopped == {i \in DOMAIN noted : /\ noted[i].model = model
                                            /\ noted[i].outcome = "Interrupted"
                                            /\ noted[i].at_ceiling /\ took[i] # Unsaid}
           H == Those(noted, model, "stopped", took)
<1>1. /\ IsFiniteSet(DOMAIN finished) /\ finished \in [DOMAIN finished -> Nat]
      /\ IsFiniteSet(H) /\ halted \in [H -> Nat] /\ \A i \in H : halted[i] = took[i][1]
    BY SamplesAre
<1>2. stopped = H
    <2>1. \A i \in DOMAIN noted : noted[i] \in Run
        OBVIOUS
    <2> QED
        BY <2>1, SampledIs DEF Those
<1> HIDE DEF finished, halted, stopped, H
<1>3. /\ floor \in Nat /\ \A i \in H : halted[i] <= floor
      /\ floor = 0 \/ \E i \in H : floor = halted[i]
    BY <1>1, FloorIs
<1>4. /\ sizing = NoSizing <=> DOMAIN finished = {}
      /\ DOMAIN finished # {} =>
            /\ sizing[1].fallback = low
            /\ sizing[1].estimate = IF busy >= 2 * floor THEN busy ELSE 2 * floor
            /\ busy \in Nat /\ low \in Nat /\ low <= busy
    BY UnderIs DEF finished, halted
<1>5. DOMAIN finished # {} => StandsAt(low, finished, 25) /\ StandsAt(busy, finished, 75)
    BY <1>1, QuantileStands
<1> HIDE DEF floor, busy, low, sizing
<1>6. ASSUME DOMAIN finished # {}
      PROVE  /\ sizing[1].fallback <= sizing[1].estimate
             /\ StandsAt(sizing[1].fallback, finished, 25)
             /\ \A i \in stopped : sizing[1].estimate >= 2 * took[i][1]
             /\ stopped = {} => StandsAt(sizing[1].estimate, finished, 75)
    <2>1. sizing[1].fallback <= sizing[1].estimate
        BY <1>3, <1>4, <1>6
    <2>2. StandsAt(sizing[1].fallback, finished, 25)
        BY <1>4, <1>5, <1>6
    <2>3. ASSUME NEW i \in stopped PROVE sizing[1].estimate >= 2 * took[i][1]
        <3>1. took[i][1] \in Nat /\ took[i][1] <= floor
            BY <1>1, <1>2, <1>3
        <3> QED
            BY <1>3, <1>4, <1>6, <3>1
    <2>4. stopped = {} => StandsAt(sizing[1].estimate, finished, 75)
        <3> SUFFICES ASSUME stopped = {} PROVE StandsAt(sizing[1].estimate, finished, 75)
            OBVIOUS
        <3>1. floor = 0
            BY <1>2, <1>3
        <3>2. sizing[1].estimate = busy
            BY <1>4, <1>6, <3>1
        <3> QED
            BY <1>5, <1>6, <3>2
    <2> QED
        BY <2>1, <2>2, <2>3, <2>4
<1>7. /\ sizing = NoSizing <=> DOMAIN finished = {}
      /\ sizing # NoSizing =>
            /\ sizing[1].fallback <= sizing[1].estimate
            /\ StandsAt(sizing[1].fallback, finished, Rule.alone)
            /\ \A i \in stopped : sizing[1].estimate >= 2 * took[i][1]
            /\ stopped = {} => StandsAt(sizing[1].estimate, finished, Rule.busy)
    BY <1>4, <1>6 DEF Rule
<1> QED
    BY <1>7 DEF Sized, finished, stopped, sizing

\* What the limit moved and what the runs were priced at are numbers.
LEMMA RateIsNumbers ==
    ASSUME NEW runs \in Seq(Run)
    PROVE  MovedPerMillionth(runs)[1] \in Nat /\ MovedPerMillionth(runs)[2] \in Nat
<1> DEFINE both == {i \in DOMAIN runs : Moved(runs[i])}
           moved == [i \in both |-> runs[i].over[2] - runs[i].over[1]]
           priced == [i \in both |-> runs[i].spent[2]]
<1>1. IsFiniteSet(both)
    <2>1. DOMAIN runs = 1..Len(runs) /\ Len(runs) \in Nat
        OBVIOUS
    <2>2. IsFiniteSet(1..Len(runs))
        BY <2>1, FS_Interval
    <2>3. both \in SUBSET (1..Len(runs))
        BY <2>1
    <2> HIDE DEF both
    <2> QED
        BY <2>2, <2>3, FS_Subset
<1>2. ASSUME NEW i \in both PROVE moved[i] \in Nat /\ priced[i] \in Nat
    <2>1. runs[i] \in Run /\ Moved(runs[i])
        OBVIOUS
    <2>2. runs[i].over \in Nat \X Nat /\ runs[i].spent \in Nat \X Nat
        BY <2>1 DEF Moved, Run
    <2>3. /\ runs[i].over[1] \in Nat /\ runs[i].over[2] \in Nat /\ runs[i].spent[2] \in Nat
          /\ runs[i].over[2] > runs[i].over[1]
        BY <2>1, <2>2 DEF Moved
    <2> QED
        BY <2>3
<1>3. MovedPerMillionth(runs) = <<SumOver(moved, both), SumOver(priced, both)>>
    BY DEF MovedPerMillionth
<1> HIDE DEF moved, priced, both
<1>4. SumOver(moved, both) \in Nat
    BY <1>1, <1>2, SumIsNumber
<1>5. SumOver(priced, both) \in Nat
    BY <1>1, <1>2, SumIsNumber
<1> QED
    BY <1>3, <1>4, <1>5

LEMMA DividedIsNumber ==
    ASSUME NEW a \in Nat, NEW b \in Nat \ {0}
    PROVE  a \div b \in Nat
OBVIOUS

\* What each run says in the unit of the session, and how long it lasted.
LEMMA RunsSay ==
    ASSUME NEW runs \in Seq(Run)
    PROVE  /\ InUnit(runs) \in [DOMAIN runs -> Said]
           /\ Lasted(runs) \in [DOMAIN runs -> Said]
<1> DEFINE rate == MovedPerMillionth(runs)
<1>1. rate[1] \in Nat /\ rate[2] \in Nat
    BY RateIsNumbers
<1> HIDE DEF rate
<1>2. ASSUME NEW x \in Nat PROVE <<x>> \in Said
    BY DEF Said
<1>3. ASSUME NEW i \in DOMAIN runs
      PROVE  runs[i] \in Run /\ (runs[i].spent # Unsaid => runs[i].spent \in Nat \X Nat)
    <2>1. runs[i] \in Run
        OBVIOUS
    <2>2. runs[i].spent \in {Unsaid} \cup (Nat \X Nat)
        BY <2>1 DEF Run
    <2> QED
        BY <2>1, <2>2
<1>4. ASSUME NEW i \in DOMAIN runs, runs[i].spent # Unsaid
      PROVE  runs[i].spent[1] \in Nat /\ Share(rate, runs[i]) \in Nat
    <2>1. runs[i].spent[1] \in Nat /\ runs[i].spent[2] \in Nat
        BY <1>3, <1>4
    <2>2. Max({rate[2], 1}) \in Nat \ {0}
        BY <1>1, MaxOfTwo
    <2>3. runs[i].spent[2] * rate[1] \in Nat
        BY <1>1, <2>1
    <2>4. Share(rate, runs[i]) \in Nat
        BY <2>2, <2>3, DividedIsNumber DEF Share
    <2> QED
        BY <2>1, <2>4
<1>5. ASSUME NEW i \in DOMAIN runs
      PROVE  (IF runs[i].spent = Unsaid \/ (unit = "share" /\ NoRate(runs)) THEN Unsaid
              ELSE IF unit = "tokens" THEN <<runs[i].spent[1]>>
              ELSE <<Share(rate, runs[i])>>) \in Said
    <2>1. Unsaid \in Said
        BY DEF Said
    <2>2. runs[i].spent # Unsaid =>
              <<runs[i].spent[1]>> \in Said /\ <<Share(rate, runs[i])>> \in Said
        BY <1>2, <1>4
    <2> QED
        BY <2>1, <2>2
<1>6. InUnit(runs) \in [DOMAIN runs -> Said]
    BY <1>5 DEF InUnit, rate
<1>7. Lasted(runs) \in [DOMAIN runs -> Said]
    BY <1>3 DEF Lasted, Run, Said
<1> QED
    BY <1>6, <1>7

LEMMA RunsAreRuns ==
    ASSUME NEW runs \in Seq(Runs)
    PROVE  runs \in Seq(Run)
BY SizingAssumption

\* However a ledger has grown, what its runs come to is what counting them says.
LEMMA LedgerSizes == SizingTypeOK => SizedFromItsRuns
<1> SUFFICES ASSUME SizingTypeOK, NEW model \in Model
             PROVE  /\ Sized(model, InUnit(noted), Cost(noted, model))
                    /\ Sized(model, Lasted(noted), Lasting(noted, model))
    BY DEF SizedFromItsRuns
<1>1. noted \in Seq(Run)
    BY RunsAreRuns DEF SizingTypeOK
<1>2. InUnit(noted) \in [DOMAIN noted -> Said] /\ Lasted(noted) \in [DOMAIN noted -> Said]
    BY <1>1, RunsSay
<1> QED
    BY <1>1, <1>2, SizedAsCounted DEF Cost, Lasting

LEMMA SizingInitTyped == SizingInit => SizingTypeOK
BY SizingAssumption DEF SizingInit, SizingTypeOK

LEMMA SizingStepTyped == SizingTypeOK /\ [SizingNext]_sizingVars => SizingTypeOK'
<1> SUFFICES ASSUME SizingTypeOK, [SizingNext]_sizingVars PROVE SizingTypeOK'
    OBVIOUS
<1>1. CASE UNCHANGED sizingVars
    BY <1>1 DEF SizingTypeOK, sizingVars
<1>2. ASSUME NEW run \in Runs, NoteRun(run) PROVE SizingTypeOK'
    <2>1. noted' = Append(noted, run) /\ Len(noted) < MostNoted /\ unit' = unit
        BY <1>2 DEF NoteRun
    <2>2. noted \in Seq(Runs)
        BY DEF SizingTypeOK
    <2>3. noted' \in Seq(Runs) /\ Len(noted') = Len(noted) + 1
        BY <2>1, <2>2
    <2>4. Len(noted) \in Nat
        BY <2>2
    <2> QED
        BY <2>1, <2>3, <2>4, SizingAssumption DEF SizingTypeOK
<1> QED
    BY <1>1, <1>2 DEF SizingNext

\* The ledger holds nothing but runs, and no more of them than the bound.
THEOREM SizingTyped == SizingSpec => []SizingTypeOK
<1>1. SizingInit => SizingTypeOK
    BY SizingInitTyped
<1>2. SizingTypeOK /\ [SizingNext]_sizingVars => SizingTypeOK'
    BY SizingStepTyped
<1> QED
    BY <1>1, <1>2, PTL DEF SizingSpec

\* Whatever runs the ledger has gained, and in whatever order, the two figures
\* of a model stand at their quantiles among the runs of it that finished, the
\* optimistic one is the lower, and the other is never under twice what a run
\* was stopped at, in what they took and in how long they lasted
\* (core/domain/sizing.rs:79-125, core/service/decision.rs:70-121).
THEOREM SizingSizedFromItsRuns == SizingSpec => []SizedFromItsRuns
BY SizingTyped, LedgerSizes, PTL

----------------------------------------------------------------------------
(* One run more. *)

LEMMA WholeParts ==
    ASSUME NEW a \in Nat, NEW n \in Nat \ {0}
    PROVE  /\ a \div n \in Nat
           /\ n * (a \div n) \in Nat
           /\ n * (a \div n) <= a /\ a < n * (a \div n) + n
OBVIOUS

\* Less is divided into less, and among more into less.
LEMMA DividedLess ==
    ASSUME NEW a \in Nat, NEW b \in Nat, NEW n \in Nat \ {0}, a <= b
    PROVE  /\ a \div n <= b \div n
           /\ a \div (n + 1) <= a \div n
<1> DEFINE q == a \div n
           r == b \div n
           t == a \div (n + 1)
<1>1. /\ q \in Nat /\ n * q \in Nat /\ n * q <= a /\ a < n * q + n
      /\ r \in Nat /\ n * r \in Nat /\ n * r <= b /\ b < n * r + n
    BY WholeParts
<1>2. n + 1 \in Nat \ {0} /\ t \in Nat /\ (n + 1) * t \in Nat /\ (n + 1) * t <= a
    BY WholeParts
<1> HIDE DEF q, r, t
<1>3. ASSUME NEW x \in Nat, NEW y \in Nat, n * x < n * y + n PROVE x <= y
    <2> SUFFICES ASSUME y + 1 <= x PROVE FALSE
        OBVIOUS
    <2>1. (y + 1) * n <= x * n /\ (y + 1) * n = n * y + n /\ x * n = n * x
        BY MoreTimes
    <2>2. n * x \in Nat /\ n * y \in Nat
        OBVIOUS
    <2> QED
        BY <1>3, <2>1, <2>2
<1>4. q <= r
    <2>1. n * q < n * r + n
        BY <1>1
    <2> QED
        BY <1>1, <1>3, <2>1
<1>5. t <= q
    <2>1. (n + 1) * t = n * t + t /\ n * t \in Nat
        BY <1>2
    <2>2. n * t < n * q + n
        BY <1>1, <1>2, <2>1
    <2> QED
        BY <1>1, <1>2, <1>3, <2>2
<1> QED
    BY <1>4, <1>5 DEF q, r, t

\* The one figures are the others, and more.
Alike(plus, costs, S) == \A i \in S : plus[i] = costs[i]
OneMore(T, S, x) == x \notin S /\ T = S \cup {x}

\* A run that took the most stands last.
LEMMA SortedAbove ==
    ASSUME NEW S, IsFiniteSet(S), NEW costs \in [S -> Nat], NEW x, NEW T, OneMore(T, S, x),
           NEW plus \in [T -> Nat], Alike(plus, costs, S),
           \A i \in S : costs[i] <= plus[x]
    PROVE  \A k \in 1..Cardinality(S) : Sorted(plus)[k] = Sorted(costs)[k]
<1> DEFINE n == Cardinality(S)
<1>1. n \in Nat /\ IsFiniteSet(T) /\ Cardinality(T) = n + 1
    BY FS_AddElement, FS_CardinalityType DEF OneMore
<1>2. PICK row \in [1..n -> S] :
          InOrder(costs, row) /\ \A k \in 1..n : Sorted(costs)[k] = costs[row[k]]
    BY SortedIs
<1> HIDE DEF n
<1>3. \A k \in 1..(n + 1) : k # n + 1 => k \in 1..n
    BY <1>1
<1>4. PICK further \in [1..(n + 1) -> T] :
          \A k \in 1..(n + 1) : further[k] = IF k = n + 1 THEN x ELSE row[k]
    <2> DEFINE put == [k \in 1..(n + 1) |-> IF k = n + 1 THEN x ELSE row[k]]
    <2>1. put \in [1..(n + 1) -> T]
        BY <1>2, <1>3 DEF OneMore
    <2> QED
        BY <2>1
<1>5. ASSUME NEW k \in 1..(n + 1), NEW l \in 1..(n + 1), k < l
      PROVE  further[k] # further[l] /\ plus[further[k]] <= plus[further[l]]
    <2>1. k \in 1..n /\ further[k] = row[k] /\ row[k] \in S /\ plus[row[k]] = costs[row[k]]
        BY <1>1, <1>2, <1>4, <1>5 DEF Alike, OneMore
    <2>2. CASE l = n + 1
        BY <1>4, <2>1, <2>2 DEF OneMore
    <2>3. CASE l # n + 1
        <3>1. l \in 1..n /\ further[l] = row[l] /\ row[l] \in S /\ plus[row[l]] = costs[row[l]]
            BY <1>2, <1>3, <1>4, <2>3 DEF Alike, OneMore
        <3>2. row[k] # row[l] /\ costs[row[k]] <= costs[row[l]]
            BY <1>2, <1>5, <2>1, <3>1 DEF InOrder
        <3> QED
            BY <2>1, <3>1, <3>2
    <2> QED
        BY <2>2, <2>3
<1>6. InOrder(plus, further)
    <2>1. DOMAIN further = 1..(n + 1)
        OBVIOUS
    <2> QED
        BY <1>5, <2>1 DEF InOrder
<1>7. ASSUME NEW k \in 1..n PROVE Sorted(plus)[k] = Sorted(costs)[k]
    <2>1. k \in 1..(n + 1) /\ further[k] = row[k] /\ row[k] \in S
              /\ plus[row[k]] = costs[row[k]]
        BY <1>1, <1>2, <1>4 DEF Alike, OneMore
    <2>2. Sorted(plus)[k] = plus[further[k]]
        <3>1. further \in [1..Cardinality(T) -> T] /\ k \in 1..Cardinality(T)
            BY <1>1, <1>4, <2>1
        <3>2. Sorted(plus)[k] = Figure(plus, further, k)
            BY <1>1, <1>6, <3>1, AnyOrder
        <3> QED
            BY <3>2 DEF Figure
    <2> QED
        BY <1>2, <2>1, <2>2
<1> QED
    BY <1>7 DEF n

\* One that took the least stands first.
LEMMA SortedBelow ==
    ASSUME NEW S, IsFiniteSet(S), NEW costs \in [S -> Nat], NEW x, NEW T, OneMore(T, S, x),
           NEW plus \in [T -> Nat], Alike(plus, costs, S),
           \A i \in S : plus[x] <= costs[i]
    PROVE  \A k \in 1..Cardinality(S) : Sorted(plus)[k + 1] = Sorted(costs)[k]
<1> DEFINE n == Cardinality(S)
<1>1. n \in Nat /\ IsFiniteSet(T) /\ Cardinality(T) = n + 1
    BY FS_AddElement, FS_CardinalityType DEF OneMore
<1>2. PICK row \in [1..n -> S] :
          InOrder(costs, row) /\ \A k \in 1..n : Sorted(costs)[k] = costs[row[k]]
    BY SortedIs
<1> HIDE DEF n
<1>3. \A k \in 1..(n + 1) : k # 1 => k - 1 \in 1..n
    BY <1>1
<1>4. PICK further \in [1..(n + 1) -> T] :
          \A k \in 1..(n + 1) : further[k] = IF k = 1 THEN x ELSE row[k - 1]
    <2> DEFINE put == [k \in 1..(n + 1) |-> IF k = 1 THEN x ELSE row[k - 1]]
    <2>1. put \in [1..(n + 1) -> T]
        BY <1>2, <1>3 DEF OneMore
    <2> QED
        BY <2>1
<1>5. ASSUME NEW k \in 1..(n + 1), NEW l \in 1..(n + 1), k < l
      PROVE  further[k] # further[l] /\ plus[further[k]] <= plus[further[l]]
    <2>1. l # 1 /\ l - 1 \in 1..n /\ further[l] = row[l - 1] /\ row[l - 1] \in S
              /\ plus[row[l - 1]] = costs[row[l - 1]]
        BY <1>1, <1>2, <1>3, <1>4, <1>5 DEF Alike, OneMore
    <2>2. CASE k = 1
        BY <1>4, <2>1, <2>2 DEF OneMore
    <2>3. CASE k # 1
        <3>1. k - 1 \in 1..n /\ further[k] = row[k - 1] /\ row[k - 1] \in S /\ k - 1 < l - 1
                  /\ plus[row[k - 1]] = costs[row[k - 1]]
            BY <1>1, <1>2, <1>3, <1>4, <1>5, <2>3 DEF Alike, OneMore
        <3>2. row[k - 1] # row[l - 1] /\ costs[row[k - 1]] <= costs[row[l - 1]]
            BY <1>2, <2>1, <3>1 DEF InOrder
        <3> QED
            BY <2>1, <3>1, <3>2
    <2> QED
        BY <2>2, <2>3
<1>6. InOrder(plus, further)
    <2>1. DOMAIN further = 1..(n + 1)
        OBVIOUS
    <2> QED
        BY <1>5, <2>1 DEF InOrder
<1>7. ASSUME NEW k \in 1..n PROVE Sorted(plus)[k + 1] = Sorted(costs)[k]
    <2>1. k + 1 \in 1..(n + 1) /\ further[k + 1] = row[k] /\ row[k] \in S
              /\ plus[row[k]] = costs[row[k]]
        BY <1>1, <1>2, <1>4 DEF Alike, OneMore
    <2>2. Sorted(plus)[k + 1] = plus[further[k + 1]]
        <3>1. further \in [1..Cardinality(T) -> T] /\ k + 1 \in 1..Cardinality(T)
            BY <1>1, <1>4, <2>1
        <3>2. Sorted(plus)[k + 1] = Figure(plus, further, k + 1)
            BY <1>1, <1>6, <3>1, AnyOrder
        <3> QED
            BY <3>2 DEF Figure
    <2> QED
        BY <1>2, <2>1, <2>2
<1> QED
    BY <1>7 DEF n

\* So one that took the most lowers no quantile, and one that took the least
\* raises none.
LEMMA QuantileAbove ==
    ASSUME NEW S, IsFiniteSet(S), S # {}, NEW costs \in [S -> Nat], NEW x, NEW T, OneMore(T, S, x),
           NEW plus \in [T -> Nat], Alike(plus, costs, S),
           \A i \in S : costs[i] <= plus[x], NEW p \in Nat
    PROVE  Quantile(Sorted(costs), p) <= Quantile(Sorted(plus), p)
<1> DEFINE n == Cardinality(S)
           s == Sorted(costs)
           t == Sorted(plus)
<1>1. n \in Nat \ {0} /\ IsFiniteSet(T) /\ T # {} /\ Cardinality(T) = n + 1
    BY FS_AddElement, FS_CardinalityType, FS_EmptySet DEF OneMore
<1>2. Quantile(s, p) = At(s, n, PlaceOf(p, n)) /\ Quantile(s, p) \in Nat
    BY QuantileIsAt
<1>3. Quantile(t, p) = At(t, n + 1, PlaceOf(p, n + 1)) /\ Quantile(t, p) \in Nat
    BY <1>1, QuantileIsAt
<1>4. Rising(s, n)
    BY SortedRises
<1>5. Rising(t, n + 1)
    BY <1>1, SortedRises
<1>6. \A k \in 1..n : t[k] = s[k]
    BY SortedAbove
<1> HIDE DEF n, s, t
<1>7. /\ PlaceOf(p, n) \in Nat /\ PlaceOf(p, n + 1) \in Nat
      /\ PlaceOf(p, n) <= PlaceOf(p, n + 1)
    <2>1. /\ n \in Nat /\ n + 1 \in Nat /\ PlaceOf(p, n) \in Nat /\ PlaceOf(p, n + 1) \in Nat
          /\ PlaceOf(p, n + 1) = PlaceOf(p, n) + 3 * p
        <3>1. n \in Nat /\ n + 1 \in Nat
            BY <1>1
        <3> QED
            BY <3>1, PlaceIsNumber
    <2> QED
        BY <2>1
<1>8. At(s, n, PlaceOf(p, n)) <= At(t, n + 1, PlaceOf(p, n))
    BY <1>1, <1>4, <1>5, <1>6, <1>7, AtOneMoreAbove
<1>9. n + 1 \in Nat \ {0}
    BY <1>1
<1>10. At(t, n + 1, PlaceOf(p, n)) <= At(t, n + 1, PlaceOf(p, n + 1))
    BY <1>5, <1>7, <1>9, AtRises
<1>11. At(t, n + 1, PlaceOf(p, n)) \in Nat
    BY <1>5, <1>7, <1>9, AtInside
<1> QED
    BY <1>2, <1>3, <1>8, <1>10, <1>11 DEF s, t

LEMMA QuantileBelow ==
    ASSUME NEW S, IsFiniteSet(S), S # {}, NEW costs \in [S -> Nat], NEW x, NEW T, OneMore(T, S, x),
           NEW plus \in [T -> Nat], Alike(plus, costs, S),
           \A i \in S : plus[x] <= costs[i], NEW p \in Nat, p <= 100
    PROVE  Quantile(Sorted(plus), p) <= Quantile(Sorted(costs), p)
<1> DEFINE n == Cardinality(S)
           s == Sorted(costs)
           t == Sorted(plus)
<1>1. n \in Nat \ {0} /\ IsFiniteSet(T) /\ T # {} /\ Cardinality(T) = n + 1
    BY FS_AddElement, FS_CardinalityType, FS_EmptySet DEF OneMore
<1>2. Quantile(s, p) = At(s, n, PlaceOf(p, n)) /\ Quantile(s, p) \in Nat
    BY QuantileIsAt
<1>3. Quantile(t, p) = At(t, n + 1, PlaceOf(p, n + 1)) /\ Quantile(t, p) \in Nat
    BY <1>1, QuantileIsAt
<1>4. Rising(s, n)
    BY SortedRises
<1>5. Rising(t, n + 1)
    BY <1>1, SortedRises
<1>6. \A k \in 1..n : t[k + 1] = s[k]
    BY SortedBelow
<1> HIDE DEF n, s, t
<1>7. /\ PlaceOf(p, n) \in Nat /\ PlaceOf(p, n + 1) \in Nat
      /\ PlaceOf(p, n + 1) <= PlaceOf(p, n) + 300
    <2>1. /\ n \in Nat /\ n + 1 \in Nat /\ PlaceOf(p, n) \in Nat /\ PlaceOf(p, n + 1) \in Nat
          /\ PlaceOf(p, n + 1) = PlaceOf(p, n) + 3 * p
        <3>1. n \in Nat /\ n + 1 \in Nat
            BY <1>1
        <3> QED
            BY <3>1, PlaceIsNumber
    <2> QED
        BY <2>1
<1>8. At(t, n + 1, PlaceOf(p, n) + 300) <= At(s, n, PlaceOf(p, n))
    BY <1>1, <1>4, <1>5, <1>6, <1>7, AtOneMoreBelow
<1>9. n + 1 \in Nat \ {0} /\ PlaceOf(p, n) + 300 \in Nat
    BY <1>1, <1>7
<1>10. At(t, n + 1, PlaceOf(p, n + 1)) <= At(t, n + 1, PlaceOf(p, n) + 300)
    BY <1>5, <1>7, <1>9, AtRises
<1>11. At(t, n + 1, PlaceOf(p, n) + 300) \in Nat
    BY <1>5, <1>9, AtInside
<1> QED
    BY <1>2, <1>3, <1>8, <1>10, <1>11 DEF s, t

\* What the runs of a model that are of a kind took, in tokens.
Took(runs, model, kind) == Samples(runs, model, kind, InUnit(runs))
Which(runs, model, kind) == Those(runs, model, kind, InUnit(runs))
Joins(run, model, kind) == run.model = model /\ Sampled(run) = kind /\ run.spent # Unsaid

Longer(more, runs, run) == more = Append(runs, run)

\* In tokens a run says what it spent, whatever the others say.
LEMMA TokensSaid ==
    ASSUME unit = "tokens", NEW runs \in Seq(Run), NEW i \in DOMAIN runs
    PROVE  /\ InUnit(runs)[i] = Unsaid <=> runs[i].spent = Unsaid
           /\ runs[i].spent # Unsaid => /\ runs[i].spent[1] \in Nat
                                        /\ InUnit(runs)[i] = <<runs[i].spent[1]>>
                                        /\ InUnit(runs)[i][1] = runs[i].spent[1]
<1>1. InUnit(runs)[i] = IF runs[i].spent = Unsaid THEN Unsaid ELSE <<runs[i].spent[1]>>
    BY DEF InUnit
<1>2. runs[i] \in Run
    OBVIOUS
<1>3. runs[i].spent \in {Unsaid} \cup (Nat \X Nat)
    BY <1>2 DEF Run
<1>4. ASSUME NEW x PROVE <<x>> # Unsaid
    <2>1. Len(<<x>>) = 1 /\ Len(Unsaid) = 0
        BY DEF Unsaid
    <2> QED
        BY <2>1
<1>5. CASE runs[i].spent = Unsaid
    BY <1>1, <1>5
<1>6. CASE runs[i].spent # Unsaid
    <2>1. InUnit(runs)[i] = <<runs[i].spent[1]>>
        BY <1>1, <1>6
    <2>2. runs[i].spent[1] \in Nat
        BY <1>3, <1>6
    <2> QED
        BY <1>4, <1>6, <2>1, <2>2
<1> QED
    BY <1>5, <1>6

LEMMA TookIs ==
    ASSUME unit = "tokens", NEW runs \in Seq(Run), NEW model, NEW kind
    PROVE  /\ Which(runs, model, kind) = {i \in DOMAIN runs : Joins(runs[i], model, kind)}
           /\ IsFiniteSet(Which(runs, model, kind))
           /\ Took(runs, model, kind) \in [Which(runs, model, kind) -> Nat]
           /\ \A i \in Which(runs, model, kind) : Took(runs, model, kind)[i] = runs[i].spent[1]
<1> DEFINE D == Which(runs, model, kind)
<1>1. InUnit(runs) \in [DOMAIN runs -> Said]
    BY RunsSay
<1>2. /\ D \in SUBSET (DOMAIN runs) /\ IsFiniteSet(D)
      /\ Took(runs, model, kind) \in [D -> Nat]
      /\ \A i \in D : Took(runs, model, kind)[i] = InUnit(runs)[i][1]
    BY <1>1, SamplesAre DEF Which, Took
<1>3. \A i \in DOMAIN runs : i \in D <=> Joins(runs[i], model, kind)
    <2> TAKE i \in DOMAIN runs
    <2>1. InUnit(runs)[i] = Unsaid <=> runs[i].spent = Unsaid
        BY TokensSaid
    <2> QED
        BY <2>1 DEF Which, Those, Joins
<1>4. \A i \in D : Took(runs, model, kind)[i] = runs[i].spent[1]
    <2> TAKE i \in D
    <2>1. i \in DOMAIN runs /\ runs[i].spent # Unsaid
        BY <1>2, <1>3 DEF Joins
    <2>2. InUnit(runs)[i][1] = runs[i].spent[1]
        BY <2>1, TokensSaid
    <2> QED
        BY <1>2, <2>2
<1> HIDE DEF D
<1>5. D = {i \in DOMAIN runs : Joins(runs[i], model, kind)}
    BY <1>2, <1>3
<1> QED
    BY <1>2, <1>4, <1>5 DEF D

\* A run that is noted joins the samples of its model and its kind, and leaves
\* the others as they were.
LEMMA TookOneMore ==
    ASSUME unit = "tokens", NEW runs \in Seq(Run), NEW run \in Run,
           NEW more, Longer(more, runs, run), NEW x, x = Len(runs) + 1, NEW model, NEW kind
    PROVE  /\ more \in Seq(Run)
           /\ Joins(run, model, kind) =>
                 /\ OneMore(Which(more, model, kind), Which(runs, model, kind), x)
                 /\ Alike(Took(more, model, kind), Took(runs, model, kind), Which(runs, model, kind))
                 /\ Took(more, model, kind)[x] = run.spent[1]
           /\ ~Joins(run, model, kind) => Took(more, model, kind) = Took(runs, model, kind)
                                           /\ Which(more, model, kind) = Which(runs, model, kind)
<1> DEFINE D == Which(runs, model, kind)
           E == Which(more, model, kind)
           was == Took(runs, model, kind)
           is == Took(more, model, kind)
<1>1. /\ more \in Seq(Run) /\ Len(runs) \in Nat /\ DOMAIN runs = 1..Len(runs)
      /\ DOMAIN more = 1..(Len(runs) + 1)
      /\ more[x] = run /\ \A i \in DOMAIN runs : more[i] = runs[i]
    BY DEF Longer
<1>2. DOMAIN more = DOMAIN runs \cup {x} /\ x \notin DOMAIN runs
    BY <1>1
<1>3. /\ D = {i \in DOMAIN runs : Joins(runs[i], model, kind)}
      /\ was \in [D -> Nat] /\ \A i \in D : was[i] = runs[i].spent[1]
    BY TookIs
<1>4. /\ E = {i \in DOMAIN more : Joins(more[i], model, kind)}
      /\ is \in [E -> Nat] /\ \A i \in E : is[i] = more[i].spent[1]
    <2>1. more \in Seq(Run)
        BY <1>1
    <2> QED
        BY <2>1, TookIs
<1> HIDE DEF D, E, was, is
<1>5. x \notin D /\ E = IF Joins(run, model, kind) THEN D \cup {x} ELSE D
    BY <1>1, <1>2, <1>3, <1>4
<1>6. \A i \in D : i \in E /\ is[i] = was[i]
    BY <1>1, <1>3, <1>4, <1>5
<1>7. CASE Joins(run, model, kind)
    <2>1. OneMore(E, D, x)
        BY <1>5, <1>7 DEF OneMore
    <2>2. Alike(is, was, D)
        BY <1>6 DEF Alike
    <2>3. is[x] = run.spent[1]
        BY <1>1, <1>4, <1>5, <1>7
    <2> QED
        BY <1>1, <1>7, <2>1, <2>2, <2>3 DEF D, E, was, is
<1>8. CASE ~Joins(run, model, kind)
    <2>1. E = D
        BY <1>5, <1>8
    <2>2. is \in [D -> Nat] /\ was \in [D -> Nat] /\ \A i \in D : is[i] = was[i]
        BY <1>3, <1>4, <1>6, <2>1
    <2>3. is = was
        BY <2>2
    <2> QED
        BY <1>1, <1>8, <2>1, <2>3 DEF D, E, was, is
<1> QED
    BY <1>7, <1>8

Most(figures) == Max({0} \cup {figures[i] : i \in DOMAIN figures})
LowFigure(figures) == Quantile(Sorted(figures), 25)
HighFigure(figures) == Quantile(Sorted(figures), 75)
Higher(a, b) == IF a >= b THEN a ELSE b

\* What a model comes to in tokens, from what its runs took.
LEMMA CostIs ==
    ASSUME unit = "tokens", NEW runs \in Seq(Run), NEW model
    PROVE  LET D == Which(runs, model, "finished")
               finished == Took(runs, model, "finished")
               floor == Most(Took(runs, model, "stopped"))
               was == Cost(runs, model)
           IN  /\ was = NoSizing <=> D = {}
               /\ floor \in Nat
               /\ D # {} =>
                     /\ was[1].fallback = LowFigure(finished) /\ LowFigure(finished) \in Nat
                     /\ was[1].over = Cardinality(D) /\ Cardinality(D) \in Nat \ {0}
                     /\ was[1].estimate = Higher(HighFigure(finished), 2 * floor)
                     /\ HighFigure(finished) \in Nat
<1> DEFINE D == Which(runs, model, "finished")
           finished == Took(runs, model, "finished")
           stopped == Took(runs, model, "stopped")
<1>1. InUnit(runs) \in [DOMAIN runs -> Said]
    BY RunsSay
<1>2. stopped \in [Which(runs, model, "stopped") -> Nat] /\ IsFiniteSet(Which(runs, model, "stopped"))
    BY TookIs
<1>3. Most(stopped) \in Nat
    <2> HIDE DEF stopped
    <2> QED
        BY <1>2, FloorIs DEF Most
<1>4. DOMAIN finished = D
    BY TookIs
<1>5. /\ Cost(runs, model) = NoSizing <=> DOMAIN finished = {}
      /\ DOMAIN finished # {} =>
            /\ Cost(runs, model)[1].fallback = LowFigure(finished)
            /\ Cost(runs, model)[1].over = Cardinality(DOMAIN finished)
            /\ Cost(runs, model)[1].estimate = Higher(HighFigure(finished), 2 * Most(stopped))
            /\ HighFigure(finished) \in Nat /\ LowFigure(finished) \in Nat
            /\ Cardinality(DOMAIN finished) \in Nat \ {0}
    BY <1>1, UnderIs DEF Cost, Took, Most, LowFigure, HighFigure, Higher
<1> QED
    BY <1>3, <1>4, <1>5

LEMMA CostSame ==
    ASSUME NEW runs, NEW more, NEW model,
           Took(more, model, "finished") = Took(runs, model, "finished"),
           Took(more, model, "stopped") = Took(runs, model, "stopped")
    PROVE  Cost(more, model) = Cost(runs, model)
BY DEF Cost, Under, Took

\* A run that was stopped lowers none of the most that were stopped at.
LEMMA MostRises ==
    ASSUME NEW S, IsFiniteSet(S), NEW costs \in [S -> Nat], NEW x, NEW T, OneMore(T, S, x),
           NEW plus \in [T -> Nat], Alike(plus, costs, S)
    PROVE  Most(costs) \in Nat /\ Most(plus) \in Nat /\ Most(costs) <= Most(plus)
<1>1. IsFiniteSet(T) /\ \A i \in S : i \in T /\ plus[i] = costs[i]
    BY FS_AddElement DEF OneMore, Alike
<1>2. Most(costs) \in Nat /\ (Most(costs) = 0 \/ \E i \in S : Most(costs) = costs[i])
    BY FloorIs DEF Most
<1>3. Most(plus) \in Nat /\ \A i \in T : plus[i] <= Most(plus)
    BY <1>1, FloorIs DEF Most
<1> QED
    BY <1>1, <1>2, <1>3

\* What a run of a model is allowed, from the estimate and from how many.
LEMMA AllowedIs ==
    ASSUME NEW sizing, sizing.estimate \in Nat, sizing.over \in Nat \ {0}
    PROVE  /\ Allowing_(sizing) = sizing.estimate + sizing.estimate \div sizing.over
           /\ sizing.estimate \div sizing.over \in Nat
           /\ Allowing_(sizing) \in Nat
<1>1. Max({sizing.over, 1}) = sizing.over
    BY MaxOfTwo
<1>2. sizing.estimate * 1 = sizing.estimate
    OBVIOUS
<1>3. Allowing_(sizing) = sizing.estimate + sizing.estimate \div sizing.over
    BY <1>1, <1>2 DEF Allowing_, Rule
<1>4. sizing.estimate \div sizing.over \in Nat
    BY DividedIsNumber
<1> QED
    BY <1>3, <1>4

LEMMA AllowedRises ==
    ASSUME NEW one, one.estimate \in Nat, one.over \in Nat \ {0},
           NEW two, two.estimate \in Nat, two.over \in Nat \ {0},
           one.estimate <= two.estimate, one.over = two.over \/ one.over = two.over + 1
    PROVE  Allowing_(one) <= Allowing_(two)
<1> DEFINE a == one.estimate
           b == two.estimate
           n == two.over
<1>1. /\ Allowing_(one) = a + a \div one.over /\ a \div one.over \in Nat
      /\ Allowing_(two) = b + b \div n /\ b \div n \in Nat
    BY AllowedIs
<1>2. a \in Nat /\ b \in Nat /\ n \in Nat \ {0} /\ a <= b /\ (one.over = n \/ one.over = n + 1)
    OBVIOUS
<1> HIDE DEF a, b, n
<1>3. a \div n <= b \div n /\ a \div (n + 1) <= a \div n
    BY <1>2, DividedLess
<1>4. a \div n \in Nat
    BY <1>2, DividedIsNumber
<1>5. a \div one.over <= b \div n
    BY <1>1, <1>2, <1>3, <1>4
<1> QED
    BY <1>1, <1>2, <1>5

\* What the run that was noted does to what its model comes to.
LEMMA StoppedRaises ==
    ASSUME unit = "tokens", NEW runs \in Seq(Run), NEW run \in Run,
           NEW more, Longer(more, runs, run), NEW model, Joins(run, model, "stopped"),
           Cost(runs, model) # NoSizing
    PROVE  LET was == Cost(runs, model)
               is == Cost(more, model)
           IN  /\ is[1].estimate >= was[1].estimate /\ is[1].fallback = was[1].fallback
               /\ is[1].fallback >= was[1].fallback
               /\ Allowing_(is[1]) >= Allowing_(was[1])
<1> DEFINE was == Cost(runs, model)
           is == Cost(more, model)
           x == Len(runs) + 1
           D == Which(runs, model, "finished")
           finished == Took(runs, model, "finished")
<1>1. ~Joins(run, model, "finished")
    BY DEF Joins
<1>2. /\ more \in Seq(Run)
      /\ Took(more, model, "finished") = finished /\ Which(more, model, "finished") = D
    BY <1>1, TookOneMore
<1>3. /\ OneMore(Which(more, model, "stopped"), Which(runs, model, "stopped"), x)
      /\ Alike(Took(more, model, "stopped"), Took(runs, model, "stopped"), Which(runs, model, "stopped"))
    BY TookOneMore
<1>4. /\ IsFiniteSet(Which(runs, model, "stopped"))
      /\ Took(runs, model, "stopped") \in [Which(runs, model, "stopped") -> Nat]
      /\ Took(more, model, "stopped") \in [Which(more, model, "stopped") -> Nat]
    BY <1>2, TookIs
<1> DEFINE f == Most(Took(runs, model, "stopped"))
           g == Most(Took(more, model, "stopped"))
<1>5. f \in Nat /\ g \in Nat /\ f <= g
    BY <1>3, <1>4, MostRises
<1>6. /\ D # {}
      /\ was[1].fallback = LowFigure(finished) /\ LowFigure(finished) \in Nat
      /\ was[1].over = Cardinality(D) /\ Cardinality(D) \in Nat \ {0}
      /\ was[1].estimate = Higher(HighFigure(finished), 2 * f) /\ HighFigure(finished) \in Nat
    BY CostIs
<1>7. /\ is[1].fallback = LowFigure(finished) /\ is[1].over = Cardinality(D)
      /\ is[1].estimate = Higher(HighFigure(finished), 2 * g)
    BY <1>2, <1>6, CostIs
<1> HIDE DEF was, is, D, finished, f, g
<1>8. /\ was[1].estimate \in Nat /\ is[1].estimate \in Nat /\ was[1].estimate <= is[1].estimate
    BY <1>5, <1>6, <1>7 DEF Higher
<1>9. Allowing_(was[1]) <= Allowing_(is[1]) /\ Allowing_(was[1]) \in Nat /\ Allowing_(is[1]) \in Nat
    BY <1>6, <1>7, <1>8, AllowedRises, AllowedIs
<1>10. /\ is[1].estimate >= was[1].estimate /\ is[1].fallback = was[1].fallback
       /\ is[1].fallback >= was[1].fallback /\ Allowing_(is[1]) >= Allowing_(was[1])
    BY <1>6, <1>7, <1>8, <1>9
<1> QED
    BY <1>10 DEF was, is

LEMMA FinishedMoves ==
    ASSUME unit = "tokens", NEW runs \in Seq(Run), NEW run \in Run,
           NEW more, Longer(more, runs, run), NEW model, Joins(run, model, "finished"),
           Cost(runs, model) # NoSizing
    PROVE  LET was == Cost(runs, model)
               is == Cost(more, model)
           IN  /\ Dearest(runs, run) => /\ is[1].estimate >= was[1].estimate
                                        /\ is[1].fallback >= was[1].fallback
               /\ Cheapest(runs, run) => /\ Allowing_(is[1]) <= Allowing_(was[1])
                                         /\ is[1].fallback <= was[1].fallback
<1> DEFINE was == Cost(runs, model)
           is == Cost(more, model)
           x == Len(runs) + 1
           D == Which(runs, model, "finished")
           E == Which(more, model, "finished")
           old == Took(runs, model, "finished")
           new == Took(more, model, "finished")
           f == Most(Took(runs, model, "stopped"))
<1>1. ~Joins(run, model, "stopped")
    BY DEF Joins
<1>2. /\ more \in Seq(Run)
      /\ Took(more, model, "stopped") = Took(runs, model, "stopped")
    BY <1>1, TookOneMore
<1>3. OneMore(E, D, x) /\ Alike(new, old, D) /\ new[x] = run.spent[1]
    BY TookOneMore
<1>4. /\ IsFiniteSet(D) /\ old \in [D -> Nat] /\ new \in [E -> Nat]
      /\ D = {i \in DOMAIN runs : Joins(runs[i], model, "finished")}
      /\ \A i \in D : old[i] = runs[i].spent[1]
    BY <1>2, TookIs
<1>5. /\ D # {} /\ f \in Nat
      /\ was[1].fallback = LowFigure(old) /\ LowFigure(old) \in Nat
      /\ was[1].over = Cardinality(D) /\ Cardinality(D) \in Nat \ {0}
      /\ was[1].estimate = Higher(HighFigure(old), 2 * f) /\ HighFigure(old) \in Nat
    BY CostIs
<1>6. E # {} /\ Cardinality(E) = Cardinality(D) + 1
    <2> HIDE DEF D, E, x
    <2>1. x \notin D /\ E = D \cup {x} /\ IsFiniteSet(D)
        BY <1>3, <1>4 DEF OneMore
    <2> QED
        BY <2>1, FS_AddElement
<1>7. /\ is[1].fallback = LowFigure(new) /\ LowFigure(new) \in Nat
      /\ is[1].over = Cardinality(E)
      /\ is[1].estimate = Higher(HighFigure(new), 2 * f) /\ HighFigure(new) \in Nat
    BY <1>2, <1>6, CostIs
<1>8. run.model = model
    BY DEF Joins
<1>9. \A i \in D : runs[i].model = model /\ runs[i].spent # Unsaid /\ i \in DOMAIN runs
    BY <1>4 DEF Joins
<1> HIDE DEF was, is, D, E, old, new, f, x
<1>10. ASSUME Dearest(runs, run)
       PROVE  is[1].estimate >= was[1].estimate /\ is[1].fallback >= was[1].fallback
    <2>1. \A i \in D : old[i] <= new[x]
        BY <1>3, <1>4, <1>8, <1>9, <1>10 DEF Dearest
    <2>2. LowFigure(old) <= LowFigure(new) /\ HighFigure(old) <= HighFigure(new)
        BY <1>3, <1>4, <1>5, <2>1, QuantileAbove DEF LowFigure, HighFigure
    <2> QED
        BY <1>5, <1>7, <2>2 DEF Higher
<1>11. ASSUME Cheapest(runs, run)
       PROVE  Allowing_(is[1]) <= Allowing_(was[1]) /\ is[1].fallback <= was[1].fallback
    <2>1. \A i \in D : new[x] <= old[i]
        <3>1. \A i \in D : runs[i].spent[1] >= run.spent[1]
            BY <1>8, <1>9, <1>11 DEF Cheapest
        <3>2. new[x] \in Nat
            BY <1>3, <1>4 DEF OneMore
        <3> QED
            BY <1>3, <1>4, <3>1, <3>2
    <2>2. LowFigure(new) <= LowFigure(old) /\ HighFigure(new) <= HighFigure(old)
        <3>1. ASSUME NEW p \in Nat, p <= 100
              PROVE  Quantile(Sorted(new), p) <= Quantile(Sorted(old), p)
            BY <1>3, <1>4, <1>5, <2>1, <3>1, QuantileBelow
        <3> QED
            BY <3>1 DEF LowFigure, HighFigure
    <2>3. /\ is[1].estimate \in Nat /\ was[1].estimate \in Nat
          /\ is[1].estimate <= was[1].estimate
        BY <1>5, <1>7, <2>2 DEF Higher
    <2>4. is[1].over \in Nat \ {0} /\ was[1].over \in Nat \ {0} /\ is[1].over = was[1].over + 1
        BY <1>5, <1>6, <1>7
    <2>5. Allowing_(is[1]) <= Allowing_(was[1])
        BY <2>3, <2>4, AllowedRises
    <2> QED
        BY <1>5, <1>7, <2>2, <2>5
<1> QED
    BY <1>10, <1>11 DEF was, is

LEMMA OthersLeave ==
    ASSUME unit = "tokens", NEW runs \in Seq(Run), NEW run \in Run,
           NEW more, Longer(more, runs, run), NEW model,
           ~Joins(run, model, "stopped"), ~Joins(run, model, "finished")
    PROVE  /\ Cost(more, model) = Cost(runs, model)
           /\ Cost(runs, model) # NoSizing =>
                 /\ Cost(runs, model)[1].estimate \in Nat
                 /\ Cost(runs, model)[1].fallback \in Nat
                 /\ Allowing_(Cost(runs, model)[1]) \in Nat
<1>1. Cost(more, model) = Cost(runs, model)
    BY TookOneMore, CostSame
<1> DEFINE was == Cost(runs, model)
<1>2. was # NoSizing => /\ was[1].estimate \in Nat /\ was[1].fallback \in Nat
                        /\ was[1].over \in Nat \ {0}
    BY CostIs DEF Higher
<1> HIDE DEF was
<1>3. was # NoSizing => Allowing_(was[1]) \in Nat
    BY <1>2, AllowedIs
<1> QED
    BY <1>1, <1>2, <1>3 DEF was

LEMMA FollowsOneRun ==
    ASSUME unit = "tokens", NEW runs \in Seq(Run), NEW run \in Run,
           NEW more, Longer(more, runs, run), NEW model
    PROVE  LET was == Cost(runs, model)
               is == Cost(more, model)
               both == was # NoSizing /\ is # NoSizing
           IN  /\ run.model # model \/ Sampled(run) = "neither" \/ run.spent = Unsaid => is = was
               /\ both /\ run.spent # Unsaid /\ Dearest(runs, run) =>
                     is[1].estimate >= was[1].estimate /\ is[1].fallback >= was[1].fallback
               /\ both /\ Sampled(run) = "stopped" =>
                     Allowing_(is[1]) >= Allowing_(was[1]) /\ is[1].fallback = was[1].fallback
               /\ both /\ run.spent # Unsaid /\ Sampled(run) = "finished" /\ Cheapest(runs, run) =>
                     Allowing_(is[1]) <= Allowing_(was[1]) /\ is[1].fallback <= was[1].fallback
<1> DEFINE was == Cost(runs, model)
           is == Cost(more, model)
<1>1. CASE Joins(run, model, "stopped")
    <2>1. was # NoSizing => /\ is[1].estimate >= was[1].estimate /\ is[1].fallback = was[1].fallback
                            /\ is[1].fallback >= was[1].fallback
                            /\ Allowing_(is[1]) >= Allowing_(was[1])
        BY <1>1, StoppedRaises
    <2>2. run.model = model /\ Sampled(run) = "stopped" /\ run.spent # Unsaid
        BY <1>1 DEF Joins
    <2> QED
        BY <2>1, <2>2
<1>2. CASE Joins(run, model, "finished")
    <2>1. was # NoSizing =>
              /\ Dearest(runs, run) => /\ is[1].estimate >= was[1].estimate
                                       /\ is[1].fallback >= was[1].fallback
              /\ Cheapest(runs, run) => /\ Allowing_(is[1]) <= Allowing_(was[1])
                                        /\ is[1].fallback <= was[1].fallback
        BY <1>2, FinishedMoves
    <2>2. run.model = model /\ Sampled(run) = "finished" /\ run.spent # Unsaid
        BY <1>2 DEF Joins
    <2> QED
        BY <2>1, <2>2
<1>3. CASE ~Joins(run, model, "stopped") /\ ~Joins(run, model, "finished")
    <2>1. is = was /\ (was # NoSizing => /\ was[1].estimate \in Nat /\ was[1].fallback \in Nat
                                         /\ Allowing_(was[1]) \in Nat)
        BY <1>3, OthersLeave
    <2> QED
        BY <2>1
<1> QED
    BY <1>1, <1>2, <1>3

\* For any runs and any figures, one run more moves what its model comes to in
\* tokens the way it should and never the other: the dearest lowers no figure,
\* the cheapest raises neither what a run is allowed nor the optimistic one, a
\* run that was stopped lowers nothing, and one of another model, one that
\* failed or one that says nothing changes nothing (core/domain/sizing.rs:79-155).
THEOREM SizingFollowsTheRun == SizingSpec => FollowsTheRun
<1> DEFINE Follows == noted' # noted /\ unit = "tokens" => \A model \in Model :
          LET run == noted'[Len(noted')]
              was == Cost(noted, model)
              is == Cost(noted', model)
              both == was # NoSizing /\ is # NoSizing
          IN  /\ run.model # model \/ Sampled(run) = "neither" \/ run.spent = Unsaid => is = was
              /\ both /\ run.spent # Unsaid /\ Dearest(noted, run) =>
                    is[1].estimate >= was[1].estimate /\ is[1].fallback >= was[1].fallback
              /\ both /\ Sampled(run) = "stopped" =>
                    Allowing_(is[1]) >= Allowing_(was[1]) /\ is[1].fallback = was[1].fallback
              /\ both /\ run.spent # Unsaid /\ Sampled(run) = "finished" /\ Cheapest(noted, run) =>
                    Allowing_(is[1]) <= Allowing_(was[1]) /\ is[1].fallback <= was[1].fallback
<1>1. ASSUME SizingTypeOK, [SizingNext]_sizingVars PROVE [Follows]_sizingVars
    <2>1. CASE UNCHANGED sizingVars
        BY <2>1
    <2>2. ASSUME NEW run \in Runs, NoteRun(run), noted' # noted, unit = "tokens"
          PROVE  Follows
        <3>1. noted \in Seq(Run) /\ run \in Run
            BY <1>1, RunsAreRuns, SizingAssumption DEF SizingTypeOK
        <3>2. Longer(noted', noted, run) /\ noted'[Len(noted')] = run
            BY <2>2, <3>1 DEF NoteRun, Longer
        <3> QED
            BY <2>2, <3>1, <3>2, FollowsOneRun
    <2> QED
        BY <1>1, <2>1, <2>2 DEF SizingNext
<1>2. SizingSpec => [][Follows]_sizingVars
    BY <1>1, SizingTyped, PTL DEF SizingSpec
<1> QED
    BY <1>2 DEF FollowsTheRun
============================================================================
