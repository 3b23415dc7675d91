---------------------------- MODULE DaemonProofs ----------------------------
(***************************************************************************)
(* The threads of cisternd, for any number of workers, handlers, tasks,    *)
(* sessions, deaths and failing calls.                                     *)
(***************************************************************************)
EXTENDS Daemon, TasksProofs

----------------------------------------------------------------------------
(* The order of registration. *)

Orders(order, T) ==
    /\ order \in [1..Cardinality(T) -> T]
    /\ \A t \in T : \E i \in DOMAIN order : order[i] = t
    /\ \A i, j \in DOMAIN order : i < j => order[i] < order[j]

\* The tasks of a set can be put in the order of their numbers.
LEMMA OrderExists ==
    ASSUME NEW T \in SUBSET Nat, IsFiniteSet(T)
    PROVE  \E order : Orders(order, T)
<1> DEFINE P(k) == \A U \in SUBSET T : Cardinality(U) = k => \E order : Orders(order, U)
           Known == {k \in Nat : P(k)}
<1>1. \A U \in SUBSET T : IsFiniteSet(U) /\ Cardinality(U) \in Nat
    BY FS_Subset, FS_CardinalityType
<1>2. P(0)
    <2> SUFFICES ASSUME NEW U \in SUBSET T, Cardinality(U) = 0
                 PROVE  \E order : Orders(order, U)
        OBVIOUS
    <2>1. U = {}
        BY <1>1, FS_EmptySet
    <2> DEFINE order == [i \in 1..0 |-> i]
    <2>2. Orders(order, U)
        BY <2>1 DEF Orders
    <2> QED
        BY <2>2
<1>3. ASSUME NEW k \in Nat, P(k) PROVE P(k + 1)
    <2> SUFFICES ASSUME NEW U \in SUBSET T, Cardinality(U) = k + 1
                 PROVE  \E order : Orders(order, U)
        OBVIOUS
    <2>1. U # {}
        BY FS_EmptySet
    <2>2. PICK m \in U : \A u \in U : m <= u
        BY <2>1, LeastNumber
    <2> DEFINE R == U \ {m}
    <2>3. R \in SUBSET T /\ R \in SUBSET Nat /\ m \in Nat /\ \A u \in R : m < u
        BY <2>2
    <2>4. Cardinality(R) = k
        <3>1. Cardinality(R) = Cardinality(U) - 1
            BY <1>1, <2>2, FS_RemoveElement
        <3> QED
            BY <3>1
    <2>5. PICK rest : Orders(rest, R)
        BY <1>3, <2>3, <2>4
    <2> DEFINE order == [i \in 1..(k+1) |-> IF i = 1 THEN m ELSE rest[i-1]]
    <2>6. rest \in [1..k -> R]
        BY <2>4, <2>5 DEF Orders
    <2>7. \A i \in 2..(k+1) : i - 1 \in 1..k /\ order[i] = rest[i-1] /\ rest[i-1] \in R
        BY <2>6
    <2>8. order[1] = m
        OBVIOUS
    <2>9. order \in [1..(k+1) -> U]
        <3> SUFFICES ASSUME NEW i \in 1..(k+1) PROVE order[i] \in U
            OBVIOUS
        <3>1. i = 1 \/ i \in 2..(k+1)
            OBVIOUS
        <3> HIDE DEF order
        <3> QED
            BY <2>2, <2>7, <2>8, <3>1
    <2>10. ASSUME NEW u \in U PROVE \E i \in DOMAIN order : order[i] = u
        <3>1. CASE u = m
            BY <2>8, <3>1
        <3>2. CASE u # m
            <4>1. PICK i \in 1..k : rest[i] = u
                BY <2>5, <2>6, <3>2 DEF Orders
            <4>2. i + 1 \in 2..(k+1) /\ i + 1 \in DOMAIN order /\ i + 1 - 1 = i
                BY <4>1
            <4>3. order[i+1] = rest[i]
                BY <4>2
            <4> QED
                BY <4>1, <4>2, <4>3
        <3> QED
            BY <3>1, <3>2
    <2>11. ASSUME NEW i \in 1..(k+1), NEW j \in 1..(k+1), i < j
           PROVE  order[i] < order[j]
        <3>1. j \in 2..(k+1)
            BY <2>11
        <3>2. CASE i = 1
            BY <2>3, <2>7, <2>8, <3>1, <3>2
        <3>3. CASE i # 1
            <4>1. i \in 2..(k+1)
                BY <3>3
            <4>2. i - 1 \in DOMAIN rest /\ j - 1 \in DOMAIN rest /\ i - 1 < j - 1
                BY <2>6, <2>11, <3>1, <4>1
            <4> QED
                BY <2>5, <2>7, <3>1, <4>1, <4>2 DEF Orders
        <3> QED
            BY <3>2, <3>3
    <2> HIDE DEF order
    <2>12. DOMAIN order = 1..(k+1)
        BY <2>9
    <2>13. Orders(order, U)
        BY <2>9, <2>10, <2>11, <2>12 DEF Orders
    <2> QED
        BY <2>13
<1> HIDE DEF P
<1>4. 0 \in Known /\ Known \in SUBSET Nat /\ \A k \in Known : k + 1 \in Known
    BY <1>2, <1>3
<1> HIDE DEF Known
<1>5. Known = Nat
    BY <1>4, EveryNumber
<1>6. Cardinality(T) \in Nat /\ P(Cardinality(T))
    BY <1>1, <1>5 DEF Known
<1> QED
    BY <1>6 DEF P

\* So `InOrder` names each of them once, and none twice.
LEMMA InOrderOrders ==
    ASSUME NEW T \in SUBSET Nat, IsFiniteSet(T)
    PROVE  /\ Orders(InOrder(T), T)
           /\ InOrder(T) \in Seq(T)
           /\ DOMAIN InOrder(T) = 1..Cardinality(T)
           /\ \A i, j \in DOMAIN InOrder(T) : i # j => InOrder(T)[i] # InOrder(T)[j]
<1>1. Orders(InOrder(T), T)
    <2>1. PICK order : Orders(order, T)
        BY OrderExists
    <2> QED
        BY <2>1 DEF Orders, InOrder
<1> DEFINE order == InOrder(T)
<1> HIDE DEF order
<1>2. Cardinality(T) \in Nat
    BY FS_CardinalityType
<1>3. order \in [1..Cardinality(T) -> T]
    BY <1>1 DEF Orders, order
<1>4. order \in Seq(T) /\ DOMAIN order = 1..Cardinality(T)
    BY <1>2, <1>3
<1>5. \A i, j \in DOMAIN order : i # j => order[i] # order[j]
    <2> SUFFICES ASSUME NEW i \in DOMAIN order, NEW j \in DOMAIN order, i # j
                 PROVE  order[i] # order[j]
        OBVIOUS
    <2>1. i \in 1..Cardinality(T) /\ j \in 1..Cardinality(T)
        BY <1>4
    <2>2. i \in Nat /\ j \in Nat /\ order[i] \in Nat /\ order[j] \in Nat
        <3>1. order[i] \in T /\ order[j] \in T
            BY <1>3, <2>1
        <3>2. order[i] \in Nat /\ order[j] \in Nat
            BY <3>1
        <3>3. i \in Nat /\ j \in Nat
            BY <1>2, <2>1
        <3> QED
            BY <3>2, <3>3
    <2>3. i < j \/ j < i
        BY <2>2
    <2> QED
        BY <1>1, <2>2, <2>3 DEF Orders, order
<1> QED
    BY <1>1, <1>4, <1>5 DEF order

----------------------------------------------------------------------------
(* What one decision starts. *)

\* As many of the list as there is room for, the first ones of it.
First(list, room) ==
    {i \in Starts(list) : Cardinality({j \in Starts(list) : j < i}) < room}
Picked(order, list, room) ==
    [t \in {order[i] : i \in First(list, room)} |->
        list[CHOOSE i \in First(list, room) : order[i] = t]]

LEMMA PickedIsFunction ==
    ASSUME NEW order, NEW list, NEW room
    PROVE  Picked(order, list, room) =
               [t \in DOMAIN Picked(order, list, room) |-> Picked(order, list, room)[t]]
BY DEF Picked

LEMMA ChosenIsPicked ==
    ASSUME NEW s, NEW allowed
    PROVE  Chosen(s, allowed) =
               Picked(InOrder(Waiting(tasks)), allowed,
                      Less(AtOnce, Cardinality(RunningIn(tasks, s))))
BY DEF Chosen, Picked, First

\* No more are first than there is room for, and where there is room for one
\* and one to start, one is.
LEMMA FirstFits ==
    ASSUME NEW n \in Nat, NEW list, Starts(list) \in SUBSET (1..n), NEW room \in Nat
    PROVE  /\ First(list, room) \in SUBSET (1..n)
           /\ IsFiniteSet(First(list, room))
           /\ Cardinality(First(list, room)) <= room
           /\ Starts(list) # {} /\ room # 0 => First(list, room) # {}
<1> DEFINE F == First(list, room)
           Before(i) == {j \in Starts(list) : j < i}
<1>1. F \in SUBSET (1..n) /\ \A i \in F : i \in Starts(list) /\ Cardinality(Before(i)) < room
    BY DEF First
<1>2. \A i : i \in Starts(list) /\ Cardinality(Before(i)) < room => i \in F
    BY DEF First
<1>3. IsFiniteSet(1..n)
    BY FS_Interval
<1>4. IsFiniteSet(F) /\ Cardinality(F) \in Nat
    BY <1>1, <1>3, FS_Subset, FS_CardinalityType
<1>5. \A i : IsFiniteSet(Before(i)) /\ Cardinality(Before(i)) \in Nat
    <2> TAKE i
    <2>1. Before(i) \in SUBSET (1..n)
        OBVIOUS
    <2> QED
        BY <1>3, <2>1, FS_Subset, FS_CardinalityType
<1>6. Cardinality(F) <= room
    <2>1. CASE F = {}
        BY <2>1, FS_EmptySet
    <2>2. CASE F # {}
        <3> HIDE DEF F
        <3>1. F \in SUBSET (0..n)
            BY <1>1
        <3>2. PICK m \in F : \A k \in F : k <= m
            BY <2>2, <3>1, GreatestNumber
        <3>3. F \ {m} \in SUBSET Before(m)
            <4> SUFFICES ASSUME NEW k \in F, k # m PROVE k \in Before(m)
                OBVIOUS
            <4>1. k <= m /\ k \in Nat /\ m \in Nat
                BY <1>1, <3>2
            <4>2. k \in Starts(list)
                BY <1>1
            <4>3. k < m
                BY <4>1
            <4> QED
                BY <4>2, <4>3
        <3>4. Cardinality(F \ {m}) = Cardinality(F) - 1
            BY <1>4, <3>2, FS_RemoveElement
        <3> HIDE DEF Before
        <3>5. Cardinality(F \ {m}) <= Cardinality(Before(m))
            BY <1>5, <3>3, FS_Subset
        <3>6. Cardinality(Before(m)) < room
            BY <1>1, <3>2
        <3> QED
            BY <1>4, <1>5, <3>4, <3>5, <3>6
    <2> QED
        BY <2>1, <2>2
<1>7. ASSUME Starts(list) # {}, room # 0 PROVE F # {}
    <2>1. Starts(list) \in SUBSET Nat
        OBVIOUS
    <2>2. PICK i \in Starts(list) : \A j \in Starts(list) : i <= j
        BY <1>7, <2>1, LeastNumber
    <2>3. Before(i) = {}
        BY <2>1, <2>2
    <2>4. Cardinality(Before(i)) = 0
        BY <2>3, FS_EmptySet
    <2> HIDE DEF Before, F
    <2>5. 0 < room
        BY <1>7
    <2> QED
        BY <1>2, <2>4, <2>5
<1> QED
    BY <1>1, <1>4, <1>6, <1>7

\* What is picked of a list that hands out the room it has.
LEMMA PickedWithinRoom ==
    ASSUME NEW st, NEW list, NEW free, Len(st.pending) \in Nat, HandsOut(st, list, free),
           NEW T, NEW order, order \in [1..Len(st.pending) -> T],
           \A i, j \in 1..Len(st.pending) : i # j => order[i] # order[j],
           NEW room \in Nat
    PROVE  LET chosen == Picked(order, list, room)
           IN  /\ DOMAIN chosen \in SUBSET T
               /\ IsFiniteSet(DOMAIN chosen)
               /\ Cardinality(DOMAIN chosen) <= room
               /\ Starts(list) # {} /\ room # 0 => DOMAIN chosen # {}
               /\ \A t \in DOMAIN chosen : chosen[t] \in Nat /\ chosen[t] # 0
               /\ \A t \in DOMAIN chosen : chosen[t] <= Room(st)
               /\ SumOver(chosen, DOMAIN chosen) <= Room(st)
<1> DEFINE n == Len(st.pending)
           F == First(list, room)
           chosen == Picked(order, list, room)
           UpToThe(k) == {order[i] : i \in {i \in F : i <= k}}
<1>1. /\ n \in Nat /\ free \in [0..n -> Nat] /\ free[0] = Room(st)
      /\ list \in [1..n -> Nat]
      /\ \A i \in 1..n : list[i] + free[i] = free[i-1]
    BY DEF HandsOut
<1>2. order \in [1..n -> T] /\ \A i, j \in 1..n : i # j => order[i] # order[j]
    OBVIOUS
<1> HIDE DEF n
<1>3. Starts(list) \in SUBSET (1..n) /\ \A i \in Starts(list) : list[i] # 0
    BY <1>1 DEF Starts, NothingAside
<1>4. /\ F \in SUBSET (1..n) /\ IsFiniteSet(F) /\ Cardinality(F) <= room
      /\ Starts(list) # {} /\ room # 0 => F # {}
    BY <1>1, <1>3, FirstFits
<1>5. F \in SUBSET Starts(list) /\ \A i \in F : i \in Nat /\ i # 0 /\ i <= n
    <2>1. F \in SUBSET Starts(list)
        BY DEF First
    <2> HIDE DEF F
    <2>2. \A i \in F : i \in Nat /\ i # 0 /\ i <= n
        BY <1>1, <1>4
    <2> QED
        BY <2>1, <2>2
<1>6. DOMAIN chosen = {order[i] : i \in F}
    BY DEF Picked
<1>7. ASSUME NEW i \in F PROVE order[i] \in DOMAIN chosen /\ chosen[order[i]] = list[i]
    <2>1. (CHOOSE j \in F : order[j] = order[i]) = i
        BY <1>2, <1>4
    <2> QED
        BY <2>1 DEF Picked
<1> HIDE DEF F, chosen
<1>8. DOMAIN chosen \in SUBSET T
    BY <1>2, <1>4, <1>6
<1>9. IsFiniteSet(DOMAIN chosen) /\ Cardinality(DOMAIN chosen) <= room
    <2>1. /\ IsFiniteSet({order[i] : i \in F})
          /\ Cardinality({order[i] : i \in F}) <= Cardinality(F)
        <3> DEFINE image == [i \in F |-> order[i]]
        <3>1. image \in Surjection(F, {order[i] : i \in F})
            BY DEF Surjection
        <3> HIDE DEF image
        <3> QED
            BY <1>4, <3>1, FS_Surjection
    <2>2. Cardinality(F) \in Nat /\ Cardinality({order[i] : i \in F}) \in Nat
        BY <1>4, <2>1, FS_CardinalityType
    <2> QED
        BY <1>4, <1>6, <2>1, <2>2
<1>10. ASSUME NEW t \in DOMAIN chosen
       PROVE  \E i \in F : order[i] = t /\ i \in 1..n /\ chosen[t] = list[i] /\ list[i] # 0
    BY <1>3, <1>4, <1>5, <1>6, <1>7
<1>11. \A t \in DOMAIN chosen : chosen[t] \in Nat /\ chosen[t] # 0
    BY <1>1, <1>10
<1> DEFINE P(k) == k <= n => /\ IsFiniteSet(UpToThe(k))
                             /\ SumOver(chosen, UpToThe(k)) \in Nat
                             /\ SumOver(chosen, UpToThe(k)) + free[k] <= free[0]
           Known == {k \in Nat : P(k)}
<1>12. P(0)
    <2>1. UpToThe(0) = {}
        BY <1>4
    <2> HIDE DEF UpToThe
    <2>2. IsFiniteSet(UpToThe(0)) /\ SumOver(chosen, UpToThe(0)) = 0
        BY <2>1, SumOfNone, FS_EmptySet
    <2>3. free[0] \in Nat
        BY <1>1
    <2> QED
        BY <2>2, <2>3
<1>13. ASSUME NEW k \in Nat, P(k) PROVE P(k + 1)
    <2> SUFFICES ASSUME k + 1 <= n
                 PROVE  /\ IsFiniteSet(UpToThe(k+1))
                        /\ SumOver(chosen, UpToThe(k+1)) \in Nat
                        /\ SumOver(chosen, UpToThe(k+1)) + free[k+1] <= free[0]
        OBVIOUS
    <2>1. /\ k <= n /\ k \in 0..n /\ k + 1 \in 1..n /\ k + 1 - 1 = k
        BY <1>1
    <2>2. /\ IsFiniteSet(UpToThe(k)) /\ SumOver(chosen, UpToThe(k)) \in Nat
          /\ SumOver(chosen, UpToThe(k)) + free[k] <= free[0]
        BY <1>13, <2>1
    <2>3. /\ free[k] \in Nat /\ free[k+1] \in Nat /\ free[0] \in Nat /\ list[k+1] \in Nat
          /\ list[k+1] + free[k+1] = free[k]
        BY <1>1, <2>1
    <2>4. CASE k + 1 \notin F
        <3>1. {i \in F : i <= k + 1} = {i \in F : i <= k}
            <4>1. ASSUME NEW i \in F PROVE i <= k + 1 <=> i <= k
                BY <1>5, <2>4
            <4> QED
                BY <4>1
        <3>2. UpToThe(k+1) = UpToThe(k)
            BY <3>1
        <3> HIDE DEF UpToThe
        <3> QED
            BY <2>2, <2>3, <3>2
    <2>5. CASE k + 1 \in F
        <3> DEFINE y == order[k+1]
        <3>1. {i \in F : i <= k + 1} = {i \in F : i <= k} \cup {k + 1}
            <4>1. ASSUME NEW i \in F PROVE i <= k + 1 <=> i <= k \/ i = k + 1
                BY <1>5
            <4> QED
                BY <2>5, <4>1
        <3>2. UpToThe(k+1) = UpToThe(k) \cup {y}
            BY <3>1
        <3>3. y \notin UpToThe(k)
            BY <1>2, <1>4, <2>1
        <3>4. UpToThe(k+1) \in SUBSET DOMAIN chosen
            BY <1>6
        <3>5. chosen[y] = list[k+1]
            BY <1>7, <2>5
        <3> HIDE DEF UpToThe, y
        <3>6. IsFiniteSet(UpToThe(k+1)) /\ UpToThe(k+1) \ {y} = UpToThe(k)
            BY <2>2, <3>2, <3>3, FS_AddElement
        <3>7. \A x \in UpToThe(k+1) : chosen[x] \in Nat
            BY <1>11, <3>4
        <3>8. y \in UpToThe(k+1)
            BY <3>2
        <3>9. SumOver(chosen, UpToThe(k+1)) = chosen[y] + SumOver(chosen, UpToThe(k))
            BY <3>6, <3>7, <3>8, SumWithOneMore
        <3> QED
            BY <2>2, <2>3, <3>5, <3>6, <3>9
    <2> QED
        BY <2>4, <2>5
<1> HIDE DEF P
<1>14. 0 \in Known /\ Known \in SUBSET Nat /\ \A k \in Known : k + 1 \in Known
    BY <1>12, <1>13
<1> HIDE DEF Known
<1>15. Known = Nat
    BY <1>14, EveryNumber
<1>16. P(n) /\ n <= n
    BY <1>1, <1>15 DEF Known
<1>17. UpToThe(n) = DOMAIN chosen
    <2>1. {i \in F : i <= n} = F
        BY <1>5
    <2> QED
        BY <1>6, <2>1
<1>18. SumOver(chosen, DOMAIN chosen) \in Nat /\ SumOver(chosen, DOMAIN chosen) <= Room(st)
    <2>1. free[n] \in Nat /\ free[0] \in Nat
        BY <1>1
    <2> HIDE DEF UpToThe
    <2>2. /\ SumOver(chosen, UpToThe(n)) \in Nat
          /\ SumOver(chosen, UpToThe(n)) + free[n] <= free[0]
        BY <1>16 DEF P
    <2> QED
        BY <1>1, <1>17, <2>1, <2>2
<1>19. ASSUME NEW t \in DOMAIN chosen PROVE chosen[t] <= Room(st)
    <2>1. SumOver(chosen, DOMAIN chosen) = chosen[t] + SumOver(chosen, DOMAIN chosen \ {t})
        BY <1>9, <1>11, SumWithOneMore
    <2>2. IsFiniteSet(DOMAIN chosen \ {t})
        BY <1>9, FS_Subset
    <2>3. SumOver(chosen, DOMAIN chosen \ {t}) \in Nat
        BY <1>11, <2>2, SumIsNumber
    <2>4. chosen[t] \in Nat /\ Room(st) \in Nat
        BY <1>1, <1>11
    <2> QED
        BY <1>18, <2>1, <2>3, <2>4
<1>20. Starts(list) # {} /\ room # 0 => DOMAIN chosen # {}
    <2> SUFFICES ASSUME F # {} PROVE DOMAIN chosen # {}
        BY <1>4
    <2>1. PICK i \in F : TRUE
        OBVIOUS
    <2> QED
        BY <1>6, <2>1
<1> QED
    BY <1>8, <1>9, <1>11, <1>18, <1>19, <1>20 DEF chosen

----------------------------------------------------------------------------
(* What a thread decides about a session. *)

\* The tasks there are, and every part of them, can be counted and summed.
LEMMA TasksCount ==
    ASSUME TypeOK
    PROVE  /\ DOMAIN tasks \in SUBSET Nat
           /\ IsFiniteSet(DOMAIN tasks)
           /\ \A T \in SUBSET DOMAIN tasks : /\ T \in SUBSET Nat
                                             /\ IsFiniteSet(T)
                                             /\ Cardinality(T) \in Nat
<1>1. DOMAIN tasks \in SUBSET (1..LastTask) /\ LastTask \in Nat
    BY BoundAssumption DEF TypeOK
<1>2. IsFiniteSet(1..LastTask)
    BY <1>1, FS_Interval
<1>3. IsFiniteSet(DOMAIN tasks) /\ DOMAIN tasks \in SUBSET Nat
    BY <1>1, <1>2, FS_Subset
<1> QED
    BY <1>3, FS_Subset, FS_CardinalityType

LEMMA PartsOfTasks ==
    ASSUME NEW s
    PROVE  /\ Waiting(tasks) \in SUBSET DOMAIN tasks
           /\ TakenBy(tasks, s) \in SUBSET DOMAIN tasks
           /\ RunningIn(tasks, s) \in SUBSET DOMAIN tasks
BY DEF Waiting, Pending, TakenBy, RunningIn

LEMMA SumsOfTasks ==
    ASSUME TypeOK, NEW s
    PROVE  Counted(tasks, s) \in Nat /\ Booked(tasks, s) \in Nat
<1>1. tasks \in [DOMAIN tasks -> Task]
    BY DEF TypeOK
<1>2. IsFiniteSet(TakenBy(tasks, s)) /\ IsFiniteSet(RunningIn(tasks, s))
    BY TasksCount, PartsOfTasks
<1> DEFINE ceilings == [t \in DOMAIN tasks |-> tasks[t].ceiling]
           figures == [t \in DOMAIN tasks |-> tasks[t].consumed.tokens]
<1>3. \A t \in DOMAIN tasks : ceilings[t] \in Nat /\ figures[t] \in Nat
    BY <1>1 DEF Task, Observation
<1>4. Counted(tasks, s) = SumOver(figures, TakenBy(tasks, s))
      /\ Booked(tasks, s) = SumOver(ceilings, RunningIn(tasks, s))
    BY DEF Counted, Booked
<1>5. TakenBy(tasks, s) \in SUBSET DOMAIN tasks /\ RunningIn(tasks, s) \in SUBSET DOMAIN tasks
    BY PartsOfTasks
<1> HIDE DEF ceilings, figures
<1> QED
    BY <1>2, <1>3, <1>4, <1>5, SumIsNumber

\* How a session stands is told in numbers.
LEMMA StandingCounts ==
    ASSUME TypeOK, NEW s \in DOMAIN sessions, NEW isLate \in BOOLEAN, NEW cost \in Costs
    PROVE  LET st == Standing(s, isLate, cost)
           IN  /\ Counts(st)
               /\ st.running = Cardinality(RunningIn(tasks, s)) /\ st.running \in Nat
               /\ st.declared = sessions[s].declared
               /\ st.spent = Counted(tasks, s)
               /\ st.booked = Booked(tasks, s)
               /\ Len(st.pending) = Cardinality(Waiting(tasks))
<1> DEFINE st == Standing(s, isLate, cost)
           n == Cardinality(Waiting(tasks))
<1>1. Cardinality(RunningIn(tasks, s)) \in Nat /\ n \in Nat
    BY TasksCount, PartsOfTasks
<1>2. sessions[s].declared \in Nat
    BY DEF TypeOK, S!Session
<1>3. cost = NoFigure \/ (cost[1] \in Nat /\ cost[2] \in Nat)
    <2>1. cost \in Seq(Nat) /\ Len(cost) \in {0, 2}
        BY InputAssumption
    <2>2. CASE Len(cost) = 0
        BY <2>1, <2>2 DEF NoFigure
    <2>3. CASE Len(cost) = 2
        <3>1. 1 \in DOMAIN cost /\ 2 \in DOMAIN cost
            BY <2>1, <2>3
        <3> QED
            BY <2>1, <3>1
    <2> QED
        BY <2>1, <2>2, <2>3
<1> HIDE DEF n
<1>4. /\ st.running = Cardinality(RunningIn(tasks, s))
      /\ st.declared = sessions[s].declared
      /\ st.spent = Counted(tasks, s)
      /\ st.booked = Booked(tasks, s)
      /\ st.pending = [i \in 1..n |-> [cost |-> cost, lasts |-> NoFigure]]
    BY DEF Standing, n
<1> HIDE DEF st
<1>5. Len(st.pending) = n /\ DOMAIN st.pending = 1..n
    BY <1>1, <1>4
<1>6. \A i \in 1..n : Costed(st.pending[i])
    BY <1>3, <1>4 DEF Costed
<1>7. Counts(st)
    BY <1>1, <1>2, <1>4, <1>5, <1>6, SumsOfTasks DEF Counts
<1> QED
    BY <1>1, <1>4, <1>5, <1>7 DEF st, n

\* What a decision starts: tasks that wait, no more than there are hands for,
\* each with a ceiling, and all within what is left of the budget; a session
\* that carries on has a run going.
LEMMA DecisionStarts ==
    ASSUME TypeOK, NEW s \in DOMAIN sessions, NEW isLate \in BOOLEAN, NEW cost \in Costs
    PROVE  LET st == Standing(s, isLate, cost)
               decision == Decide(st)
               chosen == Chosen(s, decision.allowed)
           IN  /\ DOMAIN chosen \in SUBSET Waiting(tasks)
               /\ \A t \in DOMAIN chosen : chosen[t] \in 1..sessions[s].declared
               /\ decision.kind = "stop" => DOMAIN chosen = {}
               /\ decision.kind # "stop" => RunningIn(tasks, s) # {} \/ DOMAIN chosen # {}
               /\ DOMAIN chosen # {} =>
                     /\ Cardinality(RunningIn(tasks, s)) + Cardinality(DOMAIN chosen) <= AtOnce
                     /\ Counted(tasks, s) + Booked(tasks, s) + SumOver(chosen, DOMAIN chosen)
                            <= sessions[s].declared
<1> DEFINE st == Standing(s, isLate, cost)
           decision == Decide(st)
           list == decision.allowed
           order == InOrder(Waiting(tasks))
           going == Cardinality(RunningIn(tasks, s))
           room == Less(AtOnce, going)
           chosen == Chosen(s, list)
<1>1. /\ Counts(st) /\ st.running = going /\ going \in Nat
      /\ st.declared = sessions[s].declared
      /\ st.spent = Counted(tasks, s) /\ st.booked = Booked(tasks, s)
      /\ Len(st.pending) = Cardinality(Waiting(tasks))
    BY StandingCounts
<1>2. AtOnce \in Nat /\ AtOnce # 0
    BY ThreadAssumption, FS_CardinalityType, FS_EmptySet DEF AtOnce
<1>3. room \in Nat /\ (room # 0 => room + going = AtOnce) /\ (going = 0 => room # 0)
    <2> HIDE DEF going
    <2> QED
        BY <1>1, <1>2, LessNat DEF Less
<1>4. /\ order \in [1..Len(st.pending) -> Waiting(tasks)]
      /\ \A i, j \in 1..Len(st.pending) : i # j => order[i] # order[j]
    <2>1. Waiting(tasks) \in SUBSET Nat /\ IsFiniteSet(Waiting(tasks))
        BY TasksCount, PartsOfTasks
    <2> HIDE DEF st
    <2> QED
        BY <1>1, <2>1, InOrderOrders DEF Orders
<1>5. chosen = Picked(order, list, room)
    BY ChosenIsPicked
<1>6. /\ \/ list = <<>>
         \/ \E free : HandsOut(st, list, free)
      /\ decision.kind = "stop" => list = <<>>
      /\ decision.kind # "stop" => st.running # 0 \/ Starts(list) # {}
    BY <1>1, DecisionHandsOut
<1>7. Len(st.pending) \in Nat /\ Room(st) \in Nat /\ Room(st) <= st.declared
      /\ st.spent \in Nat /\ st.booked \in Nat /\ st.declared \in Nat
      /\ (Room(st) # 0 => st.spent + st.booked + Room(st) = st.declared)
    BY <1>1, RoomIsLeft DEF Counts
<1>8. going = 0 => RunningIn(tasks, s) = {}
    BY TasksCount, PartsOfTasks, FS_EmptySet
<1>9. RunningIn(tasks, s) = {} => going = 0
    BY FS_EmptySet
<1> HIDE DEF st, decision, order, room, going, chosen
<1>10. CASE list = <<>>
    <2>1. Starts(list) = {}
        BY <1>10 DEF Starts
    <2>2. DOMAIN Picked(order, list, room) = {}
        BY <2>1 DEF Picked, First
    <2>3. DOMAIN chosen = {}
        BY <1>5, <2>2
    <2>4. decision.kind # "stop" => RunningIn(tasks, s) # {}
        BY <1>1, <1>6, <1>9, <2>1
    <2> QED
        BY <2>3, <2>4 DEF st, decision, chosen
<1>11. CASE \E free : HandsOut(st, list, free) /\ list # <<>>
    <2>1. PICK free : HandsOut(st, list, free)
        BY <1>11
    <2>2. /\ DOMAIN chosen \in SUBSET Waiting(tasks)
          /\ IsFiniteSet(DOMAIN chosen)
          /\ Cardinality(DOMAIN chosen) <= room
          /\ Starts(list) # {} /\ room # 0 => DOMAIN chosen # {}
          /\ \A t \in DOMAIN chosen : chosen[t] \in Nat /\ chosen[t] # 0
          /\ \A t \in DOMAIN chosen : chosen[t] <= Room(st)
          /\ SumOver(chosen, DOMAIN chosen) <= Room(st)
        <3> DEFINE picked == Picked(order, list, room)
        <3> HIDE DEF list
        <3>1. /\ DOMAIN picked \in SUBSET Waiting(tasks)
              /\ IsFiniteSet(DOMAIN picked)
              /\ Cardinality(DOMAIN picked) <= room
              /\ Starts(list) # {} /\ room # 0 => DOMAIN picked # {}
              /\ \A t \in DOMAIN picked : picked[t] \in Nat /\ picked[t] # 0
              /\ \A t \in DOMAIN picked : picked[t] <= Room(st)
              /\ SumOver(picked, DOMAIN picked) <= Room(st)
            BY <1>3, <1>4, <1>7, <2>1, PickedWithinRoom
        <3> QED
            BY <1>5, <3>1
    <2>3. \A t \in DOMAIN chosen : chosen[t] \in 1..sessions[s].declared
        BY <1>1, <1>7, <2>2
    <2>4. decision.kind # "stop" => RunningIn(tasks, s) # {} \/ DOMAIN chosen # {}
        BY <1>1, <1>3, <1>6, <1>9, <2>2
    <2>5. decision.kind # "stop"
        BY <1>6, <1>11
    <2>6. ASSUME DOMAIN chosen # {}
          PROVE  /\ going + Cardinality(DOMAIN chosen) <= AtOnce
                 /\ Counted(tasks, s) + Booked(tasks, s) + SumOver(chosen, DOMAIN chosen)
                        <= sessions[s].declared
        <3>1. Cardinality(DOMAIN chosen) \in Nat /\ Cardinality(DOMAIN chosen) # 0
            BY <2>2, <2>6, FS_EmptySet, FS_CardinalityType
        <3>2. room # 0
            BY <1>3, <2>2, <3>1
        <3>3. PICK t \in DOMAIN chosen : TRUE
            BY <2>6
        <3>4. Room(st) # 0
            BY <1>7, <2>2, <3>3
        <3>5. SumOver(chosen, DOMAIN chosen) \in Nat
            BY <2>2, SumIsNumber
        <3> QED
            BY <1>1, <1>2, <1>3, <1>7, <2>2, <3>1, <3>2, <3>4, <3>5
    <2> QED
        BY <2>2, <2>3, <2>4, <2>5, <2>6 DEF st, decision, chosen, going
<1> QED
    BY <1>6, <1>10, <1>11

----------------------------------------------------------------------------
(* What becomes of the backlog in one step, as module Backlog says it. *)

\* What module Backlog makes of a task is what this module does.
LEMMA SameOperators ==
    /\ Changes!NoTask = NoTask
    /\ Changes!NotYet = NotYet
    /\ Changes!Ended = Ended
    /\ Changes!Disposition = Disposition
    /\ \A k : Changes!IsEnded(k) = IsEnded(k)
    /\ \A k, end : Changes!Finished(k, end) = Finished(k, end)
    /\ \A k, what : Changes!Disposed(k, what) = Disposed(k, what)
    /\ \A k, keeping : Changes!WaitsAgain(k, keeping) = WaitsAgain(k, keeping)
    /\ \A k : Changes!TurnedAway(k) = TurnedAway(k)
    /\ \A k, s, c : Changes!Assigned(k, s, c) = Assigned(k, s, c)
BY DEF Changes!NoTask, NoTask, Changes!NotYet, NotYet, Changes!Ended, Ended,
       Changes!Disposition, Disposition, Changes!IsEnded, IsEnded,
       Changes!Finished, Finished, Changes!Disposed, Disposed,
       Changes!WaitsAgain, WaitsAgain, Changes!NoCeiling, NoCeiling,
       Changes!TurnedAway, TurnedAway, Changes!Assigned, Assigned

LEMMA SameChanges ==
    /\ \A ts, id, after : Changes!Add(ts, id, after) = Add(ts, id, after)
    /\ \A ts, id : Changes!Remove(ts, id) = Remove(ts, id)
    /\ \A ts, s : Changes!InterruptAll(ts, s) = InterruptAll(ts, s)
    /\ \A ts : Changes!Pending(ts) = Pending(ts)
    /\ \A ts : Changes!Waiting(ts) = Waiting(ts)
BY DEF Changes!Add, Add, Changes!Registered, Registered, Changes!NotYet, NotYet,
       Changes!NoSession, NoSession, Changes!NoCeiling, NoCeiling,
       Changes!Remove, Remove, Changes!InterruptAll, InterruptAll,
       Changes!Pending, Pending, Changes!Waiting, Waiting, Changes!NoTask, NoTask

StoreOK ==
    /\ next_id \in TaskId
    /\ tasks \in [DOMAIN tasks -> Task] /\ DOMAIN tasks \subseteq 1..LastTask
    /\ next_session \in SessionId
    /\ StoreSound

Ceilings == UNION {1..d : d \in Declared}

\* A decision assigns for a session that is there.
Starting(s) ==
    \E T \in SUBSET Waiting(tasks) :
        \E allowed \in [T -> Ceilings] : Changes!AssignAll(s, allowed)

OtherChange ==
    \/ \E after \in DOMAIN tasks \cup {NoTask} : Changes!AddTask(after)
    \/ \E t \in DOMAIN tasks : Changes!Carry(t) \/ Changes!Ask(t)
    \/ \E s \in 1..LastSession : Changes!Interrupt(s)

Change == (\E s \in DOMAIN sessions : Starting(s)) \/ OtherChange \/ UNCHANGED store

\* What no step takes back: numbers are given out in order and a task that is
\* there was assigned no less often than before.
Onwards ==
    /\ next_id' \in Nat /\ next_id <= next_id'
    /\ \A t \in DOMAIN tasks' :
          \/ t \in DOMAIN tasks /\ tasks[t].attempts <= tasks'[t].attempts
          \/ t \notin DOMAIN tasks /\ next_id <= t

\* The sessions only become more.
MoreSessions ==
    /\ next_session' \in SessionId /\ next_session <= next_session'
    /\ DOMAIN sessions \subseteq DOMAIN sessions'
    /\ S!Running(sessions') \cap DOMAIN sessions \subseteq S!Running(sessions)

\* A change that leaves the tasks there are, each one as it should be.
LEMMA SameTasks ==
    ASSUME StoreOK, MoreSessions, UNCHANGED next_id,
           DOMAIN tasks' = DOMAIN tasks,
           tasks' \in [DOMAIN tasks -> Task],
           \A t \in DOMAIN tasks :
              /\ tasks'[t].session < next_session'
              /\ tasks[t].attempts <= tasks'[t].attempts
              /\ tasks'[t].state # "Pending" => tasks'[t].attempts > 0
    PROVE  StoreOK' /\ Onwards
<1>1. next_id \in Nat /\ next_id' = next_id
    BY DEF StoreOK, TaskId
<1>2. StoreSound'
    BY DEF StoreOK, StoreSound
<1>3. StoreOK'
    BY <1>2 DEF StoreOK, MoreSessions
<1> QED
    BY <1>1, <1>3 DEF Onwards

\* A change to one task.
LEMMA OneTaskOf ==
    ASSUME StoreOK, MoreSessions,
           NEW t \in DOMAIN tasks, NEW new \in Task,
           tasks' = [tasks EXCEPT ![t] = new],
           UNCHANGED next_id,
           new.session = tasks[t].session,
           new.attempts = tasks[t].attempts,
           new.state # "Pending" => new.attempts > 0
    PROVE  StoreOK' /\ Onwards
<1>1. tasks \in [DOMAIN tasks -> Task] /\ next_session \in Nat /\ next_session' \in Nat
      /\ next_session <= next_session'
    BY DEF StoreOK, MoreSessions, SessionId
<1>2. DOMAIN tasks' = DOMAIN tasks /\ tasks' \in [DOMAIN tasks -> Task]
    BY <1>1
<1>3. ASSUME NEW u \in DOMAIN tasks
      PROVE  /\ tasks'[u].session < next_session'
             /\ tasks[u].attempts <= tasks'[u].attempts
             /\ tasks'[u].state # "Pending" => tasks'[u].attempts > 0
    <2>1. tasks'[u] = IF u = t THEN new ELSE tasks[u]
        BY <1>1
    <2>2. tasks[u] \in Task /\ tasks[u].session \in Nat /\ tasks[u].attempts \in Nat
        BY <1>1 DEF Task
    <2>3. tasks[u].session < next_session
          /\ (tasks[u].state # "Pending" => tasks[u].attempts > 0)
        BY DEF StoreOK, StoreSound
    <2> QED
        BY <1>1, <2>1, <2>2, <2>3
<1> QED
    BY <1>2, <1>3, SameTasks

LEMMA TaskThere ==
    ASSUME StoreOK, NEW t \in DOMAIN tasks
    PROVE  /\ tasks[t] \in Task
           /\ tasks[t].session \in Nat /\ tasks[t].attempts \in Nat
           /\ tasks[t].session < next_session
           /\ tasks[t].state # "Pending" => tasks[t].attempts > 0
           /\ t \in Nat /\ t < next_id
<1>1. tasks[t] \in Task /\ t \in 1..LastTask
    BY DEF StoreOK
<1> QED
    BY <1>1 DEF StoreOK, StoreSound, Task

\* `add`
LEMMA AddKept ==
    ASSUME StoreOK, MoreSessions, NEW after \in DOMAIN tasks \cup {NoTask},
           Changes!AddTask(after)
    PROVE  StoreOK' /\ Onwards
<1>1. /\ next_id <= LastTask /\ next_id' = next_id + 1
      /\ tasks' = Add(tasks, next_id, after)
    BY SameOperators, SameChanges DEF Changes!AddTask
<1>2. next_id \in Nat /\ next_id # 0 /\ next_session \in Nat /\ next_session' \in Nat
      /\ next_session <= next_session' /\ next_session # 0
    BY DEF StoreOK, MoreSessions, SessionId, TaskId, NoTask, NoSession
<1>3. after \in Nat
    BY DEF StoreOK, NoTask
<1> DEFINE new == Registered(after)
<1>4. new \in Task /\ new.state = "Pending" /\ new.session = 0
    BY <1>3, RegisteredTask DEF NoSession
<1> HIDE DEF new
<1>5. /\ DOMAIN tasks' = DOMAIN tasks \cup {next_id}
      /\ \A t \in DOMAIN tasks' : tasks'[t] = IF t = next_id THEN new ELSE tasks[t]
      /\ tasks' = [t \in DOMAIN tasks \cup {next_id} |-> tasks'[t]]
    BY <1>1 DEF Add, new
<1>6. next_id \notin DOMAIN tasks
    BY <1>2, TaskThere
<1>7. ASSUME NEW t \in DOMAIN tasks'
      PROVE  /\ tasks'[t] \in Task
             /\ t < next_id' /\ tasks'[t].session < next_session'
             /\ tasks'[t].state # "Pending" => tasks'[t].attempts > 0
             /\ \/ t \in DOMAIN tasks /\ tasks[t].attempts <= tasks'[t].attempts
                \/ t \notin DOMAIN tasks /\ next_id <= t
    <2>1. CASE t = next_id
        BY <1>1, <1>2, <1>4, <1>5, <1>6, <2>1
    <2>2. CASE t # next_id
        <3>1. t \in DOMAIN tasks /\ tasks'[t] = tasks[t]
            BY <1>5, <2>2
        <3> QED
            BY <1>1, <1>2, <3>1, TaskThere
    <2> QED
        BY <2>1, <2>2
<1>8. DOMAIN tasks' \subseteq 1..LastTask
    BY <1>1, <1>2, <1>5, BoundAssumption DEF StoreOK
<1>9. StoreSound'
    BY <1>7 DEF StoreSound
<1>10. tasks' \in [DOMAIN tasks' -> Task]
    BY <1>5, <1>7
<1>11. next_id' \in TaskId /\ next_id' \in Nat /\ next_id <= next_id'
    BY <1>1, <1>2 DEF TaskId, NoTask
<1>12. StoreOK'
    BY <1>8, <1>9, <1>10, <1>11 DEF StoreOK, MoreSessions
<1> QED
    BY <1>7, <1>11, <1>12 DEF Onwards

\* What a worker's run comes to.
LEMMA CarryKept ==
    ASSUME StoreOK, MoreSessions, NEW t \in DOMAIN tasks, Changes!Carry(t)
    PROVE  StoreOK' /\ Onwards
<1> DEFINE k == tasks[t]
<1>1. /\ k \in Task /\ k.session \in Nat /\ k.attempts \in Nat
      /\ k.state # "Pending" => k.attempts > 0
    BY TaskThere
<1>2. CASE Changes!WorkArea(t)
    <2>1. tasks' = [tasks EXCEPT ![t].worktree = TRUE] /\ UNCHANGED next_id
        BY <1>2 DEF Changes!WorkArea
    <2> DEFINE new == [k EXCEPT !.worktree = TRUE]
    <2>2. tasks' = [tasks EXCEPT ![t] = new]
        BY <2>1
    <2>3. /\ new \in Task /\ new.session = k.session /\ new.attempts = k.attempts
          /\ new.state = k.state
        BY <1>1 DEF Task
    <2> HIDE DEF new
    <2> QED
        BY <1>1, <2>1, <2>2, <2>3, OneTaskOf
<1>3. ASSUME NEW end \in Ended, NEW consumed \in Observed \cup {NotYet},
             NEW talked \in BOOLEAN, Changes!RunEnded(t, end, consumed, talked)
      PROVE  StoreOK' /\ Onwards
    <2> DEFINE done == Finished(k, end)
               new == [done EXCEPT !.consumed = consumed, !.conversation = talked]
    <2>1. /\ tasks' = [tasks EXCEPT ![t] = new] /\ UNCHANGED next_id
          /\ k.attempts > 0
        BY <1>3, SameOperators, SameChanges DEF Changes!RunEnded
    <2>2. done \in Task /\ done.session = k.session /\ done.attempts = k.attempts
        BY <1>1, FinishedTask
    <2>3. consumed \in Observation
        BY InputAssumption DEF Observation, NotYet
    <2> HIDE DEF done
    <2>4. new \in Task /\ new.session = done.session /\ new.attempts = done.attempts
        BY <2>2, <2>3 DEF Task
    <2> HIDE DEF new
    <2> QED
        BY <2>1, <2>2, <2>4, OneTaskOf
<1>4. ASSUME NEW consumed \in Observed, Changes!RunTurnedAway(t, consumed)
      PROVE  StoreOK' /\ Onwards
    <2> DEFINE back == TurnedAway(k)
               new == [back EXCEPT !.consumed = consumed]
    <2>1. /\ tasks' = [tasks EXCEPT ![t] = new] /\ UNCHANGED next_id
          /\ k.attempts > 0
        BY <1>4, SameOperators, SameChanges DEF Changes!RunTurnedAway
    <2>2. back \in Task /\ back.session = k.session /\ back.attempts = k.attempts
        BY <1>1, TurnedAwayTask
    <2>3. consumed \in Observation
        BY InputAssumption
    <2> HIDE DEF back
    <2>4. new \in Task /\ new.session = back.session /\ new.attempts = back.attempts
        BY <2>2, <2>3 DEF Task
    <2> HIDE DEF new
    <2> QED
        BY <2>1, <2>2, <2>4, OneTaskOf
<1> QED
    BY <1>2, <1>3, <1>4, SameOperators DEF Changes!Carry

\* What a person asks for.
LEMMA AskKept ==
    ASSUME StoreOK, MoreSessions, NEW t \in DOMAIN tasks, Changes!Ask(t)
    PROVE  StoreOK' /\ Onwards
<1> DEFINE k == tasks[t]
<1>1. /\ k \in Task /\ k.session \in Nat /\ k.attempts \in Nat
      /\ k.state # "Pending" => k.attempts > 0
    BY TaskThere
<1>2. CASE Changes!RemoveTask(t)
    <2>1. tasks' = Remove(tasks, t) /\ next_id' = next_id
        BY <1>2, SameOperators, SameChanges DEF Changes!RemoveTask
    <2>2. /\ DOMAIN tasks' = DOMAIN tasks \ {t}
          /\ tasks' = [u \in DOMAIN tasks \ {t} |-> tasks'[u]]
        BY <2>1 DEF Remove
    <2>3. ASSUME NEW u \in DOMAIN tasks'
          PROVE  /\ u \in DOMAIN tasks /\ tasks'[u] \in Task
                 /\ tasks'[u].session = tasks[u].session
                 /\ tasks'[u].attempts = tasks[u].attempts
                 /\ tasks'[u].state = tasks[u].state
        <3>1. u \in DOMAIN tasks /\ tasks[u] \in Task /\ k.after \in Nat
            BY <1>1, <2>2, TaskThere DEF Task
        <3>2. tasks'[u] = IF tasks[u].after = t THEN [tasks[u] EXCEPT !.after = k.after]
                                                ELSE tasks[u]
            BY <2>1, <2>2, <3>1 DEF Remove
        <3> HIDE DEF k
        <3> QED
            BY <3>1, <3>2 DEF Task
    <2>4. next_session \in Nat /\ next_session' \in Nat /\ next_session <= next_session'
        BY DEF StoreOK, MoreSessions, SessionId
    <2>5. StoreSound'
        <3> SUFFICES ASSUME NEW u \in DOMAIN tasks'
                     PROVE  /\ u < next_id'
                            /\ tasks'[u].session < next_session'
                            /\ tasks'[u].state # "Pending" => tasks'[u].attempts > 0
            BY DEF StoreSound
        <3> QED
            BY <2>1, <2>3, <2>4, TaskThere
    <2>6. tasks' \in [DOMAIN tasks' -> Task] /\ DOMAIN tasks' \subseteq 1..LastTask
        BY <2>2, <2>3 DEF StoreOK
    <2>7. StoreOK'
        BY <2>1, <2>5, <2>6 DEF StoreOK, MoreSessions
    <2>8. next_id' \in Nat /\ next_id <= next_id'
        BY <2>1 DEF StoreOK, TaskId
    <2>9. ASSUME NEW u \in DOMAIN tasks'
          PROVE  u \in DOMAIN tasks /\ tasks[u].attempts <= tasks'[u].attempts
        BY <2>3, TaskThere
    <2> QED
        BY <2>7, <2>8, <2>9 DEF Onwards
<1>3. ASSUME NEW what \in Disposition \ {"None"}, Changes!Dispose(t, what)
      PROVE  StoreOK' /\ Onwards
    <2> DEFINE new == Disposed(k, what)
    <2>1. tasks' = [tasks EXCEPT ![t] = new] /\ UNCHANGED next_id
        BY <1>3, SameOperators, SameChanges DEF Changes!Dispose
    <2>2. /\ new \in Task /\ new.session = k.session /\ new.attempts = k.attempts
          /\ new.state = k.state
        BY <1>1, DisposedTask
    <2> HIDE DEF new
    <2> QED
        BY <1>1, <2>1, <2>2, OneTaskOf
<1>4. ASSUME NEW keeping \in BOOLEAN, Changes!WaitAgain(t, keeping)
      PROVE  StoreOK' /\ Onwards
    <2> DEFINE new == WaitsAgain(k, keeping)
    <2>1. tasks' = [tasks EXCEPT ![t] = new] /\ UNCHANGED next_id
        BY <1>4, SameOperators, SameChanges DEF Changes!WaitAgain
    <2>2. /\ new \in Task /\ new.session = k.session /\ new.attempts = k.attempts
          /\ new.state = "Pending"
        BY <1>1, WaitsAgainTask
    <2> HIDE DEF new
    <2> QED
        BY <2>1, <2>2, OneTaskOf
<1> QED
    BY <1>2, <1>3, <1>4, SameOperators DEF Changes!Ask

\* `interrupt`
LEMMA InterruptKept ==
    ASSUME StoreOK, MoreSessions, NEW s, Changes!Interrupt(s)
    PROVE  StoreOK' /\ Onwards
<1>1. /\ tasks' = InterruptAll(tasks, s) /\ UNCHANGED next_id
      /\ DOMAIN tasks' = DOMAIN tasks
      /\ tasks' = [t \in DOMAIN tasks |-> tasks'[t]]
    BY SameChanges DEF Changes!Interrupt, InterruptAll
<1>2. next_session \in Nat /\ next_session' \in Nat /\ next_session <= next_session'
    BY DEF StoreOK, MoreSessions, SessionId
<1>3. ASSUME NEW t \in DOMAIN tasks
      PROVE  /\ tasks'[t] \in Task
             /\ tasks'[t].session < next_session'
             /\ tasks[t].attempts <= tasks'[t].attempts
             /\ tasks'[t].state # "Pending" => tasks'[t].attempts > 0
    <2>1. /\ tasks[t] \in Task /\ tasks[t].session \in Nat /\ tasks[t].attempts \in Nat
          /\ tasks[t].session < next_session
          /\ tasks[t].state # "Pending" => tasks[t].attempts > 0
        BY TaskThere
    <2>2. CASE tasks[t].session = s /\ tasks[t].state = "Running"
        <3>1. tasks'[t] = [tasks[t] EXCEPT !.state = "Interrupted"]
            BY <1>1, <2>2 DEF InterruptAll
        <3>2. /\ tasks'[t] \in Task /\ tasks'[t].session = tasks[t].session
              /\ tasks'[t].attempts = tasks[t].attempts
            BY <2>1, <3>1 DEF Task, TaskState
        <3> QED
            BY <1>2, <2>1, <2>2, <3>2
    <2>3. CASE ~ (tasks[t].session = s /\ tasks[t].state = "Running")
        <3>1. tasks'[t] = tasks[t]
            BY <1>1, <2>3 DEF InterruptAll
        <3> QED
            BY <1>2, <2>1, <3>1
    <2> QED
        BY <2>2, <2>3
<1>4. tasks' \in [DOMAIN tasks -> Task]
    BY <1>1, <1>3
<1> QED
    BY <1>1, <1>3, <1>4, SameTasks

\* What a decision assigns.
LEMMA StartingKept ==
    ASSUME StoreOK, MoreSessions, NEW s \in 1..(next_session - 1), Starting(s)
    PROVE  StoreOK' /\ Onwards
<1>1. PICK T \in SUBSET Waiting(tasks) :
          \E allowed \in [T -> Ceilings] : Changes!AssignAll(s, allowed)
    BY DEF Starting
<1>2. PICK allowed \in [T -> Ceilings] : Changes!AssignAll(s, allowed)
    BY <1>1
<1>3. /\ DOMAIN tasks' = DOMAIN tasks /\ UNCHANGED next_id
      /\ tasks' = [t \in DOMAIN tasks |-> tasks'[t]]
      /\ \A t \in DOMAIN tasks :
            tasks'[t] = IF t \in T THEN Assigned(tasks[t], s, allowed[t]) ELSE tasks[t]
    BY <1>2, SameOperators DEF Changes!AssignAll
<1>4. next_session \in Nat /\ next_session' \in Nat /\ next_session <= next_session'
    BY DEF StoreOK, MoreSessions, SessionId
<1>5. ASSUME NEW t \in DOMAIN tasks
      PROVE  /\ tasks'[t] \in Task
             /\ tasks'[t].session < next_session'
             /\ tasks[t].attempts <= tasks'[t].attempts
             /\ tasks'[t].state # "Pending" => tasks'[t].attempts > 0
    <2> DEFINE k == tasks[t]
               c == allowed[t]
    <2>1. /\ k \in Task /\ k.session \in Nat /\ k.attempts \in Nat
          /\ k.session < next_session
          /\ k.state # "Pending" => k.attempts > 0
        BY TaskThere
    <2>2. CASE t \in T
        <3>1. c \in Nat
            <4>1. c \in Ceilings
                BY <2>2
            <4>2. PICK d \in Declared : c \in 1..d
                BY <4>1 DEF Ceilings
            <4>3. d \in Nat
                BY InputAssumption
            <4> QED
                BY <4>2, <4>3
        <3>2. s \in Nat /\ s < next_session'
            BY <1>4
        <3>3. tasks'[t] = Assigned(k, s, c)
            BY <1>3, <2>2
        <3> HIDE DEF k, c
        <3>4. k \in Task /\ s \in Nat /\ c \in Nat
            BY <2>1, <3>1, <3>2
        <3>5. /\ Assigned(k, s, c) \in Task /\ Assigned(k, s, c).session = s
              /\ Assigned(k, s, c).attempts = k.attempts + 1
            BY <3>4, AssignedTask
        <3> QED
            BY <2>1, <3>2, <3>3, <3>5 DEF k
    <2>3. CASE t \notin T
        BY <1>3, <1>4, <2>1, <2>3
    <2> QED
        BY <2>2, <2>3
<1>6. tasks' \in [DOMAIN tasks -> Task]
    BY <1>3, <1>5
<1> QED
    BY <1>3, <1>5, <1>6, SameTasks

\* Whatever the change, the store stays as it should be.
LEMMA ChangeKept ==
    ASSUME StoreOK, MoreSessions, DOMAIN sessions = 1..(next_session - 1), Change
    PROVE  StoreOK' /\ Onwards
<1>1. CASE \E s \in DOMAIN sessions : Starting(s)
    BY <1>1, StartingKept
<1>2. CASE OtherChange
    BY <1>2, AddKept, CarryKept, AskKept, InterruptKept DEF OtherChange
<1>3. CASE UNCHANGED store
    <2>1. tasks' = tasks /\ next_id' = next_id
        BY <1>3 DEF store
    <2>2. tasks \in [DOMAIN tasks -> Task]
        BY DEF StoreOK
    <2>3. next_session \in Nat /\ next_session' \in Nat /\ next_session <= next_session'
        BY DEF StoreOK, MoreSessions, SessionId
    <2>4. \A t \in DOMAIN tasks : /\ tasks[t].session < next_session'
                                  /\ tasks[t].attempts <= tasks[t].attempts
                                  /\ tasks[t].state # "Pending" => tasks[t].attempts > 0
        BY <2>3, TaskThere
    <2> QED
        BY <2>1, <2>2, <2>4, SameTasks
<1> QED
    BY <1>1, <1>2, <1>3 DEF Change

----------------------------------------------------------------------------
(* One step of a thread. *)

Does(x) ==
    \/ x \in Workers /\ Carrying(x)
    \/ Settling(x) \/ Stopping(x) \/ StoreFails(x)
    \/ x \in Handlers /\ (AskRun(x) \/ AskInterrupt(x) \/ Open(x))
    \/ x = Clock /\ (ClockLooks \/ ClockReads)

LEMMA ThreadsDo ==
    ASSUME Threads
    PROVE  (\E x \in Thread : Does(x)) /\ UNCHANGED <<late, crashes>>
BY DEF Threads, Worker, Handler, Deadline, Does, Thread

\* Nothing but a run's area and end, a decision and a stopping is written to
\* the backlog by a thread.
LEMMA StoreSteps ==
    ASSUME NEW x \in Thread, Does(x)
    PROVE  \/ NoteArea(x) \/ EndTask(x) \/ TurnAway(x) \/ DecideNow(x) \/ InterruptTasks(x)
           \/ UNCHANGED store
<1>1. CASE Carrying(x)
    BY <1>1 DEF Carrying, Take, ReadTask, Prepare, Spawn, Register, KilledReturns, AgentEnds,
                TraceFails, Fails
<1>2. CASE Settling(x)
    BY <1>2 DEF Settling, SettleRead, Record, Enqueue
<1>3. CASE Stopping(x) \/ StoreFails(x)
    BY <1>3 DEF Stopping, StopRead, Kill, StopSession, StoreFails, Fails
<1>4. CASE AskRun(x) \/ AskInterrupt(x) \/ Open(x)
    BY <1>4 DEF AskRun, AskInterrupt, Open
<1>5. CASE ClockLooks \/ ClockReads
    BY <1>5 DEF ClockLooks, ClockReads
<1> QED
    BY <1>1, <1>2, <1>3, <1>4, <1>5 DEF Does

LEMMA InductiveStoreOK == Inductive => StoreOK /\ DOMAIN sessions = 1..(next_session - 1)
BY DEF Inductive, TypeOK, StoreOK

LEMMA FrameThere ==
    ASSUME Inductive, NEW x \in Thread
    PROVE  th[x] \in FrameType /\ FrameSound(th[x])
BY DEF Inductive, TypeOK

LEMMA NoteAreaChanges ==
    ASSUME Inductive, NEW w \in Thread, NoteArea(w)
    PROVE  OtherChange \/ UNCHANGED store
<1> DEFINE t == th[w].task
<1>1. th[w].at = "note" /\ next_id' = next_id
      /\ tasks' = IF t \in DOMAIN tasks THEN [tasks EXCEPT ![t].worktree = TRUE] ELSE tasks
    BY DEF NoteArea, Frame
<1>2. CASE t \in DOMAIN tasks
    <2>1. tasks[t].attempts > 0
        BY <1>1, <1>2, FrameThere DEF FrameSound, InHands
    <2>2. Changes!WorkArea(t)
        BY <1>1, <1>2, <2>1 DEF Changes!WorkArea
    <2> QED
        BY <1>2, <2>2 DEF OtherChange, Changes!Carry
<1>3. CASE t \notin DOMAIN tasks
    BY <1>1, <1>3 DEF store
<1> QED
    BY <1>2, <1>3

LEMMA EndTaskChanges ==
    ASSUME Inductive, NEW w \in Thread, EndTask(w)
    PROVE  OtherChange \/ UNCHANGED store
<1> DEFINE t == th[w].task
           end == th[w].end
           consumed == th[w].consumed
           talked == th[w].talked
<1>1. th[w].at = "end" /\ next_id' = next_id
      /\ tasks' = IF t \notin DOMAIN tasks THEN tasks
                  ELSE [tasks EXCEPT ![t] = [Finished(tasks[t], end) EXCEPT
                           !.consumed = consumed, !.conversation = talked]]
    BY DEF EndTask, Frame
<1>2. CASE t \in DOMAIN tasks
    <2>1. tasks[t].attempts > 0 /\ consumed \in Observed \cup {NotYet}
        BY <1>1, <1>2, FrameThere DEF FrameSound, InHands
    <2>2. end \in Ended /\ talked \in BOOLEAN
        BY FrameThere DEF FrameType
    <2>3. Changes!RunEnded(t, end, consumed, talked)
        BY <1>1, <1>2, <2>1, SameOperators DEF Changes!RunEnded
    <2>4. Changes!Carry(t)
        BY <2>1, <2>2, <2>3, SameOperators DEF Changes!Carry
    <2> QED
        BY <1>2, <2>4 DEF OtherChange
<1>3. CASE t \notin DOMAIN tasks
    BY <1>1, <1>3 DEF store
<1> QED
    BY <1>2, <1>3

LEMMA TurnAwayChanges ==
    ASSUME Inductive, NEW w \in Thread, TurnAway(w)
    PROVE  OtherChange \/ UNCHANGED store
<1> DEFINE t == th[w].task
           consumed == th[w].consumed
<1>1. th[w].at = "turn" /\ next_id' = next_id
      /\ tasks' = IF t \notin DOMAIN tasks THEN tasks
                  ELSE [tasks EXCEPT ![t] = [TurnedAway(tasks[t]) EXCEPT !.consumed = consumed]]
    BY DEF TurnAway, Frame
<1>2. CASE t \in DOMAIN tasks
    <2>1. tasks[t].attempts > 0 /\ consumed \in Observed
        BY <1>1, <1>2, FrameThere DEF FrameSound, InHands
    <2>2. Changes!RunTurnedAway(t, consumed)
        BY <1>1, <1>2, <2>1, SameOperators DEF Changes!RunTurnedAway
    <2>3. Changes!Carry(t)
        BY <2>1, <2>2 DEF Changes!Carry
    <2> QED
        BY <1>2, <2>3 DEF OtherChange
<1>3. CASE t \notin DOMAIN tasks
    BY <1>1, <1>3 DEF store
<1> QED
    BY <1>2, <1>3

\* What a thread makes of a decision, and with which figures.
Decided(x, decision, chosen) ==
    LET s == th[x].session
    IN  /\ tasks' = [t \in DOMAIN tasks |->
                        IF t \in DOMAIN chosen
                        THEN Assigned(tasks[t], s, chosen[t]) ELSE tasks[t]]
        /\ Goes(x, [At(x, "record") EXCEPT
                      !.spent = Counted(tasks, s),
                      !.why = IF decision.kind = "stop" THEN decision.why ELSE S!NoReason,
                      !.todo = InOrder(DOMAIN chosen)])

Decision(x, cost) == Decide(Standing(th[x].session, th[x].late, cost))
Choice(x, cost) == Chosen(th[x].session, Decision(x, cost).allowed)

LEMMA DecideNowIs ==
    ASSUME Inductive, NEW x \in Thread, DecideNow(x)
    PROVE  /\ th[x].at = "decide" /\ th[x].session \in DOMAIN sessions
           /\ UNCHANGED <<next_id, sessions, next_session, queue, running, alive, orphans>>
           /\ \E cost \in Costs : Decided(x, Decision(x, cost), Choice(x, cost))
<1>1. th[x].at = "decide"
    BY DEF DecideNow, Frame
<1>2. th[x].session \in DOMAIN sessions
    BY <1>1, FrameThere DEF FrameSound, OnSession
<1>3. UNCHANGED <<next_id, sessions, next_session, queue, running, alive, orphans>>
    BY DEF DecideNow, held, agents
<1>4. PICK cost \in Costs :
          \E decision \in {Decision(x, cost)} :
          \E chosen \in {Chosen(th[x].session, decision.allowed)} :
             Decided(x, decision, chosen)
    BY DEF DecideNow, Decided, Decision, Frame
<1>5. Decided(x, Decision(x, cost), Choice(x, cost))
    BY <1>4 DEF Choice
<1> QED
    BY <1>1, <1>2, <1>3, <1>5

\* What it starts: tasks that wait, with ceilings the session can cover.
LEMMA ChoiceStarts ==
    ASSUME Inductive, NEW x \in Thread, th[x].session \in DOMAIN sessions, NEW cost \in Costs
    PROVE  LET s == th[x].session
               chosen == Choice(x, cost)
           IN  /\ DOMAIN chosen \in SUBSET Waiting(tasks)
               /\ chosen \in [DOMAIN chosen -> Ceilings]
               /\ \A t \in DOMAIN chosen : chosen[t] \in 1..sessions[s].declared
               /\ Decision(x, cost).kind = "stop" => DOMAIN chosen = {}
               /\ Decision(x, cost).kind # "stop" => RunningIn(tasks, s) # {} \/ DOMAIN chosen # {}
               /\ DOMAIN chosen # {} =>
                     /\ Cardinality(RunningIn(tasks, s)) + Cardinality(DOMAIN chosen) <= AtOnce
                     /\ Counted(tasks, s) + Booked(tasks, s) + SumOver(chosen, DOMAIN chosen)
                            <= sessions[s].declared
<1> DEFINE s == th[x].session
           chosen == Choice(x, cost)
<1>1. th[x].late \in BOOLEAN /\ TypeOK
    BY FrameThere DEF FrameType, Inductive
<1>2. /\ DOMAIN chosen \in SUBSET Waiting(tasks)
      /\ \A t \in DOMAIN chosen : chosen[t] \in 1..sessions[s].declared
      /\ Decision(x, cost).kind = "stop" => DOMAIN chosen = {}
      /\ Decision(x, cost).kind # "stop" => RunningIn(tasks, s) # {} \/ DOMAIN chosen # {}
      /\ DOMAIN chosen # {} =>
            /\ Cardinality(RunningIn(tasks, s)) + Cardinality(DOMAIN chosen) <= AtOnce
            /\ Counted(tasks, s) + Booked(tasks, s) + SumOver(chosen, DOMAIN chosen)
                   <= sessions[s].declared
    BY <1>1, DecisionStarts DEF Choice, Decision
<1>3. sessions[s].declared \in Declared
    BY DEF Inductive, HeldSound
<1>4. chosen = [t \in DOMAIN chosen |-> chosen[t]]
    BY ChosenIsPicked, PickedIsFunction DEF Choice
<1> HIDE DEF chosen, s
<1>5. chosen \in [DOMAIN chosen -> Ceilings]
    BY <1>2, <1>3, <1>4 DEF Ceilings
<1> QED
    BY <1>2, <1>5 DEF chosen, s

LEMMA DecideNowChanges ==
    ASSUME Inductive, NEW x \in Thread, DecideNow(x)
    PROVE  Change
<1> DEFINE s == th[x].session
<1>1. PICK cost \in Costs : Decided(x, Decision(x, cost), Choice(x, cost))
    BY DecideNowIs
<1> DEFINE chosen == Choice(x, cost)
<1>2. s \in DOMAIN sessions /\ next_id' = next_id
    BY DecideNowIs
<1>3. DOMAIN chosen \in SUBSET Waiting(tasks) /\ chosen \in [DOMAIN chosen -> Ceilings]
    BY <1>2, ChoiceStarts
<1>4. tasks' = [t \in DOMAIN tasks |->
                   IF t \in DOMAIN chosen THEN Assigned(tasks[t], s, chosen[t]) ELSE tasks[t]]
    BY <1>1 DEF Decided
<1> HIDE DEF chosen, s
<1>5. Changes!AssignAll(s, chosen)
    BY <1>2, <1>3, <1>4, SameOperators, SameChanges DEF Changes!AssignAll
<1>6. Starting(s)
    BY <1>3, <1>5 DEF Starting
<1> QED
    BY <1>2, <1>6 DEF Change

LEMMA InterruptTasksChanges ==
    ASSUME Inductive, NEW x \in Thread, InterruptTasks(x)
    PROVE  OtherChange \/ UNCHANGED store
<1> DEFINE s == th[x].session
<1>1. th[x].at = "interrupt" /\ tasks' = InterruptAll(tasks, s) /\ next_id' = next_id
    BY DEF InterruptTasks, Frame
<1>2. s \in DOMAIN sessions
    BY <1>1, FrameThere DEF FrameSound, OnSession
<1>3. s \in 1..LastSession
    BY <1>2, BoundAssumption, InductiveStoreOK DEF Inductive, TypeOK, HeldSound, SessionId
<1> HIDE DEF s
<1>4. Changes!Interrupt(s)
    BY <1>1, SameChanges DEF Changes!Interrupt
<1> QED
    BY <1>3, <1>4 DEF OtherChange

\* A command that is one change to the backlog.
LEMMA AskChanges ==
    ASSUME Inductive, Ask
    PROVE  OtherChange \/ UNCHANGED store
<1>1. CASE TaskAdd
    <2>1. PICK after \in DOMAIN tasks \cup {NoTask} : tasks' = Add(tasks, next_id, after)
        BY <1>1 DEF TaskAdd
    <2>2. Changes!AddTask(after)
        BY <1>1, <2>1, SameChanges, SameOperators DEF TaskAdd, Changes!AddTask
    <2> QED
        BY <2>2 DEF OtherChange
<1>2. ASSUME NEW t \in DOMAIN tasks, TaskRm(t) PROVE OtherChange
    <2>1. Changes!RemoveTask(t)
        BY <1>2, SameChanges DEF TaskRm, Changes!RemoveTask
    <2> QED
        BY <2>1 DEF OtherChange, Changes!Ask
<1>3. ASSUME NEW t \in DOMAIN tasks, Discard(t) PROVE OtherChange
    <2>1. tasks' = [tasks EXCEPT ![t] = Disposed(tasks[t], "Discarded")]
        BY <1>3 DEF Discard
    <2>2. Changes!Dispose(t, "Discarded")
        BY <1>3, <2>1, SameOperators DEF Discard, Changes!Dispose
    <2>3. "Discarded" \in Changes!Disposition \ {"None"}
        BY DEF Changes!Disposition
    <2> QED
        BY <2>2, <2>3 DEF OtherChange, Changes!Ask
<1>4. ASSUME NEW t \in DOMAIN tasks, Requeue(t) PROVE OtherChange
    <2>1. PICK keeping \in BOOLEAN : tasks' = [tasks EXCEPT ![t] = WaitsAgain(tasks[t], keeping)]
        BY <1>4 DEF Requeue
    <2>2. Changes!WaitAgain(t, keeping)
        BY <1>4, <2>1, SameOperators DEF Requeue, Changes!WaitAgain
    <2> QED
        BY <2>2 DEF OtherChange, Changes!Ask
<1> QED
    BY <1>1, <1>2, <1>3, <1>4 DEF Ask

\* Only a decision assigns anything.
LEMMA StepStarts ==
    ASSUME Inductive, Next
    PROVE  (\E x \in Thread : DecideNow(x)) \/ OtherChange \/ UNCHANGED store
<1>1. CASE Threads
    <2>1. PICK x \in Thread : Does(x)
        BY <1>1, ThreadsDo
    <2> QED
        BY <2>1, StoreSteps, NoteAreaChanges, EndTaskChanges, TurnAwayChanges,
           InterruptTasksChanges
<1>2. CASE Ask
    BY <1>2, AskChanges
<1>3. CASE TimeRunsOut \/ Crash \/ \E t \in orphans : OrphanEnds(t)
    BY <1>3 DEF TimeRunsOut, Crash, OrphanEnds
<1> QED
    BY <1>1, <1>2, <1>3 DEF Next

LEMMA StepChanges ==
    ASSUME Inductive, Next
    PROVE  Change
BY StepStarts, DecideNowChanges DEF Change

----------------------------------------------------------------------------
(* What becomes of the sessions in one step. *)

SessionsOK ==
    /\ next_session \in SessionId
    /\ sessions \in [1..(next_session - 1) -> S!Session]
    /\ late \subseteq DOMAIN sessions
    /\ HeldSound

LEMMA HeldSteps ==
    ASSUME NEW x \in Thread, Does(x)
    PROVE  Record(x) \/ StopSession(x) \/ Open(x) \/ UNCHANGED held
<1>1. CASE Carrying(x)
    BY <1>1 DEF Carrying, Take, ReadTask, Prepare, NoteArea, Spawn, Register, KilledReturns,
                AgentEnds, EndTask, TurnAway, TraceFails, Fails
<1>2. CASE Settling(x)
    BY <1>2 DEF Settling, SettleRead, DecideNow, Enqueue
<1>3. CASE Stopping(x) \/ StoreFails(x)
    BY <1>3 DEF Stopping, StopRead, Kill, InterruptTasks, StoreFails, Fails
<1>4. CASE AskRun(x) \/ AskInterrupt(x) \/ Open(x)
    BY <1>4 DEF AskRun, AskInterrupt
<1>5. CASE ClockLooks \/ ClockReads
    BY <1>5 DEF ClockLooks, ClockReads
<1> QED
    BY <1>1, <1>2, <1>3, <1>4, <1>5 DEF Does

\* `record` and `stop` leave what was declared, and start nothing again.
LEMMA RecordedSession ==
    ASSUME NEW k \in S!Session, NEW figure \in Nat
    PROVE  /\ S!Recorded(k, figure) \in S!Session
           /\ S!Recorded(k, figure).declared = k.declared
           /\ S!IsRunning(S!Recorded(k, figure)) => S!IsRunning(k)
BY DEF S!Recorded, S!Session, S!IsRunning

LEMMA StoppedSession ==
    ASSUME NEW k \in S!Session, NEW why \in S!Reason \cup {S!NoReason}
    PROVE  /\ S!Stopped(k, why) \in S!Session
           /\ S!Stopped(k, why).declared = k.declared
           /\ ~ S!IsRunning(S!Stopped(k, why))
BY DEF S!Stopped, S!Session, S!IsRunning

LEMMA OpenedSession ==
    ASSUME NEW declared \in Nat
    PROVE  /\ S!Opened("Tokens", declared, 0) \in S!Session
           /\ S!Opened("Tokens", declared, 0).declared = declared
           /\ S!IsRunning(S!Opened("Tokens", declared, 0))
BY DEF S!Opened, S!Session, S!IsRunning, S!NoWindow

\* A change to one session.
LEMMA OneSession ==
    ASSUME SessionsOK, UNCHANGED <<next_session, late>>,
           NEW s \in DOMAIN sessions, NEW new \in S!Session,
           sessions' = [sessions EXCEPT ![s] = new],
           new.declared = sessions[s].declared,
           S!IsRunning(new) => S!IsRunning(sessions[s])
    PROVE  SessionsOK' /\ MoreSessions
<1>1. /\ sessions \in [1..(next_session - 1) -> S!Session] /\ next_session \in SessionId
      /\ next_session <= LastSession + 1 /\ late \subseteq DOMAIN sessions
      /\ \A r \in DOMAIN sessions : sessions[r].declared \in Declared
    BY DEF SessionsOK, HeldSound
<1>2. DOMAIN sessions' = DOMAIN sessions
      /\ \A r \in DOMAIN sessions : sessions'[r] = IF r = s THEN new ELSE sessions[r]
    BY <1>1
<1>3. sessions' \in [1..(next_session - 1) -> S!Session]
    BY <1>1
<1>4. HeldSound'
    BY <1>1, <1>2 DEF HeldSound
<1>5. SessionsOK'
    BY <1>1, <1>2, <1>3, <1>4 DEF SessionsOK
<1>6. S!Running(sessions') \cap DOMAIN sessions \subseteq S!Running(sessions)
    BY <1>2 DEF S!Running
<1>7. next_session \in Nat /\ next_session <= next_session
    BY <1>1 DEF SessionId
<1> QED
    BY <1>1, <1>2, <1>5, <1>6, <1>7 DEF MoreSessions

LEMMA NoSessionChanged ==
    ASSUME SessionsOK, UNCHANGED held, late' \subseteq DOMAIN sessions
    PROVE  SessionsOK' /\ MoreSessions
<1>1. sessions' = sessions /\ next_session' = next_session
    BY DEF held
<1>2. HeldSound'
    BY <1>1 DEF SessionsOK, HeldSound
<1>3. next_session \in SessionId /\ next_session \in Nat /\ next_session <= next_session
    BY DEF SessionsOK, SessionId
<1>4. S!Running(sessions') = S!Running(sessions)
    BY <1>1
<1> QED
    BY <1>1, <1>2, <1>3, <1>4 DEF SessionsOK, MoreSessions

\* A session is opened under the next number.
LEMMA OpenKept ==
    ASSUME SessionsOK, NEW h, Open(h), UNCHANGED late
    PROVE  SessionsOK' /\ MoreSessions
<1>1. CASE UNCHANGED held
    BY <1>1, NoSessionChanged DEF SessionsOK
<1>2. CASE ~ UNCHANGED held
    <2>1. /\ next_session <= LastSession /\ next_session' = next_session + 1
          /\ \E declared \in Declared :
                sessions' = [s \in DOMAIN sessions \cup {next_session} |->
                                IF s = next_session THEN S!Opened("Tokens", declared, 0)
                                ELSE sessions[s]]
        BY <1>2 DEF Open
    <2>2. PICK declared \in Declared :
             sessions' = [s \in DOMAIN sessions \cup {next_session} |->
                             IF s = next_session THEN S!Opened("Tokens", declared, 0)
                             ELSE sessions[s]]
        BY <2>1
    <2> DEFINE new == S!Opened("Tokens", declared, 0)
    <2>3. declared \in Nat
        BY InputAssumption
    <2>4. new \in S!Session /\ new.declared \in Declared
        BY <2>3, OpenedSession
    <2>5. sessions' = [s \in DOMAIN sessions \cup {next_session} |->
                          IF s = next_session THEN new ELSE sessions[s]]
        BY <2>2
    <2> HIDE DEF new
    <2>6. /\ next_session \in Nat /\ next_session # 0
          /\ sessions \in [1..(next_session - 1) -> S!Session]
          /\ late \subseteq DOMAIN sessions
          /\ \A s \in DOMAIN sessions : sessions[s].declared \in Declared
        BY DEF SessionsOK, HeldSound, SessionId, NoSession
    <2>7. /\ next_session' \in SessionId /\ next_session <= next_session'
          /\ next_session' - 1 = next_session
        BY <2>1, <2>6 DEF SessionId, NoSession
    <2>8. DOMAIN sessions' = 1..next_session /\ DOMAIN sessions \subseteq 1..next_session
        BY <2>5, <2>6
    <2>9. \A s \in DOMAIN sessions' : \/ s = next_session /\ sessions'[s] = new
                                      \/ s \in DOMAIN sessions /\ sessions'[s] = sessions[s]
        BY <2>5, <2>6, <2>8
    <2>10. sessions' \in [1..(next_session' - 1) -> S!Session]
        BY <2>4, <2>5, <2>6, <2>7
    <2>11. HeldSound'
        <3>1. next_session' <= LastSession + 1
            BY <2>1, <2>6, BoundAssumption
        <3>2. \A s \in DOMAIN sessions' : sessions'[s].declared \in Declared
            BY <2>4, <2>6, <2>9
        <3> QED
            BY <3>1, <3>2 DEF HeldSound
    <2>12. SessionsOK'
        BY <2>6, <2>7, <2>8, <2>10, <2>11 DEF SessionsOK
    <2>13. S!Running(sessions') \cap DOMAIN sessions \subseteq S!Running(sessions)
        BY <2>6, <2>9 DEF S!Running
    <2>14. DOMAIN sessions \subseteq DOMAIN sessions'
        BY <2>8
    <2> QED
        BY <2>7, <2>12, <2>13, <2>14 DEF MoreSessions
<1> QED
    BY <1>1, <1>2

LEMMA StepSessions ==
    ASSUME Inductive, Next
    PROVE  SessionsOK' /\ MoreSessions
<1>1. SessionsOK
    BY DEF Inductive, TypeOK, SessionsOK
<1>2. CASE Threads
    <2>1. PICK x \in Thread : Does(x)
        BY <1>2, ThreadsDo
    <2>2. late' = late /\ late \subseteq DOMAIN sessions
        BY <1>1, <1>2, ThreadsDo DEF SessionsOK
    <2> DEFINE s == th[x].session
    <2>3. \A r \in DOMAIN sessions : sessions[r] \in S!Session
        BY <1>1 DEF SessionsOK
    <2>4. /\ th[x].spent \in Nat /\ th[x].why \in S!Reason \cup {S!NoReason}
          /\ th[x].at \in OnSession => s \in DOMAIN sessions
        BY FrameThere DEF FrameType, FrameSound
    <2>5. CASE Record(x)
        <3>1. CASE UNCHANGED held
            BY <1>1, <2>2, <3>1, NoSessionChanged
        <3>2. CASE ~ UNCHANGED held
            <4>1. /\ th[x].at = "record" /\ next_session' = next_session
                  /\ sessions' = [sessions EXCEPT ![s] = S!Recorded(sessions[s], th[x].spent)]
                BY <2>5, <3>2 DEF Record, Recorded, Frame, held
            <4>2. s \in DOMAIN sessions
                BY <2>4, <4>1 DEF OnSession
            <4> HIDE DEF s
            <4> QED
                BY <1>1, <2>2, <2>3, <2>4, <4>1, <4>2, RecordedSession, OneSession
        <3> QED
            BY <3>1, <3>2
    <2>6. CASE StopSession(x)
        <3>1. /\ th[x].at = "kill" /\ next_session' = next_session
              /\ sessions' = [sessions EXCEPT ![s] = S!Stopped(sessions[s], th[x].why)]
            BY <2>6 DEF StopSession, Frame
        <3>2. s \in DOMAIN sessions
            BY <2>4, <3>1 DEF OnSession
        <3> HIDE DEF s
        <3> QED
            BY <1>1, <2>2, <2>3, <2>4, <3>1, <3>2, StoppedSession, OneSession
    <2>7. CASE Open(x)
        BY <1>1, <2>2, <2>7, OpenKept
    <2>8. CASE UNCHANGED held
        BY <1>1, <2>2, <2>8, NoSessionChanged
    <2> QED
        BY <2>1, <2>5, <2>6, <2>7, <2>8, HeldSteps
<1>3. CASE Ask /\ UNCHANGED <<late, crashes>>
    BY <1>1, <1>3, NoSessionChanged DEF Ask, OneChange, SessionsOK
<1>4. CASE TimeRunsOut
    <2>1. UNCHANGED held /\ late' \subseteq DOMAIN sessions
        BY <1>1, <1>4 DEF TimeRunsOut, SessionsOK, S!Running
    <2> QED
        BY <1>1, <2>1, NoSessionChanged
<1>5. CASE Crash
    BY <1>1, <1>5, NoSessionChanged DEF Crash, SessionsOK
<1>6. CASE \E t \in orphans : OrphanEnds(t) /\ UNCHANGED <<late, crashes>>
    BY <1>1, <1>6, NoSessionChanged DEF OrphanEnds, SessionsOK
<1> QED
    BY <1>2, <1>3, <1>4, <1>5, <1>6 DEF Next

\* So in every step the store stays as it should be.
LEMMA StepStore ==
    ASSUME Inductive, Next
    PROVE  StoreOK' /\ Onwards /\ MoreSessions /\ SessionsOK'
BY StepChanges, StepSessions, InductiveStoreOK, ChangeKept

----------------------------------------------------------------------------
(* What a thread holds. *)

Good(f) == f \in FrameType /\ FrameSound(f)
FramesOK == th \in [Thread -> FrameType] /\ \A x \in Thread : FrameSound(th[x])

LEMMA SeqOfMore ==
    ASSUME NEW T, NEW U, T \subseteq U, NEW q \in Seq(T)
    PROVE  q \in Seq(U)
<1>1. Len(q) \in Nat /\ q \in [1..Len(q) -> U]
    OBVIOUS
<1> QED
    BY <1>1

LEMMA SeqElement ==
    ASSUME NEW T, NEW q \in Seq(T), NEW i \in DOMAIN q
    PROVE  q[i] \in T
OBVIOUS

\* A frame that is as it should be stays so, whatever the others do.
LEMMA FrameStays ==
    ASSUME StoreOK, StoreOK', Onwards, MoreSessions, NEW f, Good(f)
    PROVE  FrameSound(f)'
<1>1. next_id \in Nat /\ next_id' \in Nat /\ next_id <= next_id'
    BY DEF StoreOK, Onwards, TaskId
<1>2. f.task \in Nat /\ f.todo \in Seq(1..LastTask)
    BY DEF Good, FrameType
<1>3. f.task < next_id'
    BY <1>1, <1>2 DEF Good, FrameSound
<1>4. ASSUME NEW i \in DOMAIN f.todo PROVE f.todo[i] < next_id'
    <2>1. f.todo[i] \in Nat /\ f.todo[i] < next_id
        <3>1. f.todo[i] \in 1..LastTask
            BY <1>2, SeqElement
        <3> QED
            BY <3>1 DEF Good, FrameSound
    <2> QED
        BY <1>1, <2>1
<1>5. ASSUME f.at \in InHands \ {"read"}, f.task \in DOMAIN tasks'
      PROVE  tasks'[f.task].attempts > 0
    <2>1. f.task < next_id
        BY DEF Good, FrameSound
    <2>2. f.task \in DOMAIN tasks /\ tasks[f.task].attempts <= tasks'[f.task].attempts
        BY <1>1, <1>2, <1>5, <2>1 DEF Onwards
    <2>3. tasks[f.task].attempts > 0
        BY <1>5, <2>2 DEF Good, FrameSound
    <2>4. tasks[f.task].attempts \in Nat
        BY <2>2, TaskThere
    <2>5. tasks'[f.task].attempts \in Nat
        BY <1>5 DEF StoreOK, Task
    <2> QED
        BY <2>2, <2>3, <2>4, <2>5
<1>6. f.at \in OnSession => f.session \in DOMAIN sessions'
    BY DEF Good, FrameSound, MoreSessions
<1>7. f.at = "interrupt" => f.session \notin S!Running(sessions')
    BY DEF Good, FrameSound, MoreSessions, OnSession
<1> QED
    BY <1>3, <1>4, <1>5, <1>6, <1>7 DEF Good, FrameSound

\* A thread that goes on with what it should leaves every frame as it should be.
LEMMA MoveKeeps ==
    ASSUME Inductive, StoreOK', Onwards, MoreSessions,
           NEW x \in Thread, NEW f, f \in FrameType, FrameSound(f)',
           th' = [th EXCEPT ![x] = f]
    PROVE  FramesOK'
<1>1. StoreOK /\ th \in [Thread -> FrameType] /\ \A y \in Thread : FrameSound(th[y])
    BY InductiveStoreOK DEF Inductive, TypeOK
<1>2. th' \in [Thread -> FrameType]
    BY <1>1
<1>3. ASSUME NEW y \in Thread PROVE FrameSound(th[y])'
    <2>1. PICK g : g = th[y]
        OBVIOUS
    <2>2. Good(g)
        BY <1>1, <2>1 DEF Good
    <2>3. FrameSound(g)'
        BY <1>1, <2>2, FrameStays
    <2>4. CASE x = y
        <3>1. th'[y] = f
            BY <1>1, <2>4
        <3> QED
            BY <3>1 DEF FrameSound
    <2>5. CASE x # y
        <3>1. th'[y] = g
            BY <1>1, <2>1, <2>5
        <3> QED
            BY <2>3, <3>1 DEF FrameSound
    <2> QED
        BY <2>4, <2>5
<1> QED
    BY <1>2, <1>3 DEF FramesOK

\* Whether the thread goes on with a frame as it should be.
GoesWell(x) == \E f : Good(f) /\ th' = [th EXCEPT ![x] = f]

LEMMA GoesWellKeeps ==
    ASSUME Inductive, StoreOK', Onwards, MoreSessions, NEW x \in Thread, GoesWell(x)
    PROVE  FramesOK'
<1>1. PICK f : Good(f) /\ th' = [th EXCEPT ![x] = f]
    BY DEF GoesWell
<1>2. FrameSound(f)'
    BY <1>1, InductiveStoreOK, FrameStays
<1> QED
    BY <1>1, <1>2, MoveKeeps DEF Good

LEMMA StandingStill ==
    ASSUME Inductive, StoreOK', Onwards, MoreSessions, UNCHANGED th
    PROVE  FramesOK'
<1>1. StoreOK /\ th \in [Thread -> FrameType] /\ \A y \in Thread : FrameSound(th[y])
    BY InductiveStoreOK DEF Inductive, TypeOK
<1>2. ASSUME NEW y \in Thread PROVE FrameSound(th[y])'
    <2>1. PICK g : g = th[y]
        OBVIOUS
    <2>2. Good(g)
        BY <1>1, <2>1 DEF Good
    <2>3. FrameSound(g)'
        BY <1>1, <2>2, FrameStays
    <2> QED
        BY <2>1, <2>3 DEF FrameSound
<1> QED
    BY <1>1, <1>2 DEF FramesOK

\* A thread with nothing to do holds nothing.
LEMMA IdleIsGood ==
    ASSUME next_id \in TaskId
    PROVE  Good(Idle) /\ Idle \in FrameType
<1>1. Idle \in FrameType
    BY BoundAssumption DEF Idle, FrameType, Label, Ended, NotYet, Observation, NoTask, NoSession
<1>2. Idle.at = "idle" /\ Idle.task = 0 /\ Idle.todo = <<>>
    BY DEF Idle, NoTask
<1>3. FrameSound(Idle)
    BY <1>2 DEF FrameSound, InHands, OnSession, TaskId, NoTask
<1> QED
    BY <1>1, <1>3 DEF Good

LEMMA RestsWell ==
    ASSUME Inductive, NEW x \in Thread, Rests(x)
    PROVE  GoesWell(x)
BY IdleIsGood DEF Rests, Goes, GoesWell, Inductive, TypeOK

\* What the frames of this section are made of.
LEMMA FrameParts ==
    ASSUME Inductive, NEW x \in Thread
    PROVE  /\ th[x] \in FrameType /\ FrameSound(th[x]) /\ Good(th[x])
           /\ th[x].task \in 0..LastTask /\ th[x].task < next_id
           /\ th[x].session \in 0..LastSession
           /\ th[x].todo \in Seq(1..LastTask)
           /\ th[x].why \in S!Reason \cup {S!NoReason}
           /\ th[x].end \in Ended /\ th[x].spent \in Nat
           /\ next_id \in Nat /\ LastTask \in Nat /\ LastSession \in Nat
<1>1. th[x] \in FrameType /\ FrameSound(th[x])
    BY FrameThere
<1>2. next_id \in Nat
    BY DEF Inductive, TypeOK, TaskId
<1> QED
    BY <1>1, <1>2, BoundAssumption DEF Good, FrameType, FrameSound

\* A worker takes the next number from the queue.
LEMMA TakeWell ==
    ASSUME Inductive, NEW w \in Thread, Take(w)
    PROVE  GoesWell(w)
<1> DEFINE t == Head(queue)
           f == [Idle EXCEPT !.at = "read", !.task = t]
<1>1. th' = [th EXCEPT ![w] = f] /\ queue # <<>>
    BY DEF Take, Goes
<1>2. queue \in Seq(1..LastTask) /\ \A i \in DOMAIN queue : queue[i] < next_id
    BY DEF Inductive, TypeOK, QueueSound
<1>3. t \in 1..LastTask /\ t < next_id
    <2>1. 1 \in DOMAIN queue /\ Head(queue) = queue[1]
        BY <1>1, <1>2
    <2>2. queue[1] \in 1..LastTask
        BY <1>2, <2>1, SeqElement
    <2> QED
        BY <1>2, <2>1, <2>2
<1> HIDE DEF t
<1>4. Idle \in FrameType
    BY IdleIsGood DEF Inductive, TypeOK
<1>5. f \in FrameType
    <2>1. t \in 0..LastTask /\ "read" \in Label
        BY <1>3, BoundAssumption DEF Label
    <2> QED
        BY <1>4, <2>1 DEF FrameType
<1>6. f.at = "read" /\ f.task = t /\ f.todo = <<>>
    BY DEF Idle
<1> HIDE DEF f
<1>7. FrameSound(f)
    BY <1>3, <1>6 DEF FrameSound, InHands, OnSession, NoTask
<1> QED
    BY <1>1, <1>5, <1>7 DEF GoesWell, Good

\* A worker goes on to another label with what it holds.
LEMMA OnTo ==
    ASSUME Inductive, NEW x \in Thread, NEW label \in Label,
           FrameSound(At(x, label)), Goes(x, At(x, label))
    PROVE  GoesWell(x)
<1>1. At(x, label) \in FrameType
    BY FrameParts DEF At, FrameType
<1> QED
    BY <1>1 DEF GoesWell, Goes, Good

\* Through the working of a task nothing more is asked of what a worker holds.
LEMMA WorksOn ==
    ASSUME Inductive, NEW x \in Thread, th[x].at \in InHands \ {"read"},
           NEW label \in {"note", "spawn", "register", "wait"}, Goes(x, At(x, label))
    PROVE  GoesWell(x)
<1> DEFINE f == At(x, label)
<1>1. /\ f.at = label /\ f.task = th[x].task /\ f.todo = th[x].todo
    BY FrameParts DEF At, FrameType
<1> HIDE DEF f
<1>2. FrameSound(f)
    BY <1>1, FrameParts DEF FrameSound, InHands, OnSession
<1>3. label \in Label
    BY DEF Label
<1> QED
    BY <1>2, <1>3, OnTo DEF f

\* A task that runs was assigned.
LEMMA ReadTaskWell ==
    ASSUME Inductive, NEW w \in Thread, ReadTask(w)
    PROVE  GoesWell(w)
<1> DEFINE t == th[w].task
           n == tasks[t].attempts
           f == [th[w] EXCEPT !.at = "prepare", !.attempt = n]
<1>1. th[w].at = "read"
    BY DEF ReadTask, Frame
<1>2. CASE t \in DOMAIN tasks /\ tasks[t].state = "Running"
    <2>1. th' = [th EXCEPT ![w] = f]
        BY <1>2 DEF ReadTask, Frame, Goes
    <2>2. n \in Nat /\ n > 0
        BY <1>2, TaskThere, InductiveStoreOK
    <2>3. th[w].task # NoTask
        BY <1>1, FrameParts DEF FrameSound, InHands
    <2>4. f \in FrameType /\ f.at = "prepare" /\ f.task = t /\ f.todo = th[w].todo
        <3>1. "prepare" \in Label
            BY DEF Label
        <3> HIDE DEF n
        <3> QED
            BY <2>2, <3>1, FrameParts DEF FrameType
    <2> HIDE DEF f
    <2>5. FrameSound(f)
        BY <2>2, <2>3, <2>4, FrameParts DEF FrameSound, InHands, OnSession
    <2> QED
        BY <2>1, <2>4, <2>5 DEF GoesWell, Good
<1>3. CASE ~ (t \in DOMAIN tasks /\ tasks[t].state = "Running")
    BY <1>3, RestsWell DEF ReadTask, Frame
<1> QED
    BY <1>2, <1>3

\* Whatever a run came to is something a run may come to.
LEMMA EndsWell ==
    ASSUME Inductive, NEW w \in Thread, th[w].at \in InHands \ {"read"},
           NEW end \in Ended, NEW consumed \in Observed \cup {NotYet}, NEW talked \in BOOLEAN,
           CameTo(w, end, consumed, talked)
    PROVE  GoesWell(w)
<1> DEFINE f == [th[w] EXCEPT !.at = "end", !.end = end, !.consumed = consumed,
                              !.talked = talked]
<1>1. th' = [th EXCEPT ![w] = f]
    BY DEF CameTo, Goes, Frame
<1>2. consumed \in Observation /\ "end" \in Label
    BY InputAssumption DEF Observation, NotYet, Label
<1>3. /\ f \in FrameType /\ f.at = "end" /\ f.task = th[w].task /\ f.todo = th[w].todo
      /\ f.consumed = consumed
    BY <1>2, FrameParts DEF FrameType
<1> HIDE DEF f
<1>4. FrameSound(f)
    BY <1>3, FrameParts DEF FrameSound, InHands, OnSession
<1> QED
    BY <1>1, <1>3, <1>4 DEF GoesWell, Good

LEMMA NothingRanWell ==
    ASSUME Inductive, NEW w \in Thread, th[w].at \in InHands \ {"read"}, NothingRan(w)
    PROVE  GoesWell(w)
<1>1. CameTo(w, "Error", NotYet, FALSE)
    BY DEF NothingRan, CameTo
<1>2. "Error" \in Ended
    BY DEF Ended
<1> QED
    BY <1>1, <1>2, EndsWell

LEMMA OutcomeWell ==
    ASSUME Inductive, NEW w \in Thread, th[w].at = "wait", Outcome(w)
    PROVE  GoesWell(w)
<1>1. th[w].at \in InHands \ {"read"}
    BY DEF InHands
<1>2. PICK consumed \in Observed :
         \/ CameTo(w, "Completed", consumed, FALSE)
         \/ \E talked \in Talks, end \in {"Interrupted", "Error"} :
               CameTo(w, end, consumed, talked)
         \/ Goes(w, [Frame(w) EXCEPT !.at = "turn", !.consumed = consumed])
    BY DEF Outcome
<1>3. CASE CameTo(w, "Completed", consumed, FALSE)
    <2>1. "Completed" \in Ended
        BY DEF Ended
    <2> QED
        BY <1>1, <1>3, <2>1, EndsWell
<1>4. ASSUME NEW talked \in Talks, NEW end \in {"Interrupted", "Error"},
             CameTo(w, end, consumed, talked)
      PROVE  GoesWell(w)
    <2>1. end \in Ended /\ talked \in BOOLEAN
        BY InputAssumption DEF Ended
    <2> QED
        BY <1>1, <1>4, <2>1, EndsWell
<1>5. CASE Goes(w, [Frame(w) EXCEPT !.at = "turn", !.consumed = consumed])
    <2> DEFINE f == [th[w] EXCEPT !.at = "turn", !.consumed = consumed]
    <2>1. th' = [th EXCEPT ![w] = f]
        BY <1>5 DEF Goes, Frame
    <2>2. consumed \in Observation /\ "turn" \in Label
        BY InputAssumption DEF Label
    <2>3. /\ f \in FrameType /\ f.at = "turn" /\ f.task = th[w].task /\ f.todo = th[w].todo
          /\ f.consumed = consumed
        BY <2>2, FrameParts DEF FrameType
    <2> HIDE DEF f
    <2>4. FrameSound(f)
        BY <1>1, <2>3, FrameParts DEF FrameSound, InHands, OnSession
    <2> QED
        BY <2>1, <2>3, <2>4 DEF GoesWell, Good
<1> QED
    BY <1>2, <1>3, <1>4, <1>5

\* A thread that turns to a session that is there.
LEMMA TurnsToSession ==
    ASSUME Inductive, NEW x \in Thread, NEW s \in DOMAIN sessions,
           NEW label \in {"held", "stopread", "clock"},
           NEW why \in S!Reason \cup {S!NoReason},
           Goes(x, [Idle EXCEPT !.at = label, !.session = s, !.why = why])
    PROVE  GoesWell(x)
<1> DEFINE f == [Idle EXCEPT !.at = label, !.session = s, !.why = why]
<1>1. /\ s \in 0..LastSession
      /\ th' = [th EXCEPT ![x] = f]
    BY BoundAssumption, InductiveStoreOK DEF Inductive, TypeOK, HeldSound, SessionId, Goes
<1>2. Idle \in FrameType /\ label \in Label /\ next_id \in Nat /\ next_id # 0
    BY IdleIsGood DEF Inductive, TypeOK, Label, TaskId, NoTask
<1>3. f \in FrameType
    BY <1>1, <1>2 DEF FrameType
<1>4. f.at = label /\ f.session = s /\ f.task = 0 /\ f.todo = <<>>
    BY DEF Idle, NoTask
<1> HIDE DEF f
<1>5. FrameSound(f)
    BY <1>2, <1>4 DEF FrameSound, InHands, OnSession
<1> QED
    BY <1>1, <1>3, <1>5 DEF GoesWell, Good

\* Reasons are reasons.
LEMMA Reasons ==
    /\ "interrupted" \in S!Reason
    /\ \A a, b, c : NothingMore(a, b, c) \in S!Reason
BY Zenon DEF S!Reason, NothingMore

LEMMA OnwardIs ==
    ASSUME NEW w, NEW label, Onward(w, label)
    PROVE  \/ \E why \in S!Reason \cup {S!NoReason}, s \in {tasks[t].session : t \in DOMAIN tasks} :
                 /\ s # NoSession
                 /\ Goes(w, [Idle EXCEPT !.at = label, !.session = s, !.why = why])
           \/ Rests(w)
<1> DEFINE t == th[w].task
           s == IF t \in DOMAIN tasks THEN tasks[t].session ELSE NoSession
           why == IF label = "stopread" THEN "vendor limit" ELSE S!NoReason
<1>1. why \in S!Reason \cup {S!NoReason}
    BY Zenon DEF S!Reason
<1>2. \/ s # NoSession /\ Goes(w, [Idle EXCEPT !.at = label, !.session = s, !.why = why])
      \/ Rests(w)
    BY Zenon DEF Onward, Frame
<1>3. s # NoSession => s \in {tasks[u].session : u \in DOMAIN tasks}
    BY DEF NoSession
<1> HIDE DEF s, why
<1> QED
    BY <1>1, <1>2, <1>3

LEMMA OnwardWell ==
    ASSUME Inductive, NEW w \in Thread, NEW label \in {"held", "stopread"}, Onward(w, label)
    PROVE  GoesWell(w)
<1>1. CASE Rests(w)
    BY <1>1, RestsWell
<1>2. ASSUME NEW why \in S!Reason \cup {S!NoReason}, NEW t \in DOMAIN tasks,
             tasks[t].session # NoSession,
             Goes(w, [Idle EXCEPT !.at = label, !.session = tasks[t].session, !.why = why])
      PROVE  GoesWell(w)
    <2>1. tasks[t].session \in Nat /\ tasks[t].session < next_session
        BY TaskThere, InductiveStoreOK
    <2>2. tasks[t].session \in DOMAIN sessions
        BY <1>2, <2>1, InductiveStoreOK DEF NoSession, StoreOK, SessionId
    <2> QED
        BY <1>2, <2>2, TurnsToSession
<1> QED
    BY <1>1, <1>2, OnwardIs

LEMMA SettleReadWell ==
    ASSUME Inductive, NEW x \in Thread, SettleRead(x)
    PROVE  GoesWell(x)
<1> DEFINE s == th[x].session
           isLate == s \in late
           f == [At(x, "decide") EXCEPT !.late = isLate]
<1>1. th[x].at = "held"
    BY DEF SettleRead, Frame
<1>2. CASE s \in S!Running(sessions) /\ th' = [th EXCEPT ![x] = f]
    <2>1. s \in DOMAIN sessions /\ isLate \in BOOLEAN /\ "decide" \in Label
        BY <1>2 DEF S!Running, Label
    <2> HIDE DEF isLate
    <2>2. /\ f \in FrameType /\ f.at = "decide" /\ f.session = s
          /\ f.task = th[x].task /\ f.todo = th[x].todo
        BY <2>1, FrameParts DEF FrameType, At
    <2> HIDE DEF f
    <2>3. FrameSound(f)
        BY <2>1, <2>2, FrameParts DEF FrameSound, InHands, OnSession
    <2> QED
        BY <1>2, <2>2, <2>3 DEF GoesWell, Good
<1>3. CASE Rests(x)
    BY <1>3, RestsWell
<1> QED
    BY <1>2, <1>3 DEF SettleRead, Goes, Frame

LEMMA StopHasReason ==
    ASSUME NEW st, Decide(st).kind = "stop"
    PROVE  Decide(st).why \in S!Reason
<1> DEFINE decision == Decide(st)
<1>1. \/ \E why \in S!Reason : decision = Stop(why)
      \/ \E list : decision = Start(list)
    <2>1. "observation unreadable" \in S!Reason /\ "budget hardlock" \in S!Reason
        BY Zenon DEF S!Reason
    <2> QED
        BY <2>1, Reasons, Zenon DEF Decide
<1> HIDE DEF decision
<1>2. \A list : Start(list).kind # "stop"
    BY DEF Start
<1>3. \A why : Stop(why).why = why
    BY DEF Stop
<1> QED
    BY <1>1, <1>2, <1>3 DEF decision

LEMMA DecideNowWell ==
    ASSUME Inductive, NEW x \in Thread, DecideNow(x)
    PROVE  GoesWell(x)
<1>1. PICK cost \in Costs : Decided(x, Decision(x, cost), Choice(x, cost))
    BY DecideNowIs
<1> DEFINE s == th[x].session
           starts == DOMAIN Choice(x, cost)
           todo == InOrder(starts)
           spent == Counted(tasks, s)
           kind == Decision(x, cost).kind
           why == IF kind = "stop" THEN Decision(x, cost).why ELSE S!NoReason
           f == [At(x, "record") EXCEPT !.spent = spent, !.why = why, !.todo = todo]
<1>2. th' = [th EXCEPT ![x] = f]
    BY <1>1 DEF Decided, Goes
<1>3. s \in DOMAIN sessions /\ TypeOK
    BY DecideNowIs DEF Inductive
<1>4. starts \in SUBSET Waiting(tasks) /\ (kind = "stop" => starts = {})
    BY <1>3, ChoiceStarts
<1> HIDE DEF kind
<1>5. why \in S!Reason \cup {S!NoReason} /\ (why # S!NoReason => kind = "stop")
    BY StopHasReason DEF Decision, kind
<1> HIDE DEF why, starts
<1>6. starts \in SUBSET DOMAIN tasks /\ starts \in SUBSET Nat /\ IsFiniteSet(starts)
    BY <1>3, <1>4, PartsOfTasks, TasksCount
<1>7. /\ todo \in Seq(starts) /\ DOMAIN todo = 1..Cardinality(starts)
      /\ \A i \in DOMAIN todo : todo[i] \in starts
    BY <1>6, InOrderOrders, SeqElement
<1>8. starts = {} => todo = <<>>
    BY <1>7, FS_EmptySet
<1> HIDE DEF todo
<1>9. todo \in Seq(1..LastTask) /\ \A i \in DOMAIN todo : todo[i] < next_id
    <2>1. starts \in SUBSET (1..LastTask)
        BY <1>3, <1>6 DEF TypeOK
    <2>2. todo \in Seq(1..LastTask)
        BY <1>7, <2>1, SeqOfMore
    <2> QED
        BY <1>6, <1>7, <2>2, TaskThere, InductiveStoreOK
<1>10. spent \in Nat
    BY <1>3, SumsOfTasks
<1> HIDE DEF spent
<1>11. /\ f \in FrameType /\ f.at = "record" /\ f.session = s /\ f.task = th[x].task
       /\ f.todo = todo /\ f.why = why
    <2>1. "record" \in Label
        BY DEF Label
    <2> QED
        BY <1>5, <1>9, <1>10, <2>1, FrameParts DEF FrameType, At
<1> HIDE DEF f
<1>12. FrameSound(f)
    BY <1>3, <1>4, <1>5, <1>8, <1>9, <1>11, FrameParts DEF FrameSound, InHands, OnSession
<1> QED
    BY <1>2, <1>11, <1>12 DEF GoesWell, Good

\* What follows the recording: the stopping, nothing, or the queueing of what
\* there is to queue.
LEMMA RecordWell ==
    ASSUME Inductive, NEW x \in Thread, Record(x)
    PROVE  GoesWell(x)
<1>1. th[x].at = "record"
    BY DEF Record, Frame
<1>2. Rests(x) \/ AfterRecord(x)
    BY DEF Record
<1>3. CASE Rests(x)
    BY <1>3, RestsWell
<1>4. CASE AfterRecord(x)
    <2>1. /\ th[x].task < next_id /\ \A i \in DOMAIN th[x].todo : th[x].todo[i] < next_id
          /\ th[x].session \in DOMAIN sessions
        BY <1>1, FrameParts DEF FrameSound, OnSession
    <2>2. CASE Goes(x, At(x, "stopread"))
        <3> DEFINE f == At(x, "stopread")
        <3>1. /\ f.at = "stopread" /\ f.task = th[x].task /\ f.todo = th[x].todo
              /\ f.session = th[x].session
            BY FrameParts DEF At, FrameType
        <3> HIDE DEF f
        <3>2. FrameSound(f)
            BY <2>1, <3>1 DEF FrameSound, InHands, OnSession
        <3>3. "stopread" \in Label
            BY DEF Label
        <3> QED
            BY <2>2, <3>2, <3>3, OnTo DEF f
    <2>3. CASE th[x].todo # <<>> /\ Goes(x, At(x, "enqueue"))
        <3> DEFINE f == At(x, "enqueue")
        <3>1. /\ f.at = "enqueue" /\ f.task = th[x].task /\ f.todo = th[x].todo
              /\ f.session = th[x].session
            BY FrameParts DEF At, FrameType
        <3> HIDE DEF f
        <3>2. FrameSound(f)
            BY <2>1, <2>3, <3>1 DEF FrameSound, InHands, OnSession
        <3>3. "enqueue" \in Label
            BY DEF Label
        <3> QED
            BY <2>3, <3>2, <3>3, OnTo DEF f
    <2> QED
        BY <1>3, <1>4, <2>2, <2>3 DEF AfterRecord, Frame
<1> QED
    BY <1>2, <1>3, <1>4

\* The rest of a list of numbers is a list of numbers.
LEMMA TailOf ==
    ASSUME NEW n, NEW m \in Nat, NEW q \in Seq(1..n), q # <<>>,
           \A i \in DOMAIN q : q[i] < m
    PROVE  /\ Tail(q) \in Seq(1..n) /\ \A i \in DOMAIN Tail(q) : Tail(q)[i] < m
           /\ Head(q) \in 1..n /\ Head(q) < m
           /\ \A i \in DOMAIN q : q[i] = Head(q) \/ \E j \in DOMAIN Tail(q) : Tail(q)[j] = q[i]
<1>1. /\ Len(q) \in Nat /\ Len(q) # 0 /\ DOMAIN q = 1..Len(q)
      /\ Tail(q) \in Seq(1..n) /\ Len(Tail(q)) = Len(q) - 1
      /\ DOMAIN Tail(q) = 1..(Len(q) - 1)
    OBVIOUS
<1>2. \A i \in DOMAIN Tail(q) : i + 1 \in DOMAIN q /\ Tail(q)[i] = q[i+1]
    BY <1>1
<1>3. Head(q) = q[1] /\ 1 \in DOMAIN q
    BY <1>1
<1>4. Head(q) \in 1..n
    BY <1>3, SeqElement
<1>5. ASSUME NEW i \in DOMAIN q
      PROVE  q[i] = Head(q) \/ \E j \in DOMAIN Tail(q) : Tail(q)[j] = q[i]
    <2>1. CASE i = 1
        BY <1>3, <2>1
    <2>2. CASE i # 1
        <3>1. i - 1 \in DOMAIN Tail(q) /\ i - 1 + 1 = i
            BY <1>1, <2>2
        <3> QED
            BY <1>2, <3>1
    <2> QED
        BY <2>1, <2>2
<1> QED
    BY <1>1, <1>2, <1>3, <1>4, <1>5

\* A thread that goes on where it is, with the rest of its list.
LEMMA RestOfList ==
    ASSUME Inductive, NEW x \in Thread, th[x].at \in {"enqueue", "kill"},
           th[x].todo # <<>>, th[x].at = "enqueue" => Tail(th[x].todo) # <<>>,
           Goes(x, [th[x] EXCEPT !.todo = Tail(th[x].todo)])
    PROVE  GoesWell(x)
<1> DEFINE rest == Tail(th[x].todo)
           f == [th[x] EXCEPT !.todo = rest]
<1>1. th' = [th EXCEPT ![x] = f]
    BY DEF Goes
<1>2. /\ th[x].task < next_id /\ th[x].session \in DOMAIN sessions
      /\ \A i \in DOMAIN th[x].todo : th[x].todo[i] < next_id
    BY FrameParts DEF FrameSound, OnSession
<1>3. rest \in Seq(1..LastTask) /\ \A i \in DOMAIN rest : rest[i] < next_id
    BY <1>2, FrameParts, TailOf
<1>4. th[x].at = "enqueue" => rest # <<>>
    OBVIOUS
<1> HIDE DEF rest
<1>5. /\ f \in FrameType /\ f.at = th[x].at /\ f.task = th[x].task /\ f.todo = rest
      /\ f.session = th[x].session
    BY <1>3, FrameParts DEF FrameType
<1> HIDE DEF f
<1>6. FrameSound(f)
    BY <1>2, <1>3, <1>4, <1>5 DEF FrameSound, InHands, OnSession
<1> QED
    BY <1>1, <1>5, <1>6 DEF GoesWell, Good

LEMMA EnqueueWell ==
    ASSUME Inductive, NEW x \in Thread, Enqueue(x)
    PROVE  GoesWell(x)
<1>1. th[x].at = "enqueue"
    BY DEF Enqueue, Frame
<1>2. th[x].todo # <<>>
    BY <1>1, FrameParts DEF FrameSound
<1>3. CASE Rests(x)
    BY <1>3, RestsWell
<1>4. CASE Tail(th[x].todo) # <<>> /\ Goes(x, [th[x] EXCEPT !.todo = Tail(th[x].todo)])
    BY <1>1, <1>2, <1>4, RestOfList
<1> QED
    BY <1>3, <1>4 DEF Enqueue, Frame

LEMMA KillWell ==
    ASSUME Inductive, NEW x \in Thread, Kill(x)
    PROVE  GoesWell(x)
<1>1. /\ th[x].at = "kill" /\ th[x].todo # <<>>
      /\ Goes(x, [th[x] EXCEPT !.todo = Tail(th[x].todo)])
    BY DEF Kill, Frame
<1> QED
    BY <1>1, RestOfList

LEMMA StopReadWell ==
    ASSUME Inductive, NEW x \in Thread, StopRead(x)
    PROVE  GoesWell(x)
<1> DEFINE going == RunningIn(tasks, th[x].session)
           todo == InOrder(going)
           f == [At(x, "kill") EXCEPT !.todo = todo]
<1>1. th[x].at = "stopread" /\ th' = [th EXCEPT ![x] = f]
    BY DEF StopRead, Frame, Goes
<1>2. going \in SUBSET DOMAIN tasks /\ going \in SUBSET Nat /\ IsFiniteSet(going)
    BY PartsOfTasks, TasksCount DEF Inductive
<1> HIDE DEF going
<1>3. todo \in Seq(going) /\ \A i \in DOMAIN todo : todo[i] \in going
    BY <1>2, InOrderOrders, SeqElement
<1> HIDE DEF todo
<1>4. todo \in Seq(1..LastTask) /\ \A i \in DOMAIN todo : todo[i] < next_id
    <2>1. going \in SUBSET (1..LastTask)
        BY <1>2 DEF Inductive, TypeOK
    <2>2. todo \in Seq(1..LastTask)
        BY <1>3, <2>1, SeqOfMore
    <2> QED
        BY <1>2, <1>3, <2>2, TaskThere, InductiveStoreOK
<1>5. th[x].session \in DOMAIN sessions /\ "kill" \in Label
    BY <1>1, FrameParts DEF FrameSound, OnSession, Label
<1>6. /\ f \in FrameType /\ f.at = "kill" /\ f.session = th[x].session /\ f.task = th[x].task
      /\ f.todo = todo
    BY <1>4, <1>5, FrameParts DEF FrameType, At
<1> HIDE DEF f
<1>7. FrameSound(f)
    BY <1>4, <1>5, <1>6, FrameParts DEF FrameSound, InHands, OnSession
<1> QED
    BY <1>1, <1>6, <1>7 DEF GoesWell, Good

LEMMA AskRunWell ==
    ASSUME Inductive, NEW h \in Thread, AskRun(h)
    PROVE  GoesWell(h)
<1> DEFINE f == [Idle EXCEPT !.at = "open"]
<1>1. th' = [th EXCEPT ![h] = f]
    BY DEF AskRun, Goes
<1>2. Idle \in FrameType /\ "open" \in Label /\ next_id \in Nat /\ next_id # 0
    BY IdleIsGood DEF Inductive, TypeOK, Label, TaskId, NoTask
<1>3. f \in FrameType
    BY <1>2 DEF FrameType
<1>4. f.at = "open" /\ f.task = 0 /\ f.todo = <<>>
    BY DEF Idle, NoTask
<1> HIDE DEF f
<1>5. FrameSound(f)
    BY <1>2, <1>4 DEF FrameSound, InHands, OnSession
<1> QED
    BY <1>1, <1>3, <1>5 DEF GoesWell, Good

LEMMA AskInterruptWell ==
    ASSUME Inductive, NEW h \in Thread, AskInterrupt(h)
    PROVE  GoesWell(h)
<1>1. PICK s \in S!Running(sessions) :
          Goes(h, [Idle EXCEPT !.at = "stopread", !.session = s, !.why = "interrupted"])
    BY DEF AskInterrupt
<1>2. s \in DOMAIN sessions
    BY DEF S!Running
<1> QED
    BY <1>1, <1>2, Reasons, TurnsToSession

LEMMA ClockLooksWell ==
    ASSUME Inductive, ClockLooks
    PROVE  GoesWell(Clock)
<1>1. PICK s \in S!Running(sessions) :
          Goes(Clock, [Idle EXCEPT !.at = "clock", !.session = s])
    BY DEF ClockLooks
<1>2. s \in DOMAIN sessions /\ Clock \in Thread
    BY DEF S!Running, Thread
<1> DEFINE f == [Idle EXCEPT !.at = "clock", !.session = s]
<1>3. s \in 0..LastSession /\ th' = [th EXCEPT ![Clock] = f]
    BY <1>1, <1>2, BoundAssumption, InductiveStoreOK
       DEF Inductive, TypeOK, HeldSound, SessionId, Goes
<1>4. Idle \in FrameType /\ "clock" \in Label /\ next_id \in Nat /\ next_id # 0
    BY IdleIsGood DEF Inductive, TypeOK, Label, TaskId, NoTask
<1>5. f \in FrameType
    BY <1>3, <1>4 DEF FrameType
<1>6. f.at = "clock" /\ f.session = s /\ f.task = 0 /\ f.todo = <<>>
    BY DEF Idle, NoTask
<1> HIDE DEF f
<1>7. FrameSound(f)
    BY <1>2, <1>4, <1>6 DEF FrameSound, InHands, OnSession
<1> QED
    BY <1>2, <1>3, <1>5, <1>7 DEF GoesWell, Good

LEMMA ClockReadsWell ==
    ASSUME Inductive, ClockReads
    PROVE  GoesWell(Clock)
<1> DEFINE why == NothingMore(Waiting(tasks) # {}, Blocked(tasks), TRUE)
           f == [At(Clock, "stopread") EXCEPT !.why = why]
<1>1. th[Clock].at = "clock" /\ Clock \in Thread
    BY DEF ClockReads, Frame, Thread
<1>2. CASE Rests(Clock)
    BY <1>1, <1>2, RestsWell
<1>3. CASE th' = [th EXCEPT ![Clock] = f]
    <2>1. why \in S!Reason /\ "stopread" \in Label
        BY Reasons DEF Label
    <2> HIDE DEF why
    <2>2. th[Clock].session \in DOMAIN sessions
        BY <1>1, FrameParts DEF FrameSound, OnSession
    <2>3. /\ f \in FrameType /\ f.at = "stopread" /\ f.session = th[Clock].session
          /\ f.task = th[Clock].task /\ f.todo = th[Clock].todo
        BY <1>1, <2>1, FrameParts DEF FrameType, At
    <2> HIDE DEF f
    <2>4. FrameSound(f)
        BY <1>1, <2>2, <2>3, FrameParts DEF FrameSound, InHands, OnSession
    <2> QED
        BY <1>1, <1>3, <2>3, <2>4 DEF GoesWell, Good
<1> QED
    BY <1>2, <1>3 DEF ClockReads, Goes

\* A session that was stopped is no longer running.
LEMMA StopSessionKeeps ==
    ASSUME Inductive, StoreOK', Onwards, MoreSessions, NEW x \in Thread, StopSession(x)
    PROVE  FramesOK'
<1> DEFINE s == th[x].session
<1>1. /\ th[x].at = "kill" /\ th' = [th EXCEPT ![x] = At(x, "interrupt")]
      /\ sessions' = [sessions EXCEPT ![s] = S!Stopped(sessions[s], th[x].why)]
      /\ UNCHANGED next_id
    BY DEF StopSession, Frame, Goes, store
<1>2. s \in DOMAIN sessions /\ sessions[s] \in S!Session
    BY <1>1, FrameParts, InductiveStoreOK DEF FrameSound, OnSession, Inductive, TypeOK
<1>3. ~ S!IsRunning(sessions'[s]) /\ s \in DOMAIN sessions'
    BY <1>1, <1>2, FrameParts, StoppedSession
<1>4. s \notin S!Running(sessions')
    BY <1>3 DEF S!Running
<1>5. PICK f : f = At(x, "interrupt")
    OBVIOUS
<1>6. /\ f \in FrameType /\ f.at = "interrupt" /\ f.session = s /\ f.task = th[x].task
      /\ f.todo = th[x].todo
    BY <1>5, FrameParts DEF At, FrameType, Label
<1>7. FrameSound(f)'
    <2>1. f.task < next_id' /\ \A i \in DOMAIN f.todo : f.todo[i] < next_id'
        BY <1>1, <1>6, FrameParts DEF FrameSound
    <2> HIDE DEF s
    <2> QED
        BY <1>3, <1>4, <1>6, <2>1 DEF FrameSound, InHands, OnSession
<1> QED
    BY <1>1, <1>5, <1>6, <1>7, MoveKeeps

\* The session that was opened is there for the thread that opened it.
LEMMA OpenKeeps ==
    ASSUME Inductive, StoreOK', Onwards, MoreSessions, NEW h \in Thread, Open(h)
    PROVE  FramesOK'
<1>1. CASE Rests(h)
    BY <1>1, RestsWell, GoesWellKeeps
<1>2. CASE ~ Rests(h)
    <2>1. /\ th' = [th EXCEPT ![h] = [Idle EXCEPT !.at = "held", !.session = next_session]]
          /\ next_session <= LastSession
          /\ next_session \in DOMAIN sessions'
          /\ UNCHANGED next_id
        BY <1>2 DEF Open, Goes, store
    <2>2. PICK f : f = [Idle EXCEPT !.at = "held", !.session = next_session]
        OBVIOUS
    <2>3. next_session \in 0..LastSession /\ next_id \in Nat /\ next_id # 0
        BY <2>1, BoundAssumption DEF Inductive, TypeOK, SessionId, TaskId, NoTask
    <2>4. Idle \in FrameType /\ "held" \in Label
        BY IdleIsGood DEF Inductive, TypeOK, Label
    <2>5. f \in FrameType
        BY <2>2, <2>3, <2>4 DEF FrameType
    <2>6. f.at = "held" /\ f.session = next_session /\ f.task = 0 /\ f.todo = <<>>
        BY <2>2 DEF Idle, NoTask
    <2>7. FrameSound(f)'
        BY <2>1, <2>3, <2>6 DEF FrameSound, InHands, OnSession
    <2> QED
        BY <2>1, <2>2, <2>5, <2>7, MoveKeeps
<1> QED
    BY <1>1, <1>2

LEMMA CarryingWell ==
    ASSUME Inductive, NEW w \in Thread, Carrying(w)
    PROVE  GoesWell(w)
<1>1. CASE Take(w) \/ ReadTask(w)
    BY <1>1, TakeWell, ReadTaskWell
<1>2. CASE Prepare(w)
    <2>1. th[w].at \in InHands \ {"read"}
        BY <1>2 DEF Prepare, Frame, InHands
    <2> QED
        BY <1>2, <2>1, WorksOn, NothingRanWell DEF Prepare
<1>3. CASE NoteArea(w)
    <2>1. th[w].at \in InHands \ {"read"} /\ Goes(w, At(w, "spawn"))
        BY <1>3 DEF NoteArea, Frame, InHands
    <2> QED
        BY <2>1, WorksOn
<1>4. CASE Spawn(w)
    <2>1. th[w].at \in InHands \ {"read"}
        BY <1>4 DEF Spawn, Frame, InHands
    <2> QED
        BY <1>4, <2>1, WorksOn, NothingRanWell DEF Spawn
<1>5. CASE Register(w)
    <2>1. th[w].at \in InHands \ {"read"} /\ Goes(w, At(w, "wait"))
        BY <1>5 DEF Register, Frame, InHands
    <2> QED
        BY <2>1, WorksOn
<1>6. CASE KilledReturns(w) \/ AgentEnds(w)
    BY <1>6, OutcomeWell DEF KilledReturns, AgentEnds, Frame
<1>7. CASE EndTask(w) \/ TurnAway(w)
    BY <1>7, OnwardWell DEF EndTask, TurnAway
<1>8. CASE TraceFails(w)
    BY <1>8, RestsWell DEF TraceFails, Fails
<1> QED
    BY <1>1, <1>2, <1>3, <1>4, <1>5, <1>6, <1>7, <1>8 DEF Carrying

LEMMA DoesWell ==
    ASSUME Inductive, NEW x \in Thread, Does(x), ~ StopSession(x), ~ Open(x)
    PROVE  GoesWell(x)
<1>1. CASE Carrying(x)
    BY <1>1, CarryingWell
<1>2. CASE Settling(x)
    BY <1>2, SettleReadWell, DecideNowWell, RecordWell, EnqueueWell DEF Settling
<1>3. CASE Stopping(x)
    BY <1>3, StopReadWell, KillWell, RestsWell DEF Stopping, InterruptTasks
<1>4. CASE StoreFails(x)
    BY <1>4, RestsWell DEF StoreFails, Fails
<1>5. CASE AskRun(x) \/ AskInterrupt(x)
    BY <1>5, AskRunWell, AskInterruptWell
<1>6. CASE x = Clock /\ (ClockLooks \/ ClockReads)
    BY <1>6, ClockLooksWell, ClockReadsWell
<1> QED
    BY <1>1, <1>2, <1>3, <1>4, <1>5, <1>6 DEF Does

LEMMA StepFrames ==
    ASSUME Inductive, Next
    PROVE  FramesOK'
<1>1. StoreOK' /\ Onwards /\ MoreSessions
    BY StepStore
<1>2. CASE Threads
    <2>1. PICK x \in Thread : Does(x)
        BY <1>2, ThreadsDo
    <2> QED
        BY <1>1, <2>1, StopSessionKeeps, OpenKeeps, DoesWell, GoesWellKeeps
<1>3. CASE UNCHANGED th
    BY <1>1, <1>3, StandingStill
<1>4. CASE Crash
    <2>1. th' = [x \in Thread |-> Idle]
        BY <1>4 DEF Crash
    <2>2. PICK f : f = Idle
        OBVIOUS
    <2>3. Good(f)
        BY <2>2, IdleIsGood DEF Inductive, TypeOK
    <2>4. FrameSound(f)'
        BY <1>1, <2>3, InductiveStoreOK, FrameStays
    <2>5. \A x \in Thread : FrameSound(th[x])'
        BY <2>1, <2>2, <2>4 DEF FrameSound
    <2>6. th' \in [Thread -> FrameType]
        BY <2>1, <2>2, <2>3 DEF Good
    <2> QED
        BY <2>5, <2>6 DEF FramesOK
<1> QED
    BY <1>2, <1>3, <1>4 DEF Next, Ask, OneChange, TimeRunsOut, OrphanEnds

\* Only one thread steps at a time.
Moves(x) == \E f : th' = [th EXCEPT ![x] = f]

LEMMA DoesMoves ==
    ASSUME Inductive, NEW x \in Thread, Does(x)
    PROVE  Moves(x)
<1>1. CASE StopSession(x)
    BY <1>1 DEF StopSession, Moves, Goes
<1>2. CASE Open(x)
    BY <1>2 DEF Open, Moves, Rests, Goes
<1>3. CASE ~ StopSession(x) /\ ~ Open(x)
    BY <1>3, DoesWell DEF GoesWell, Moves
<1> QED
    BY <1>1, <1>2, <1>3

LEMMA OthersStand ==
    ASSUME Inductive, NEW x \in Thread, Moves(x), NEW y \in Thread, y # x
    PROVE  th'[y] = th[y]
BY DEF Inductive, TypeOK, Moves

----------------------------------------------------------------------------
(* The queue. *)

LEMMA QueueSteps ==
    ASSUME NEW x \in Thread, Does(x)
    PROVE  (x \in Workers /\ Take(x)) \/ Enqueue(x) \/ UNCHANGED queue
<1>1. CASE x \in Workers /\ Carrying(x)
    BY <1>1 DEF Carrying, ReadTask, Prepare, NoteArea, Spawn, Register, KilledReturns,
                AgentEnds, EndTask, TurnAway, TraceFails, Fails
<1>2. CASE Settling(x)
    BY <1>2 DEF Settling, SettleRead, DecideNow, Record
<1>3. CASE Stopping(x) \/ StoreFails(x)
    BY <1>3 DEF Stopping, StopRead, Kill, StopSession, InterruptTasks, StoreFails, Fails
<1>4. CASE AskRun(x) \/ AskInterrupt(x) \/ Open(x)
    BY <1>4 DEF AskRun, AskInterrupt, Open
<1>5. CASE ClockLooks \/ ClockReads
    BY <1>5 DEF ClockLooks, ClockReads
<1> QED
    BY <1>1, <1>2, <1>3, <1>4, <1>5 DEF Does

QueueOK == queue \in Seq(1..LastTask) /\ QueueSound

LEMMA StepQueue ==
    ASSUME Inductive, Next
    PROVE  QueueOK'
<1>1. queue \in Seq(1..LastTask) /\ \A i \in DOMAIN queue : queue[i] \in Nat /\ queue[i] < next_id
    BY BoundAssumption, SeqElement DEF Inductive, TypeOK, QueueSound
<1>2. next_id \in Nat /\ next_id' \in Nat /\ next_id <= next_id'
    BY StepStore DEF Onwards, Inductive, TypeOK, TaskId
<1>3. CASE UNCHANGED queue
    <2>1. QueueSound'
        BY <1>1, <1>2, <1>3 DEF QueueSound
    <2> QED
        BY <1>1, <1>3, <2>1 DEF QueueOK
<1>4. ASSUME NEW x \in Thread, Take(x) PROVE QueueOK'
    <2>1. queue # <<>> /\ queue' = Tail(queue)
        BY <1>4 DEF Take
    <2> DEFINE q == queue'
    <2>2. /\ q \in Seq(1..LastTask)
          /\ \A i \in DOMAIN q : i + 1 \in DOMAIN queue /\ q[i] = queue[i + 1]
        BY <1>1, <2>1, TailOf
    <2>3. \A i \in DOMAIN q : q[i] < next_id'
        BY <1>1, <1>2, <2>2
    <2> QED
        BY <2>2, <2>3 DEF QueueOK, QueueSound
<1>5. ASSUME NEW x \in Thread, Enqueue(x) PROVE QueueOK'
    <2> DEFINE t == Head(th[x].todo)
    <2>1. th[x].at = "enqueue" /\ queue' = Append(queue, t)
        BY <1>5 DEF Enqueue, Frame
    <2>2. th[x].todo # <<>> /\ th[x].todo \in Seq(1..LastTask)
          /\ \A i \in DOMAIN th[x].todo : th[x].todo[i] < next_id
        BY <2>1, FrameParts DEF FrameSound
    <2>3. 1 \in DOMAIN th[x].todo /\ t = th[x].todo[1]
        BY <2>2
    <2>4. t \in 1..LastTask /\ t < next_id
        BY <2>2, <2>3, SeqElement
    <2> HIDE DEF t
    <2>5. queue' \in Seq(1..LastTask)
        BY <1>1, <2>1, <2>4
    <2>6. ASSUME NEW i \in DOMAIN queue', queue'[i] # t
          PROVE  i \in DOMAIN queue /\ queue'[i] = queue[i]
        <3>1. Len(queue) \in Nat /\ DOMAIN queue = 1..Len(queue)
            BY <1>1
        <3>2. i \in 1..(Len(queue) + 1)
            BY <1>1, <2>1, <2>4
        <3>3. queue'[i] = IF i <= Len(queue) THEN queue[i] ELSE t
            BY <1>1, <2>1, <2>4, <3>1, <3>2
        <3>4. i <= Len(queue)
            BY <2>6, <3>3
        <3> QED
            BY <3>1, <3>2, <3>3, <3>4
    <2>7. t < next_id'
        BY <1>2, <2>4, BoundAssumption
    <2>8. \A i \in DOMAIN queue' : queue'[i] < next_id'
        BY <1>1, <1>2, <2>6, <2>7
    <2> QED
        BY <2>5, <2>8 DEF QueueOK, QueueSound
<1>6. CASE Crash
    <2>1. queue' = <<>>
        BY <1>6 DEF Crash
    <2> QED
        BY <2>1 DEF QueueOK, QueueSound
<1>7. CASE Threads
    <2>1. PICK x \in Thread : Does(x)
        BY <1>7, ThreadsDo
    <2> QED
        BY <2>1, <1>3, <1>4, <1>5, QueueSteps
<1> QED
    BY <1>3, <1>6, <1>7 DEF Next, Ask, OneChange, TimeRunsOut, OrphanEnds

----------------------------------------------------------------------------
(* The agents. *)

AtWork == {"register", "wait"}
AgentsTyped ==
    /\ running \in [1..LastTask -> Workers \cup {Nobody}]
    /\ alive \subseteq Workers /\ orphans \subseteq 1..LastTask
    /\ crashes \in 0..MostCrashes

\* Only a worker that has started an agent, or waits for one, and a stopping
\* have to do with the agents.
LEMMA AgentSteps ==
    ASSUME NEW x \in Thread, Does(x)
    PROVE  \/ UNCHANGED agents /\ th[x].at \notin AtWork
           \/ x \in Workers /\ (Spawn(x) \/ Register(x) \/ KilledReturns(x) \/ AgentEnds(x))
           \/ Kill(x)
<1>1. CASE x \in Workers /\ Carrying(x)
    BY <1>1 DEF Carrying, Take, ReadTask, Prepare, NoteArea,
                EndTask, TurnAway, TraceFails, Fails, AtWork, Frame
<1>2. CASE Settling(x)
    BY <1>2 DEF Settling, SettleRead, DecideNow, Record, Enqueue, AtWork, Frame
<1>3. CASE Stopping(x) \/ StoreFails(x)
    BY <1>3 DEF Stopping, StopRead, StopSession, InterruptTasks, StoreFails, Fails, AtWork, Frame
<1>4. CASE AskRun(x) \/ AskInterrupt(x) \/ Open(x)
    BY <1>4 DEF AskRun, AskInterrupt, Open, AtWork, Frame
<1>5. CASE x = Clock /\ (ClockLooks \/ ClockReads)
    BY <1>5 DEF ClockLooks, ClockReads, AtWork, Frame
<1> QED
    BY <1>1, <1>2, <1>3, <1>4, <1>5 DEF Does

\* The worker that steps is at work on what it has started, if it lives.
LEMMA AgentsMove ==
    ASSUME Inductive, NEW x \in Thread, Moves(x), alive' \subseteq alive \cup {x},
           x \in alive' => th'[x].at \in AtWork
    PROVE  AgentsSound'
<1>1. \A w \in alive : w \in Thread /\ th[w].at \in AtWork
    BY DEF Inductive, TypeOK, AgentsSound, AtWork, Thread
<1>2. ASSUME NEW w \in alive' PROVE th'[w].at \in AtWork
    <2>1. CASE w = x
        BY <2>1
    <2>2. CASE w # x
        <3>1. w \in alive
            BY <2>2
        <3> QED
            BY <1>1, <2>2, <3>1, OthersStand
    <2> QED
        BY <2>1, <2>2
<1> QED
    BY <1>2 DEF AgentsSound, AtWork

LEMMA StepAgents ==
    ASSUME Inductive, Next
    PROVE  AgentsTyped' /\ AgentsSound'
<1>1. AgentsTyped /\ AgentsSound
    BY DEF Inductive, TypeOK, AgentsTyped
<1>2. ASSUME NEW x \in Thread, Does(x), UNCHANGED crashes
      PROVE  AgentsTyped' /\ AgentsSound'
    <2>1. Moves(x) /\ th \in [Thread -> FrameType]
        BY <1>2, DoesMoves DEF Inductive, TypeOK
    <2>2. CASE UNCHANGED agents /\ th[x].at \notin AtWork
        <3>1. running' = running /\ alive' = alive /\ orphans' = orphans
            BY <2>2 DEF agents
        <3>2. x \notin alive
            BY <1>1, <2>2 DEF AgentsSound, AtWork
        <3> QED
            BY <1>1, <1>2, <2>1, <3>1, <3>2, AgentsMove DEF AgentsTyped
    <2>3. CASE x \in Workers /\ Spawn(x)
        <3>1. CASE alive' = alive \cup {x} /\ Goes(x, At(x, "register"))
            <4>1. th'[x].at = "register"
                BY <2>1, <3>1, FrameParts DEF Goes, At, FrameType
            <4>2. running' = running /\ orphans' = orphans
                BY <2>3 DEF Spawn
            <4>3. AgentsSound'
                BY <2>1, <3>1, <4>1, AgentsMove DEF AtWork
            <4> QED
                BY <1>1, <1>2, <2>3, <3>1, <4>2, <4>3 DEF AgentsTyped
        <3>2. CASE UNCHANGED alive
            <4>1. running' = running /\ orphans' = orphans /\ th[x].at = "spawn"
                BY <2>3 DEF Spawn, Frame
            <4>2. x \notin alive
                BY <1>1, <4>1 DEF AgentsSound
            <4> QED
                BY <1>1, <1>2, <2>1, <3>2, <4>1, <4>2, AgentsMove DEF AgentsTyped
        <3> QED
            BY <2>3, <3>1, <3>2 DEF Spawn
    <2>4. CASE x \in Workers /\ Register(x)
        <3>1. /\ running' = [running EXCEPT ![th[x].task] = x] /\ Goes(x, At(x, "wait"))
              /\ alive' = alive /\ orphans' = orphans
            BY <2>4 DEF Register, Frame
        <3>2. th'[x].at = "wait"
            BY <2>1, <3>1, FrameParts DEF Goes, At, FrameType
        <3>3. running' \in [1..LastTask -> Workers \cup {Nobody}]
            BY <1>1, <2>4, <3>1 DEF AgentsTyped
        <3>4. AgentsSound'
            BY <2>1, <3>1, <3>2, AgentsMove DEF AtWork
        <3> QED
            BY <1>1, <1>2, <3>1, <3>3, <3>4 DEF AgentsTyped
    <2>5. CASE x \in Workers /\ (KilledReturns(x) \/ AgentEnds(x))
        <3>1. /\ running' = [running EXCEPT ![th[x].task] = Nobody]
              /\ alive' \subseteq alive \ {x} /\ orphans' = orphans
            BY <2>5 DEF KilledReturns, AgentEnds, Gone, Frame
        <3>2. running' \in [1..LastTask -> Workers \cup {Nobody}]
            BY <1>1, <3>1 DEF AgentsTyped
        <3>3. AgentsSound'
            BY <2>1, <3>1, AgentsMove
        <3> QED
            BY <1>1, <1>2, <3>1, <3>2, <3>3 DEF AgentsTyped
    <2>6. CASE Kill(x)
        <3> DEFINE t == Head(th[x].todo)
        <3>1. /\ running' = [running EXCEPT ![t] = Nobody] /\ th[x].at = "kill"
              /\ alive' \subseteq alive /\ orphans' = orphans
            BY <2>6 DEF Kill, Frame
        <3> HIDE DEF t
        <3>2. running' \in [1..LastTask -> Workers \cup {Nobody}]
            BY <1>1, <3>1 DEF AgentsTyped
        <3>3. x \notin alive
            BY <1>1, <3>1 DEF AgentsSound
        <3>4. AgentsSound'
            BY <2>1, <3>1, <3>3, AgentsMove
        <3> QED
            BY <1>1, <1>2, <3>1, <3>2, <3>4 DEF AgentsTyped
    <2> QED
        BY <1>2, <2>2, <2>3, <2>4, <2>5, <2>6, AgentSteps
<1>3. CASE Threads
    BY <1>2, <1>3, ThreadsDo
<1>4. CASE UNCHANGED <<agents, th, crashes>>
    BY <1>1, <1>4 DEF AgentsTyped, AgentsSound, agents
<1>5. CASE Crash
    <2>1. /\ crashes < MostCrashes /\ crashes' = crashes + 1 /\ alive' = {}
          /\ running' = [t \in 1..LastTask |-> Nobody]
          /\ orphans' = orphans \cup {th[w].task : w \in alive}
        BY <1>5 DEF Crash
    <2>2. crashes' \in 0..MostCrashes
        BY <1>1, <2>1, BoundAssumption DEF AgentsTyped
    <2>3. ASSUME NEW w \in alive PROVE th[w].task \in 1..LastTask
        <3>1. w \in Thread /\ th[w].at \in InHands
            BY <1>1 DEF AgentsTyped, AgentsSound, InHands, Thread
        <3> QED
            BY <3>1, FrameParts DEF FrameSound, NoTask
    <2> QED
        BY <1>1, <2>1, <2>2, <2>3 DEF AgentsTyped, AgentsSound
<1>6. CASE \E t \in orphans : OrphanEnds(t) /\ UNCHANGED <<late, crashes>>
    <2>1. orphans' \subseteq orphans /\ UNCHANGED <<running, alive, th, crashes>>
        BY <1>6 DEF OrphanEnds
    <2> QED
        BY <1>1, <2>1 DEF AgentsTyped, AgentsSound
<1> QED
    BY <1>3, <1>4, <1>5, <1>6 DEF Next, Ask, OneChange, TimeRunsOut

----------------------------------------------------------------------------
(* The daemon's invariant. *)

LEMMA InitInductive == Init => Inductive
<1> SUFFICES ASSUME Init PROVE Inductive
    OBVIOUS
<1>1. /\ tasks = [t \in {} |-> Registered(NoTask)] /\ next_id = 1
      /\ sessions = [s \in {} |-> S!Opened("Tokens", 1, 0)] /\ next_session = 1
      /\ late = {} /\ queue = <<>> /\ running = [t \in 1..LastTask |-> Nobody]
      /\ alive = {} /\ orphans = {} /\ th = [x \in Thread |-> Idle] /\ crashes = 0
    BY DEF Init
<1>2. next_id \in TaskId /\ next_session \in SessionId
    BY <1>1 DEF TaskId, SessionId, NoTask, NoSession
<1>3. Good(Idle)
    BY <1>2, IdleIsGood
<1>4. tasks \in [DOMAIN tasks -> Task] /\ DOMAIN tasks = {}
    BY <1>1
<1>5. 1..(next_session - 1) = {} /\ sessions \in [{} -> S!Session] /\ DOMAIN sessions = {}
    BY <1>1
<1>6. th \in [Thread -> FrameType]
    BY <1>1, <1>3 DEF Good
<1>7. TypeOK
    BY <1>1, <1>2, <1>4, <1>5, <1>6, BoundAssumption DEF TypeOK
<1>8. StoreSound /\ QueueSound /\ AgentsSound
    BY <1>1, <1>4 DEF StoreSound, QueueSound, AgentsSound
<1>9. HeldSound
    BY <1>1, <1>5, BoundAssumption DEF HeldSound
<1>10. \A x \in Thread : FrameSound(th[x])
    BY <1>1, <1>3 DEF Good
<1> QED
    BY <1>7, <1>8, <1>9, <1>10 DEF Inductive

LEMMA StepInductive == Inductive /\ [Next]_vars => Inductive'
<1>1. ASSUME Inductive, Next PROVE Inductive'
    <2>1. StoreOK' /\ SessionsOK'
        BY <1>1, StepStore
    <2>2. FramesOK' /\ QueueOK' /\ AgentsTyped' /\ AgentsSound'
        BY <1>1, StepFrames, StepQueue, StepAgents
    <2>3. TypeOK'
        BY <2>1, <2>2 DEF TypeOK, StoreOK, SessionsOK, FramesOK, QueueOK, AgentsTyped
    <2> QED
        BY <2>1, <2>2, <2>3 DEF Inductive, StoreOK, SessionsOK, FramesOK, QueueOK
<1>2. ASSUME Inductive, UNCHANGED vars PROVE Inductive'
    BY <1>2 DEF vars, Inductive, TypeOK, StoreSound, HeldSound, QueueSound, AgentsSound, FrameSound
<1> QED
    BY <1>1, <1>2

\* Whatever order its threads step in, which calls fail and how often it dies:
\* the daemon's stores, its queue, its agents and what each thread holds stay
\* as they should be (core/service/work.rs, core/service/supervision.rs).
THEOREM DaemonSound == Spec => []Inductive
BY InitInductive, StepInductive, PTL DEF Spec

\* Every variable keeps to its type, the frames of all threads with it
\* (core/service/work.rs:118-170).
THEOREM DaemonTyped == Spec => []TypeOK
<1>1. Inductive => TypeOK
    BY DEF Inductive
<1> QED
    BY <1>1, DaemonSound, PTL

----------------------------------------------------------------------------
(* The backlog the threads change is module Backlog's. *)

\* A change of the threads is one module Backlog allows: a session that is
\* there is one of those it may assign for.
LEMMA ChangeIsAllowed ==
    ASSUME SessionsOK, Change
    PROVE  Changes!Next \/ UNCHANGED store
<1>1. DOMAIN sessions \in SUBSET (1..LastSession)
    <2>1. DOMAIN sessions = 1..(next_session - 1) /\ next_session \in Nat
          /\ next_session <= LastSession + 1
        BY DEF SessionsOK, HeldSound, SessionId
    <2> QED
        BY <2>1, BoundAssumption
<1>2. ASSUME NEW s \in DOMAIN sessions, Starting(s) PROVE Changes!Next
    <2>1. PICK T \in SUBSET Waiting(tasks) :
             \E allowed \in [T -> Ceilings] : Changes!AssignAll(s, allowed)
        BY <1>2 DEF Starting
    <2>2. T \in SUBSET Changes!Waiting(tasks)
        BY SameChanges
    <2> QED
        BY <1>1, <2>1, <2>2 DEF Changes!Next, Ceilings
<1>3. CASE OtherChange
    <2>1. ASSUME NEW after \in DOMAIN tasks \cup {NoTask}, Changes!AddTask(after)
          PROVE  Changes!Next
        BY <2>1, SameOperators DEF Changes!Next
    <2>2. ASSUME NEW t \in DOMAIN tasks, Changes!Carry(t) \/ Changes!Ask(t)
          PROVE  Changes!Next
        BY <2>2 DEF Changes!Next
    <2>3. ASSUME NEW s \in 1..LastSession, Changes!Interrupt(s) PROVE Changes!Next
        BY <2>3 DEF Changes!Next
    <2> QED
        BY <1>3, <2>1, <2>2, <2>3 DEF OtherChange
<1> QED
    BY <1>2, <1>3 DEF Change

\* What the threads do to the backlog, whichever of them steps, is one of the
\* changes module Backlog describes, each made under one hold of its lock
\* (core/service/backlog.rs:363-366): what is proved of it is true here.
THEOREM DaemonIsStored == Spec => IsStored
<1>1. Init => Changes!Init
    BY DEF Init, Changes!Init, Changes!Registered, Registered, Changes!NoTask, NoTask,
           Changes!NoSession, NoSession, Changes!NoCeiling, NoCeiling, Changes!NotYet, NotYet
<1>2. Inductive /\ [Next]_vars => [Changes!Next]_Changes!vars
    <2>1. ASSUME Inductive, Next PROVE Changes!Next \/ UNCHANGED store
        <3>1. SessionsOK
            BY <2>1 DEF Inductive, TypeOK, SessionsOK
        <3> QED
            BY <2>1, <3>1, StepChanges, ChangeIsAllowed
    <2> QED
        BY <2>1 DEF vars, store, Changes!vars
<1> QED
    BY <1>1, <1>2, DaemonSound, PTL DEF Spec, IsStored, Changes!Spec

----------------------------------------------------------------------------
(* Runs are added only by a decision, and within the session's means. *)

\* What runs ran before, for the same session.
StillRuns(t) ==
    tasks'[t].state = "Running" =>
        /\ t \in DOMAIN tasks /\ tasks[t].state = "Running"
        /\ tasks'[t].session = tasks[t].session
NothingStarted == \A t \in DOMAIN tasks' : StillRuns(t)

LEMMA OneNotStarted ==
    ASSUME tasks \in [DOMAIN tasks -> Task], NEW t \in DOMAIN tasks, NEW new,
           new.state = "Running" => tasks[t].state = "Running",
           new.session = tasks[t].session,
           tasks' = [tasks EXCEPT ![t] = new]
    PROVE  NothingStarted
<1>1. DOMAIN tasks' = DOMAIN tasks /\ tasks'[t] = new
      /\ \A u \in DOMAIN tasks : u # t => tasks'[u] = tasks[u]
    OBVIOUS
<1> QED
    BY <1>1 DEF NothingStarted, StillRuns

LEMMA CarryStartsNothing ==
    ASSUME tasks \in [DOMAIN tasks -> Task], NEW t \in DOMAIN tasks, Changes!Carry(t)
    PROVE  NothingStarted
<1> DEFINE k == tasks[t]
<1>1. k \in Task
    OBVIOUS
<1>2. CASE Changes!WorkArea(t)
    <2> DEFINE new == [k EXCEPT !.worktree = TRUE]
    <2>1. tasks' = [tasks EXCEPT ![t] = new]
        BY <1>2 DEF Changes!WorkArea
    <2>2. new.state = k.state /\ new.session = k.session
        BY <1>1 DEF Task
    <2> HIDE DEF new
    <2> QED
        BY <2>1, <2>2, OneNotStarted
<1>3. ASSUME NEW end \in Ended, NEW consumed, NEW talked,
             Changes!RunEnded(t, end, consumed, talked)
      PROVE  NothingStarted
    <2> DEFINE done == Finished(k, end)
               new == [done EXCEPT !.consumed = consumed, !.conversation = talked]
    <2>1. tasks' = [tasks EXCEPT ![t] = new]
        BY <1>3, SameOperators DEF Changes!RunEnded
    <2>2. done \in Task /\ done.session = k.session /\ done.state # "Running"
        BY <1>1, FinishedTask
    <2> HIDE DEF done
    <2>3. new.state = done.state /\ new.session = done.session
        BY <2>2 DEF Task
    <2> HIDE DEF new
    <2> QED
        BY <2>1, <2>2, <2>3, OneNotStarted
<1>4. ASSUME NEW consumed, Changes!RunTurnedAway(t, consumed)
      PROVE  NothingStarted
    <2> DEFINE back == TurnedAway(k)
               new == [back EXCEPT !.consumed = consumed]
    <2>1. tasks' = [tasks EXCEPT ![t] = new]
        BY <1>4, SameOperators DEF Changes!RunTurnedAway
    <2>2. back \in Task /\ back.session = k.session /\ back.state = "Pending"
        BY <1>1, TurnedAwayTask
    <2> HIDE DEF back
    <2>3. new.state = back.state /\ new.session = back.session
        BY <2>2 DEF Task
    <2> HIDE DEF new
    <2> QED
        BY <2>1, <2>2, <2>3, OneNotStarted
<1> QED
    BY <1>2, <1>3, <1>4, SameOperators DEF Changes!Carry

LEMMA AskStartsNothing ==
    ASSUME tasks \in [DOMAIN tasks -> Task], NEW t \in DOMAIN tasks, Changes!Ask(t)
    PROVE  NothingStarted
<1> DEFINE k == tasks[t]
<1>1. k \in Task
    OBVIOUS
<1>2. CASE Changes!RemoveTask(t)
    <2>1. tasks' = Remove(tasks, t)
        BY <1>2, SameChanges DEF Changes!RemoveTask
    <2>2. DOMAIN tasks' = DOMAIN tasks \ {t}
        BY <2>1 DEF Remove
    <2>3. ASSUME NEW u \in DOMAIN tasks' PROVE StillRuns(u)
        <3>1. u \in DOMAIN tasks /\ tasks[u] \in Task
            BY <2>2
        <3>2. tasks'[u] = IF tasks[u].after = t THEN [tasks[u] EXCEPT !.after = k.after]
                                                ELSE tasks[u]
            BY <2>1, <2>2 DEF Remove
        <3>3. tasks'[u].state = tasks[u].state /\ tasks'[u].session = tasks[u].session
            BY <3>1, <3>2 DEF Task
        <3> QED
            BY <3>1, <3>3 DEF StillRuns
    <2> QED
        BY <2>3 DEF NothingStarted
<1>3. ASSUME NEW what \in Disposition, Changes!Dispose(t, what)
      PROVE  NothingStarted
    <2> DEFINE new == Disposed(k, what)
    <2>1. tasks' = [tasks EXCEPT ![t] = new]
        BY <1>3, SameOperators DEF Changes!Dispose
    <2>2. new.session = k.session /\ new.state = k.state
        BY <1>1, DisposedTask
    <2> HIDE DEF new
    <2> QED
        BY <2>1, <2>2, OneNotStarted
<1>4. ASSUME NEW keeping \in BOOLEAN, Changes!WaitAgain(t, keeping)
      PROVE  NothingStarted
    <2> DEFINE new == WaitsAgain(k, keeping)
    <2>1. tasks' = [tasks EXCEPT ![t] = new]
        BY <1>4, SameOperators DEF Changes!WaitAgain
    <2>2. new.session = k.session /\ new.state = "Pending"
        BY <1>1, WaitsAgainTask
    <2> HIDE DEF new
    <2> QED
        BY <2>1, <2>2, OneNotStarted
<1> QED
    BY <1>2, <1>3, <1>4, SameOperators DEF Changes!Ask

LEMMA NothingElseStarts ==
    ASSUME tasks \in [DOMAIN tasks -> Task], DOMAIN tasks \in SUBSET Nat,
           OtherChange \/ UNCHANGED store
    PROVE  NothingStarted
<1>1. ASSUME NEW after \in DOMAIN tasks \cup {NoTask}, Changes!AddTask(after)
      PROVE  NothingStarted
    <2>1. tasks' = Add(tasks, next_id, after)
        BY <1>1, SameChanges DEF Changes!AddTask
    <2>2. DOMAIN tasks' = DOMAIN tasks \cup {next_id}
          /\ \A t \in DOMAIN tasks' :
                tasks'[t] = IF t = next_id THEN Registered(after) ELSE tasks[t]
        BY <2>1 DEF Add
    <2>3. Registered(after).state = "Pending"
        BY DEF Registered
    <2>4. ASSUME NEW t \in DOMAIN tasks' PROVE StillRuns(t)
        BY <2>2, <2>3 DEF StillRuns
    <2> QED
        BY <2>4 DEF NothingStarted
<1>2. ASSUME NEW s, Changes!Interrupt(s) PROVE NothingStarted
    <2>1. tasks' = InterruptAll(tasks, s) /\ DOMAIN tasks' = DOMAIN tasks
        BY <1>2, SameChanges DEF Changes!Interrupt, InterruptAll
    <2>2. ASSUME NEW t \in DOMAIN tasks' PROVE StillRuns(t)
        <3>1. tasks[t] \in Task
            BY <2>1
        <3>2. tasks'[t] = IF tasks[t].session = s /\ tasks[t].state = "Running"
                          THEN [tasks[t] EXCEPT !.state = "Interrupted"] ELSE tasks[t]
            BY <2>1 DEF InterruptAll
        <3>3. [tasks[t] EXCEPT !.state = "Interrupted"].state # "Running"
            BY <3>1 DEF Task
        <3> QED
            BY <2>1, <3>2, <3>3 DEF StillRuns
    <2> QED
        BY <2>2 DEF NothingStarted
<1>3. CASE UNCHANGED store
    BY <1>3 DEF store, NothingStarted, StillRuns
<1>4. ASSUME NEW t \in DOMAIN tasks, Changes!Carry(t) \/ Changes!Ask(t) PROVE NothingStarted
    BY <1>4, CarryStartsNothing, AskStartsNothing
<1> QED
    BY <1>1, <1>2, <1>3, <1>4 DEF OtherChange

\* The runs of each session after a decision.
LEMMA DecisionRuns ==
    ASSUME Inductive, NEW x \in Thread, DecideNow(x)
    PROVE  \E cost \in Costs :
              LET s == th[x].session
                  chosen == Choice(x, cost)
              IN  /\ Decided(x, Decision(x, cost), chosen)
                  /\ s \in DOMAIN sessions /\ DOMAIN tasks' = DOMAIN tasks
                  /\ RunningIn(tasks', s) = RunningIn(tasks, s) \cup DOMAIN chosen
                  /\ RunningIn(tasks, s) \cap DOMAIN chosen = {}
                  /\ \A r : r # s => RunningIn(tasks', r) = RunningIn(tasks, r)
                  /\ \A t \in DOMAIN tasks : t \notin DOMAIN chosen => tasks'[t] = tasks[t]
                  /\ \A t \in DOMAIN chosen : tasks'[t].ceiling = chosen[t]
                                              /\ tasks'[t].state = "Running"
                                              /\ tasks'[t].session = s
                                              /\ tasks[t].state = "Pending"
<1> DEFINE s == th[x].session
<1>1. PICK cost \in Costs : Decided(x, Decision(x, cost), Choice(x, cost))
    BY DecideNowIs
<1> DEFINE chosen == Choice(x, cost)
<1>2. s \in DOMAIN sessions /\ s \in Nat
    BY DecideNowIs, FrameParts
<1>3. DOMAIN chosen \in SUBSET Waiting(tasks) /\ \A t \in DOMAIN chosen : chosen[t] \in Nat
    BY <1>2, ChoiceStarts
<1>4. tasks' = [t \in DOMAIN tasks |->
                   IF t \in DOMAIN chosen THEN Assigned(tasks[t], s, chosen[t]) ELSE tasks[t]]
    BY <1>1 DEF Decided
<1> HIDE DEF chosen, s
<1>5. \A t \in DOMAIN chosen : t \in DOMAIN tasks /\ tasks[t].state = "Pending"
    BY <1>3 DEF Waiting, Pending
<1>6. ASSUME NEW t \in DOMAIN chosen
      PROVE  /\ tasks'[t].ceiling = chosen[t] /\ tasks'[t].state = "Running"
             /\ tasks'[t].session = s
    <2> DEFINE k == tasks[t]
               c == chosen[t]
    <2>1. k \in Task /\ c \in Nat /\ s \in Nat
        BY <1>2, <1>3, <1>5 DEF Inductive, TypeOK
    <2>2. tasks'[t] = Assigned(k, s, c)
        BY <1>4, <1>5
    <2> HIDE DEF k, c
    <2>3. /\ Assigned(k, s, c).ceiling = c /\ Assigned(k, s, c).state = "Running"
          /\ Assigned(k, s, c).session = s
        BY <2>1, AssignedTask
    <2> QED
        BY <2>2, <2>3 DEF c
<1>7. DOMAIN tasks' = DOMAIN tasks
      /\ \A t \in DOMAIN tasks : t \notin DOMAIN chosen => tasks'[t] = tasks[t]
    BY <1>4
<1>8. RunningIn(tasks', s) = RunningIn(tasks, s) \cup DOMAIN chosen
    <2>1. ASSUME NEW t \in RunningIn(tasks, s) PROVE t \in DOMAIN tasks /\ t \notin DOMAIN chosen
        BY <1>5 DEF RunningIn, TakenBy
    <2> QED
        BY <1>5, <1>6, <1>7, <2>1 DEF RunningIn, TakenBy
<1>9. RunningIn(tasks, s) \cap DOMAIN chosen = {}
    BY <1>5 DEF RunningIn, TakenBy
<1>10. ASSUME NEW r, r # s PROVE RunningIn(tasks', r) = RunningIn(tasks, r)
    BY <1>5, <1>6, <1>7, <1>10 DEF RunningIn, TakenBy
<1> QED
    BY <1>1, <1>2, <1>5, <1>6, <1>7, <1>8, <1>9, <1>10 DEF chosen, s

WithinMeans ==
    \A s \in DOMAIN sessions :
        RunningIn(tasks', s) \ RunningIn(tasks, s) # {} =>
            /\ Cardinality(RunningIn(tasks', s)) <= AtOnce
            /\ Counted(tasks, s) + Booked(tasks', s) <= sessions[s].declared

LEMMA DecisionWithinMeans ==
    ASSUME Inductive, NEW x \in Thread, DecideNow(x)
    PROVE  WithinMeans
<1> DEFINE s == th[x].session
           R == RunningIn(tasks, s)
<1>1. PICK cost \in Costs :
          /\ s \in DOMAIN sessions /\ DOMAIN tasks' = DOMAIN tasks
          /\ RunningIn(tasks', s) = R \cup DOMAIN Choice(x, cost)
          /\ R \cap DOMAIN Choice(x, cost) = {}
          /\ \A r : r # s => RunningIn(tasks', r) = RunningIn(tasks, r)
          /\ \A t \in DOMAIN tasks : t \notin DOMAIN Choice(x, cost) => tasks'[t] = tasks[t]
          /\ \A t \in DOMAIN Choice(x, cost) : tasks'[t].ceiling = Choice(x, cost)[t]
    BY DecisionRuns
<1> DEFINE chosen == Choice(x, cost)
           C == DOMAIN chosen
<1>2. /\ C \in SUBSET Waiting(tasks)
      /\ \A t \in C : chosen[t] \in Nat
      /\ C # {} => /\ Cardinality(R) + Cardinality(C) <= AtOnce
                   /\ Counted(tasks, s) + Booked(tasks, s) + SumOver(chosen, C)
                          <= sessions[s].declared
    BY <1>1, ChoiceStarts
<1>3. /\ C \in SUBSET DOMAIN tasks /\ R \in SUBSET DOMAIN tasks
      /\ IsFiniteSet(C) /\ IsFiniteSet(R) /\ Cardinality(R) \in Nat /\ Cardinality(C) \in Nat
    BY <1>2, TasksCount, PartsOfTasks DEF Inductive
<1>4. \A t \in DOMAIN tasks : tasks[t].ceiling \in Nat
    BY DEF Inductive, TypeOK, Task
<1>5. /\ RunningIn(tasks', s) = R \cup C /\ R \cap C = {} /\ DOMAIN tasks' = DOMAIN tasks
      /\ \A t \in DOMAIN tasks : t \notin C => tasks'[t] = tasks[t]
      /\ \A t \in C : tasks'[t].ceiling = chosen[t]
    BY <1>1
<1> HIDE DEF C, R, chosen
<1>6. Cardinality(R \cup C) = Cardinality(R) + Cardinality(C)
    <2>1. Cardinality(R \cap C) = 0
        BY <1>5, FS_EmptySet
    <2>2. Cardinality(R \cup C) = Cardinality(R) + Cardinality(C) - Cardinality(R \cap C)
        BY <1>3, FS_Union
    <2> QED
        BY <1>3, <2>1, <2>2
<1>7. Booked(tasks', s) = Booked(tasks, s) + SumOver(chosen, C)
    <2> DEFINE now == [t \in DOMAIN tasks |-> tasks'[t].ceiling]
               was == [t \in DOMAIN tasks |-> tasks[t].ceiling]
    <2>1. Booked(tasks', s) = SumOver(now, R \cup C) /\ Booked(tasks, s) = SumOver(was, R)
        BY <1>5 DEF Booked, R
    <2>2. \A t \in R : was[t] \in Nat /\ was[t] = now[t]
        BY <1>3, <1>4, <1>5
    <2>3. \A t \in C : chosen[t] \in Nat /\ chosen[t] = now[t]
        BY <1>2, <1>3, <1>5
    <2> HIDE DEF now, was
    <2>4. SumOver(was, R) = SumOver(now, R)
        BY <1>3, <2>2, SumIsNumber
    <2>5. SumOver(chosen, C) = SumOver(now, C)
        BY <1>3, <2>3, SumIsNumber
    <2>6. \A t \in R \cup C : now[t] \in Nat
        BY <2>2, <2>3
    <2>7. SumOver(now, R \cup C) = SumOver(now, R) + SumOver(now, C)
        BY <1>3, <1>5, <2>6, SumOfBoth
    <2> QED
        BY <2>1, <2>4, <2>5, <2>7
<1>8. Counted(tasks, s) \in Nat /\ Booked(tasks, s) \in Nat /\ SumOver(chosen, C) \in Nat
    BY <1>2, <1>3, SumsOfTasks, SumIsNumber DEF Inductive
<1>9. ASSUME NEW r \in DOMAIN sessions, RunningIn(tasks', r) \ RunningIn(tasks, r) # {}
      PROVE  /\ Cardinality(RunningIn(tasks', r)) <= AtOnce
             /\ Counted(tasks, r) + Booked(tasks', r) <= sessions[r].declared
    <2>1. r = s
        BY <1>1, <1>9
    <2>2. C # {}
        BY <1>5, <1>9, <2>1 DEF R
    <2>3. Cardinality(RunningIn(tasks', s)) <= AtOnce
        BY <1>2, <1>5, <1>6, <2>2
    <2>4. Counted(tasks, s) + Booked(tasks', s) <= sessions[s].declared
        BY <1>2, <1>7, <1>8, <2>2
    <2> QED
        BY <2>1, <2>3, <2>4
<1> QED
    BY <1>9 DEF WithinMeans

\* However many threads decide and whatever the ledger says: when a run is
\* added, its session has no more runs than the machine has hands for and has
\* the means for all of them (core/service/supervision.rs:149-152, 213-216).
THEOREM DaemonAddsWithinMeans == Spec => AddsWithinMeans
<1>1. ASSUME Inductive, Next PROVE WithinMeans
    <2>1. tasks \in [DOMAIN tasks -> Task] /\ DOMAIN tasks \in SUBSET Nat
        BY <1>1 DEF Inductive, TypeOK
    <2>2. CASE OtherChange \/ UNCHANGED store
        <3>1. NothingStarted
            BY <2>1, <2>2, NothingElseStarts
        <3>2. \A s : RunningIn(tasks', s) \ RunningIn(tasks, s) = {}
            BY <3>1 DEF NothingStarted, StillRuns, RunningIn, TakenBy
        <3> QED
            BY <3>2 DEF WithinMeans
    <2> QED
        BY <1>1, <2>2, StepStarts, DecisionWithinMeans
<1>2. Inductive /\ [Next]_vars =>
        [\A s \in DOMAIN sessions :
            RunningIn(tasks', s) \ RunningIn(tasks, s) # {} =>
                /\ Cardinality(RunningIn(tasks', s)) <= AtOnce
                /\ Counted(tasks, s) + Booked(tasks', s) <= sessions[s].declared]_vars
    BY <1>1 DEF WithinMeans
<1> QED
    BY <1>2, DaemonSound, PTL DEF Spec, AddsWithinMeans

----------------------------------------------------------------------------
(* What a thread may do next. *)

\* Where a thread is says which step is its next.
LEMMA NextStep ==
    ASSUME NEW x \in Thread, Does(x)
    PROVE  /\ th[x].at = "read" => ReadTask(x) \/ StoreFails(x)
           /\ th[x].at \in {"prepare", "note", "spawn", "register"} =>
                 \/ Prepare(x) \/ NoteArea(x) \/ Spawn(x) \/ Register(x)
                 \/ TraceFails(x) \/ StoreFails(x)
           /\ th[x].at = "wait" => KilledReturns(x) \/ AgentEnds(x)
           /\ th[x].at = "end" => EndTask(x) \/ StoreFails(x)
           /\ th[x].at = "turn" => TurnAway(x) \/ StoreFails(x)
           /\ th[x].at = "held" => SettleRead(x) \/ StoreFails(x)
           /\ th[x].at = "decide" => DecideNow(x) \/ StoreFails(x)
           /\ th[x].at = "record" => Record(x)
           /\ th[x].at = "enqueue" => Enqueue(x)
           /\ th[x].at = "stopread" => StopRead(x) \/ StoreFails(x)
           /\ th[x].at = "kill" => Kill(x) \/ StopSession(x) \/ StoreFails(x)
<1>1. /\ Take(x) => th[x].at = "idle"
      /\ ReadTask(x) => th[x].at = "read"
      /\ Prepare(x) => th[x].at = "prepare"
      /\ NoteArea(x) => th[x].at = "note"
      /\ Spawn(x) => th[x].at = "spawn"
      /\ Register(x) => th[x].at = "register"
      /\ KilledReturns(x) => th[x].at = "wait"
      /\ AgentEnds(x) => th[x].at = "wait"
      /\ EndTask(x) => th[x].at = "end"
      /\ TurnAway(x) => th[x].at = "turn"
      /\ TraceFails(x) => th[x].at = "spawn"
    BY DEF Take, ReadTask, Prepare, NoteArea, Spawn, Register, KilledReturns, AgentEnds,
           EndTask, TurnAway, TraceFails, Frame
<1>2. /\ SettleRead(x) => th[x].at = "held"
      /\ DecideNow(x) => th[x].at = "decide"
      /\ Record(x) => th[x].at = "record"
      /\ Enqueue(x) => th[x].at = "enqueue"
      /\ StopRead(x) => th[x].at = "stopread"
      /\ Kill(x) => th[x].at = "kill"
      /\ StopSession(x) => th[x].at = "kill"
      /\ InterruptTasks(x) => th[x].at = "interrupt"
    BY DEF SettleRead, DecideNow, Record, Enqueue, StopRead, Kill, StopSession,
           InterruptTasks, Frame
<1>3. /\ AskRun(x) => th[x].at = "idle"
      /\ AskInterrupt(x) => th[x].at = "idle"
      /\ Open(x) => th[x].at = "open"
      /\ x = Clock /\ ClockLooks => th[x].at = "idle"
      /\ x = Clock /\ ClockReads => th[x].at = "clock"
      /\ StoreFails(x) => th[x].at \notin {"wait", "record", "enqueue"}
    BY DEF AskRun, AskInterrupt, Open, ClockLooks, ClockReads, StoreFails, Frame
<1>4. CASE Carrying(x)
    BY <1>1, <1>4 DEF Carrying
<1>5. CASE Settling(x)
    BY <1>2, <1>5 DEF Settling
<1>6. CASE Stopping(x)
    BY <1>2, <1>6 DEF Stopping
<1>7. CASE StoreFails(x)
    BY <1>3, <1>7
<1>8. CASE \/ AskRun(x) \/ AskInterrupt(x) \/ Open(x)
           \/ x = Clock /\ (ClockLooks \/ ClockReads)
    BY <1>3, <1>8
<1> QED
    BY <1>4, <1>5, <1>6, <1>7, <1>8 DEF Does

----------------------------------------------------------------------------
(* No task is lost. *)

Listed(f, t) == f.at \in {"record", "enqueue"} /\ \E i \in DOMAIN f.todo : f.todo[i] = t
Held(f, t) == f.task = t /\ f.at \in InHands
Answers(x, f, t) == Listed(f, t) \/ (x \in Workers /\ Held(f, t))
Queued(t) == \E i \in DOMAIN queue : queue[i] = t

LEMMA LostIs ==
    NothingLost <=> \A t \in DOMAIN tasks :
                       tasks[t].state = "Running" =>
                           Queued(t) \/ \E x \in Thread : Answers(x, th[x], t)
<1>1. ASSUME NEW t, AboutToQueue(t) \/ InHand(t)
      PROVE  \E x \in Thread : Answers(x, th[x], t)
    <2>1. CASE AboutToQueue(t)
        <3>1. PICK x \in Thread : Listed(th[x], t)
            BY <2>1 DEF AboutToQueue, Listed
        <3> QED
            BY <3>1 DEF Answers
    <2>2. CASE InHand(t)
        <3>1. PICK x \in Workers : Held(th[x], t)
            BY <2>2 DEF InHand, Held
        <3> QED
            BY <3>1 DEF Answers, Thread
    <2> QED
        BY <1>1, <2>1, <2>2
<1>2. ASSUME NEW t, NEW x \in Thread, Answers(x, th[x], t)
      PROVE  AboutToQueue(t) \/ InHand(t)
    BY <1>2 DEF AboutToQueue, InHand, Answers, Listed, Held
<1> QED
    BY <1>1, <1>2 DEF NothingLost, Queued

\* A task at the head of the queue goes into the hands of who took it.
LEMMA TakeAnswers ==
    ASSUME Inductive, NEW x \in Workers, Take(x), NEW t, Queued(t)
    PROVE  Queued(t)' \/ Answers(x, th'[x], t)
<1>1. /\ th[x].at = "idle" /\ queue # <<>> /\ queue' = Tail(queue)
      /\ th' = [th EXCEPT ![x] = [Idle EXCEPT !.at = "read", !.task = Head(queue)]]
    BY DEF Take, Goes, Frame
<1>2. queue \in Seq(1..LastTask) /\ x \in Thread /\ \A i \in DOMAIN queue : queue[i] < next_id
    BY DEF Inductive, TypeOK, QueueSound, Thread
<1>3. t = Head(queue) \/ \E i \in DOMAIN Tail(queue) : Tail(queue)[i] = t
    BY <1>1, <1>2, TailOf DEF Queued, Inductive, TypeOK, TaskId
<1>4. th'[x].at = "read" /\ th'[x].task = Head(queue)
    BY <1>1, <1>2 DEF Inductive, TypeOK, Idle
<1> QED
    BY <1>1, <1>3, <1>4 DEF Queued, Answers, Held, InHands

\* A thread that lists a task queues it, or goes on listing it.
LEMMA ListedIsQueued ==
    ASSUME Inductive, NEW x \in Thread, Does(x), NEW t, Listed(th[x], t)
    PROVE  Queued(t)' \/ Listed(th'[x], t)
<1>1. PICK i \in DOMAIN th[x].todo : th[x].todo[i] = t
    BY DEF Listed
<1>2. /\ th[x].todo \in Seq(1..LastTask) /\ th[x].todo # <<>> /\ next_id \in Nat
      /\ \A j \in DOMAIN th[x].todo : th[x].todo[j] < next_id
      /\ th[x] \in FrameType /\ th \in [Thread -> FrameType]
    BY <1>1, FrameParts DEF FrameSound, Inductive, TypeOK
<1>3. CASE th[x].at = "record"
    <2>1. Record(x) /\ th[x].why = S!NoReason
        BY <1>2, <1>3, NextStep, FrameParts DEF FrameSound
    <2>2. th' = [th EXCEPT ![x] = At(x, "enqueue")]
        BY <1>2, <2>1 DEF Record, AfterRecord, Frame, Goes
    <2>3. th'[x].at = "enqueue" /\ th'[x].todo = th[x].todo
        BY <1>2, <2>2 DEF At, FrameType
    <2> QED
        BY <1>1, <2>3 DEF Listed
<1>4. CASE th[x].at = "enqueue"
    <2> DEFINE rest == Tail(th[x].todo)
    <2>1. /\ queue' = Append(queue, Head(th[x].todo))
          /\ IF rest = <<>> THEN Rests(x) ELSE Goes(x, [th[x] EXCEPT !.todo = rest])
        BY <1>4, NextStep DEF Enqueue, Frame
    <2>2. t = Head(th[x].todo) \/ \E j \in DOMAIN rest : rest[j] = t
        BY <1>1, <1>2, TailOf
    <2>3. CASE t = Head(th[x].todo)
        <3>1. queue \in Seq(1..LastTask) /\ Len(queue) \in Nat
            BY DEF Inductive, TypeOK
        <3>2. Len(queue) + 1 \in DOMAIN queue' /\ queue'[Len(queue) + 1] = t
            BY <2>1, <2>3, <3>1
        <3> QED
            BY <3>2 DEF Queued
    <2>4. CASE \E j \in DOMAIN rest : rest[j] = t
        <3>1. rest # <<>>
            BY <2>4
        <3>2. th' = [th EXCEPT ![x] = [th[x] EXCEPT !.todo = rest]]
            BY <2>1, <3>1 DEF Goes
        <3> HIDE DEF rest
        <3>3. th'[x].at = "enqueue" /\ th'[x].todo = rest
            BY <1>2, <1>4, <3>2 DEF FrameType
        <3> QED
            BY <2>4, <3>3 DEF Listed
    <2> QED
        BY <2>2, <2>3, <2>4
<1> QED
    BY <1>3, <1>4 DEF Listed

NoneFails(calls) == Failing \cap calls = {}

\* A worker has a task in its hands until it is not running any longer.
LEMMA HeldIsAnswered ==
    ASSUME Inductive, NEW x \in Thread, Does(x), NoneFails({"store", "trace"}),
           NEW t \in DOMAIN tasks', tasks'[t].state = "Running",
           StillRuns(t), Held(th[x], t)
    PROVE  Held(th'[x], t)
<1>1. /\ th[x].task = t /\ t \in DOMAIN tasks /\ tasks[t].state = "Running"
      /\ th[x].at \in InHands
      /\ th[x] \in FrameType /\ th \in [Thread -> FrameType] /\ tasks[t] \in Task
    BY FrameParts DEF Held, StillRuns, Inductive, TypeOK
<1>2. ~ StoreFails(x) /\ ~ TraceFails(x)
    BY DEF StoreFails, TraceFails, Fails, NoneFails
<1>3. ASSUME NEW label \in InHands, Goes(x, At(x, label)) PROVE Held(th'[x], t)
    <2>1. th'[x].at = label /\ th'[x].task = th[x].task
        BY <1>1, <1>3 DEF Goes, At, FrameType
    <2> QED
        BY <1>1, <2>1 DEF Held
<1>4. ASSUME NothingRan(x) PROVE Held(th'[x], t)
    <2>1. th'[x].at = "end" /\ th'[x].task = th[x].task
        BY <1>1, <1>4 DEF NothingRan, Goes, Frame, FrameType
    <2> QED
        BY <1>1, <2>1 DEF Held, InHands
<1>5. CASE th[x].at = "read"
    <2>1. th' = [th EXCEPT ![x] = [th[x] EXCEPT !.at = "prepare",
                                                !.attempt = tasks[t].attempts]]
        BY <1>1, <1>2, <1>5, NextStep DEF ReadTask, Frame, Goes
    <2>2. th'[x].at = "prepare" /\ th'[x].task = th[x].task
        BY <1>1, <2>1 DEF FrameType
    <2> QED
        BY <1>1, <2>2 DEF Held, InHands
<1>6. CASE th[x].at \in {"prepare", "note", "spawn", "register"}
    <2>1. \/ \E label \in InHands : Goes(x, At(x, label))
          \/ NothingRan(x)
        BY <1>2, <1>6, NextStep DEF Prepare, NoteArea, Spawn, Register, InHands
    <2> QED
        BY <1>3, <1>4, <2>1
<1>7. CASE th[x].at = "wait"
    <2>1. Outcome(x)
        BY <1>7, NextStep DEF KilledReturns, AgentEnds
    <2>2. ASSUME NEW end, NEW consumed, NEW talked, CameTo(x, end, consumed, talked)
          PROVE  th'[x].at = "end" /\ th'[x].task = th[x].task
        BY <1>1, <2>2 DEF CameTo, Goes, Frame, FrameType
    <2>3. ASSUME NEW consumed, Goes(x, [Frame(x) EXCEPT !.at = "turn", !.consumed = consumed])
          PROVE  th'[x].at = "turn" /\ th'[x].task = th[x].task
        BY <1>1, <2>3 DEF Goes, Frame, FrameType
    <2>4. th'[x].at \in {"end", "turn"} /\ th'[x].task = th[x].task
        BY <2>1, <2>2, <2>3 DEF Outcome
    <2> QED
        BY <1>1, <2>4 DEF Held, InHands
<1>8. CASE th[x].at = "end"
    <2> DEFINE k == tasks[t]
               end == th[x].end
               done == Finished(k, end)
               new == [done EXCEPT !.consumed = th[x].consumed,
                                   !.conversation = th[x].talked]
    <2>1. tasks' = [tasks EXCEPT ![t] = new]
        BY <1>1, <1>2, <1>8, NextStep DEF EndTask, Frame
    <2>2. k \in Task /\ end \in Ended
        BY <1>1, FrameParts
    <2>3. done \in Task /\ done.state # "Running"
        BY <2>2, FinishedTask
    <2> HIDE DEF done
    <2>4. new.state # "Running"
        BY <2>3 DEF Task
    <2> HIDE DEF new
    <2> QED
        BY <1>1, <2>1, <2>4
<1>9. CASE th[x].at = "turn"
    <2> DEFINE k == tasks[t]
               back == TurnedAway(k)
               new == [back EXCEPT !.consumed = th[x].consumed]
    <2>1. tasks' = [tasks EXCEPT ![t] = new]
        BY <1>1, <1>2, <1>9, NextStep DEF TurnAway, Frame
    <2>2. k \in Task
        BY <1>1
    <2>3. back \in Task /\ back.state = "Pending"
        BY <2>2, TurnedAwayTask
    <2> HIDE DEF back
    <2>4. new.state # "Running"
        BY <2>3 DEF Task
    <2> HIDE DEF new
    <2> QED
        BY <1>1, <2>1, <2>4
<1> QED
    BY <1>1, <1>5, <1>6, <1>7, <1>8, <1>9 DEF InHands

\* What a decision starts it goes on to queue.
LEMMA DecisionLists ==
    ASSUME Inductive, NEW x \in Thread, DecideNow(x),
           NEW t \in DOMAIN tasks', tasks'[t].state = "Running", ~ StillRuns(t)
    PROVE  Listed(th'[x], t)
<1> DEFINE s == th[x].session
<1>1. PICK cost \in Costs :
          /\ Decided(x, Decision(x, cost), Choice(x, cost))
          /\ s \in DOMAIN sessions /\ DOMAIN tasks' = DOMAIN tasks
          /\ \A u \in DOMAIN tasks : u \notin DOMAIN Choice(x, cost) => tasks'[u] = tasks[u]
    BY DecisionRuns
<1> DEFINE starts == DOMAIN Choice(x, cost)
           kind == Decision(x, cost).kind
           why == IF kind = "stop" THEN Decision(x, cost).why ELSE S!NoReason
           spent == Counted(tasks, s)
           todo == InOrder(starts)
           f == [At(x, "record") EXCEPT !.spent = spent, !.why = why, !.todo = todo]
<1>2. th' = [th EXCEPT ![x] = f]
    BY <1>1 DEF Decided, Goes
<1>3. t \in starts
    BY <1>1 DEF StillRuns
<1>4. starts \in SUBSET Waiting(tasks)
    BY <1>1, ChoiceStarts
<1> HIDE DEF kind, why, spent, starts
<1>5. starts \in SUBSET Nat /\ IsFiniteSet(starts)
    BY <1>4, PartsOfTasks, TasksCount DEF Inductive
<1>6. \E i \in DOMAIN todo : todo[i] = t
    BY <1>3, <1>5, InOrderOrders DEF Orders
<1> HIDE DEF todo
<1>7. th'[x].at = "record" /\ th'[x].todo = todo
    BY <1>2, FrameParts DEF At, FrameType, Inductive, TypeOK
<1> QED
    BY <1>6, <1>7 DEF Listed

LEMMA StepNothingLost ==
    ASSUME NoneFails({"store", "trace"}), MostCrashes = 0, Inductive, NothingLost, Next
    PROVE  NothingLost'
<1>1. ASSUME NEW t \in DOMAIN tasks', tasks'[t].state = "Running", StillRuns(t),
             NEW x \in Thread, Does(x)
      PROVE  Queued(t)' \/ \E y \in Thread : Answers(y, th'[y], t)
    <2>1. Moves(x) /\ queue \in Seq(1..LastTask)
        BY <1>1, DoesMoves DEF Inductive, TypeOK
    <2>2. CASE Queued(t)
        <3>1. CASE UNCHANGED queue
            BY <2>2, <3>1 DEF Queued
        <3>2. CASE x \in Workers /\ Take(x)
            BY <2>2, <3>2, TakeAnswers DEF Thread
        <3>3. CASE Enqueue(x)
            <4>1. queue' = Append(queue, Head(th[x].todo))
                BY <3>3 DEF Enqueue, Frame
            <4>2. PICK i \in DOMAIN queue : queue[i] = t
                BY <2>2 DEF Queued
            <4>3. i \in DOMAIN queue' /\ queue'[i] = queue[i]
                BY <2>1, <4>1
            <4> QED
                BY <4>2, <4>3 DEF Queued
        <3> QED
            BY <1>1, <3>1, <3>2, <3>3, QueueSteps
    <2>3. ASSUME NEW y \in Thread, Answers(y, th[y], t)
          PROVE  Queued(t)' \/ Answers(y, th'[y], t)
        <3>1. CASE y # x
            BY <2>1, <2>3, <3>1, OthersStand
        <3>2. CASE y = x /\ Listed(th[x], t)
            BY <1>1, <3>2, ListedIsQueued DEF Answers
        <3>3. CASE y = x /\ x \in Workers /\ Held(th[x], t)
            BY <1>1, <3>3, HeldIsAnswered DEF Answers
        <3> QED
            BY <2>3, <3>1, <3>2, <3>3 DEF Answers
    <2>4. Queued(t) \/ \E y \in Thread : Answers(y, th[y], t)
        BY <1>1, LostIs DEF StillRuns
    <2> QED
        BY <2>2, <2>3, <2>4
<1>2. ASSUME NEW t \in DOMAIN tasks', tasks'[t].state = "Running", ~ StillRuns(t)
      PROVE  \E y \in Thread : Answers(y, th'[y], t)
    <2>1. tasks \in [DOMAIN tasks -> Task] /\ DOMAIN tasks \in SUBSET Nat
        BY DEF Inductive, TypeOK
    <2>2. PICK y \in Thread : DecideNow(y)
        BY <1>2, <2>1, StepStarts, NothingElseStarts DEF NothingStarted
    <2>3. Listed(th'[y], t)
        BY <1>2, <2>2, DecisionLists
    <2> QED
        BY <2>3 DEF Answers
<1>3. ASSUME NEW t \in DOMAIN tasks', tasks'[t].state = "Running"
      PROVE  Queued(t)' \/ \E y \in Thread : Answers(y, th'[y], t)
    <2>1. CASE Threads
        BY <1>1, <1>2, <1>3, <2>1, ThreadsDo
    <2>2. CASE UNCHANGED <<queue, th>>
        <3>1. CASE StillRuns(t)
            <4>1. Queued(t) \/ \E y \in Thread : Answers(y, th[y], t)
                BY <1>3, <3>1, LostIs DEF StillRuns
            <4> QED
                BY <2>2, <4>1 DEF Queued
        <3> QED
            BY <1>2, <1>3, <3>1
    <2>3. ~ Crash
        BY DEF Crash, Inductive, TypeOK
    <2> QED
        BY <2>1, <2>2, <2>3 DEF Next, Ask, OneChange, TimeRunsOut, OrphanEnds
<1>4. (NothingLost <=> \A t \in DOMAIN tasks :
                          tasks[t].state = "Running" =>
                              Queued(t) \/ \E x \in Thread : Answers(x, th[x], t))'
    BY LostIs, PTL
<1> QED
    BY <1>3, <1>4

\* As long as the core does not die and neither the backlog nor a trace refuses
\* it, whatever else fails: a task that is written down as running is on the
\* queue, about to be, or in a worker's hands (core/service/supervision.rs:247-249).
THEOREM DaemonNothingLost ==
    ASSUME NoneFails({"store", "trace"}), MostCrashes = 0
    PROVE  Spec => []NothingLost
<1>1. Init => NothingLost
    BY DEF Init, NothingLost
<1>2. Inductive /\ NothingLost /\ [Next]_vars => NothingLost'
    <2>1. ASSUME NothingLost, UNCHANGED vars PROVE NothingLost'
        BY <2>1 DEF vars, NothingLost, AboutToQueue, InHand
    <2> QED
        BY <2>1, StepNothingLost
<1> QED
    BY <1>1, <1>2, DaemonSound, PTL DEF Spec

----------------------------------------------------------------------------
(* No session is left unattended. *)

\* Whether a thread looks at the session again, or stops it.
Sees(f, s) ==
    /\ f.session = s
    /\ \/ f.at \in {"held", "decide", "stopread", "kill"}
       \/ f.at = "record" /\ f.why # S!NoReason
Patient == NoneFails({"store", "append", "ledger", "record"})

LEMMA NoReasonIsNone == S!NoReason \notin S!Reason
BY Zenon DEF S!NoReason, S!Reason

\* Who looks at a session goes on to look until it has a run or is stopped.
LEMMA SeesOn ==
    ASSUME Inductive, NEW x \in Thread, Does(x), Patient,
           NEW s \in S!Running(sessions), s \in S!Running(sessions'), Sees(th[x], s)
    PROVE  Sees(th'[x], s) \/ RunningIn(tasks', s) # {}
<1>1. /\ th[x].session = s /\ s \in DOMAIN sessions
      /\ th[x] \in FrameType /\ th \in [Thread -> FrameType] /\ FrameSound(th[x])
    BY FrameParts DEF Sees, S!Running, Inductive, TypeOK
<1>2. ~ StoreFails(x)
    BY DEF StoreFails, Fails, Patient, NoneFails
<1>3. ASSUME NEW label \in {"decide", "stopread", "kill"}, NEW f,
             f.at = label, f.session = s, th' = [th EXCEPT ![x] = f]
      PROVE  Sees(th'[x], s)
    BY <1>1, <1>3 DEF Sees
<1>4. CASE th[x].at = "held"
    <2> DEFINE f == [At(x, "decide") EXCEPT !.late = s \in late]
    <2>1. th' = [th EXCEPT ![x] = f]
        BY <1>1, <1>2, <1>4, NextStep DEF SettleRead, Frame, Goes, Patient, NoneFails
    <2>2. f.at = "decide" /\ f.session = s
        BY <1>1 DEF At, FrameType
    <2> HIDE DEF f
    <2> QED
        BY <1>3, <2>1, <2>2
<1>5. CASE th[x].at = "decide"
    <2>1. DecideNow(x)
        BY <1>2, <1>5, NextStep
    <2>2. PICK cost \in Costs :
             /\ Decided(x, Decision(x, cost), Choice(x, cost))
             /\ RunningIn(tasks', s) = RunningIn(tasks, s) \cup DOMAIN Choice(x, cost)
        BY <1>1, <2>1, DecisionRuns
    <2> DEFINE kind == Decision(x, cost).kind
               reason == Decision(x, cost).why
               why == IF kind = "stop" THEN reason ELSE S!NoReason
               spent == Counted(tasks, s)
               todo == InOrder(DOMAIN Choice(x, cost))
               f == [At(x, "record") EXCEPT !.spent = spent, !.why = why, !.todo = todo]
    <2>3. th' = [th EXCEPT ![x] = f]
        BY <1>1, <2>2 DEF Decided, Goes
    <2>4. kind = "stop" => reason \in S!Reason
        BY StopHasReason DEF Decision
    <2>5. kind # "stop" => RunningIn(tasks, s) # {} \/ DOMAIN Choice(x, cost) # {}
        BY <1>1, ChoiceStarts
    <2>6. kind = "stop" => why # S!NoReason
        BY <2>4, NoReasonIsNone
    <2> HIDE DEF kind, why, spent, todo
    <2>7. f.at = "record" /\ f.session = s /\ f.why = why
        BY <1>1 DEF At, FrameType
    <2> HIDE DEF f
    <2>8. th'[x] = f
        BY <1>1, <2>3
    <2> QED
        BY <2>2, <2>5, <2>6, <2>7, <2>8 DEF Sees
<1>6. CASE th[x].at = "record" /\ th[x].why # S!NoReason
    <2>1. Record(x)
        BY <1>6, NextStep
    <2>2. th' = [th EXCEPT ![x] = At(x, "stopread")]
        BY <1>6, <2>1 DEF Record, AfterRecord, Frame, Goes, Patient, NoneFails
    <2>3. At(x, "stopread").at = "stopread" /\ At(x, "stopread").session = s
        BY <1>1 DEF At, FrameType
    <2> QED
        BY <1>3, <2>2, <2>3
<1>7. CASE th[x].at = "stopread"
    <2> DEFINE todo == InOrder(RunningIn(tasks, s))
               f == [At(x, "kill") EXCEPT !.todo = todo]
    <2>1. th' = [th EXCEPT ![x] = f]
        BY <1>1, <1>2, <1>7, NextStep DEF StopRead, Frame, Goes
    <2> HIDE DEF todo
    <2>2. f.at = "kill" /\ f.session = s
        BY <1>1 DEF At, FrameType
    <2> HIDE DEF f
    <2> QED
        BY <1>3, <2>1, <2>2
<1>8. CASE th[x].at = "kill"
    <2>1. CASE Kill(x)
        <3> DEFINE rest == Tail(th[x].todo)
                   f == [th[x] EXCEPT !.todo = rest]
        <3>1. th' = [th EXCEPT ![x] = f]
            BY <2>1 DEF Kill, Frame, Goes
        <3> HIDE DEF rest
        <3>2. f.at = "kill" /\ f.session = s
            BY <1>1, <1>8 DEF FrameType
        <3> HIDE DEF f
        <3> QED
            BY <1>3, <3>1, <3>2
    <2>2. ~ StopSession(x)
        <3> SUFFICES ASSUME StopSession(x) PROVE FALSE
            OBVIOUS
        <3>1. sessions' = [sessions EXCEPT ![s] = S!Stopped(sessions[s], th[x].why)]
            BY <1>1 DEF StopSession, Frame
        <3>2. sessions[s] \in S!Session /\ sessions \in [DOMAIN sessions -> S!Session]
            BY <1>1 DEF Inductive, TypeOK
        <3>3. ~ S!IsRunning(S!Stopped(sessions[s], th[x].why))
            BY <3>2, FrameParts, StoppedSession
        <3>4. sessions'[s] = S!Stopped(sessions[s], th[x].why)
            BY <1>1, <3>1, <3>2
        <3> QED
            BY <3>3, <3>4 DEF S!Running
    <2> QED
        BY <1>2, <1>8, <2>1, <2>2, NextStep
<1> QED
    BY <1>4, <1>5, <1>6, <1>7, <1>8 DEF Sees

\* A session that is opened is about to be looked at.
LEMMA OpenedIsSeen ==
    ASSUME Inductive, NEW x \in Thread, Does(x), MoreSessions,
           NEW s \in S!Running(sessions'), s \notin S!Running(sessions)
    PROVE  Sees(th'[x], s)
<1>1. th \in [Thread -> FrameType] /\ sessions \in [1..(next_session - 1) -> S!Session]
    BY DEF Inductive, TypeOK
<1>2. s \in DOMAIN sessions' /\ s \notin DOMAIN sessions
    BY DEF S!Running, MoreSessions
<1>3. ~ UNCHANGED held /\ ~ Record(x) /\ ~ StopSession(x)
    BY <1>1, <1>2 DEF held, Record, Recorded, StopSession
<1>4. Open(x) /\ ~ UNCHANGED held
    BY <1>3, HeldSteps
<1>5. /\ DOMAIN sessions' = DOMAIN sessions \cup {next_session}
      /\ th' = [th EXCEPT ![x] = [Idle EXCEPT !.at = "held", !.session = next_session]]
    BY <1>4 DEF Open, Goes
<1>6. th'[x].at = "held" /\ th'[x].session = next_session
    BY <1>1, <1>5 DEF Idle
<1> QED
    BY <1>2, <1>5, <1>6 DEF Sees

\* A worker that is done turns to the session of the task it had.
LEMMA OnwardTurns ==
    ASSUME NEW w \in Thread, NEW label, Onward(w, label), "append" \notin Failing,
           th[w].task \in DOMAIN tasks, tasks[th[w].task].session # NoSession,
           th \in [Thread -> FrameType]
    PROVE  th'[w].at = label /\ th'[w].session = tasks[th[w].task].session
<1> DEFINE t == th[w].task
           s == tasks[t].session
           why == IF label = "stopread" THEN "vendor limit" ELSE S!NoReason
           f == [Idle EXCEPT !.at = label, !.session = s, !.why = why]
<1>1. th' = [th EXCEPT ![w] = f]
    BY Zenon DEF Onward, Frame, Goes
<1> HIDE DEF why
<1>2. f.at = label /\ f.session = s
    BY DEF Idle
<1> HIDE DEF f
<1> QED
    BY <1>1, <1>2

\* A run that goes on, as far as its session is concerned.
GoesOn(t) ==
    t \in DOMAIN tasks' /\ tasks'[t].state = tasks[t].state
                        /\ tasks'[t].session = tasks[t].session

\* A run ends, or waits again, only by the worker that carried it, which turns
\* to its session, or by the stopping of the session.
LEMMA RunGoesOn ==
    ASSUME Inductive, NEW x \in Thread, Does(x), Patient,
           NEW s \in S!Running(sessions), NEW t \in RunningIn(tasks, s)
    PROVE  GoesOn(t) \/ Sees(th'[x], s)
<1>1. /\ t \in DOMAIN tasks /\ tasks[t].state = "Running" /\ tasks[t].session = s
      /\ tasks \in [DOMAIN tasks -> Task] /\ tasks[t] \in Task
      /\ th \in [Thread -> FrameType]
    BY DEF RunningIn, TakenBy, Inductive, TypeOK
<1>2. s # NoSession /\ s \in DOMAIN sessions
    BY InductiveStoreOK DEF S!Running, NoSession
<1>3. CASE UNCHANGED store
    BY <1>1, <1>3 DEF store, GoesOn
<1>4. CASE NoteArea(x)
    <2> DEFINE u == th[x].task
               new == [tasks[u] EXCEPT !.worktree = TRUE]
    <2>1. \/ tasks' = tasks
          \/ u \in DOMAIN tasks /\ tasks' = [tasks EXCEPT ![u] = new]
        BY <1>4 DEF NoteArea, Frame
    <2>2. u \in DOMAIN tasks => new.state = tasks[u].state /\ new.session = tasks[u].session
        BY <1>1 DEF Task
    <2> HIDE DEF new
    <2> QED
        BY <1>1, <2>1, <2>2 DEF GoesOn
<1>5. ASSUME th[x].task # t,
             \/ tasks' = tasks
             \/ \E new : tasks' = [tasks EXCEPT ![th[x].task] = new]
      PROVE  GoesOn(t)
    BY <1>1, <1>5 DEF GoesOn
<1>6. ASSUME th[x].task = t, NEW label \in {"held", "stopread"}, Onward(x, label)
      PROVE  Sees(th'[x], s)
    <2>1. th'[x].at = label /\ th'[x].session = s
        BY <1>1, <1>2, <1>6, OnwardTurns DEF Patient, NoneFails
    <2> QED
        BY <2>1 DEF Sees
<1>7. CASE EndTask(x)
    <2>1. Onward(x, "held")
        BY <1>7 DEF EndTask
    <2>2. \/ tasks' = tasks
          \/ \E new : tasks' = [tasks EXCEPT ![th[x].task] = new]
        BY <1>7 DEF EndTask, Frame
    <2> QED
        BY <1>5, <1>6, <2>1, <2>2
<1>8. CASE TurnAway(x)
    <2>1. Onward(x, "stopread")
        BY <1>8 DEF TurnAway
    <2>2. \/ tasks' = tasks
          \/ \E new : tasks' = [tasks EXCEPT ![th[x].task] = new]
        BY <1>8 DEF TurnAway, Frame
    <2> QED
        BY <1>5, <1>6, <2>1, <2>2
<1>9. CASE DecideNow(x)
    <2>1. PICK cost \in Costs :
             /\ DOMAIN tasks' = DOMAIN tasks
             /\ \A u \in DOMAIN tasks : u \notin DOMAIN Choice(x, cost) => tasks'[u] = tasks[u]
             /\ \A u \in DOMAIN Choice(x, cost) : tasks[u].state = "Pending"
        BY <1>9, DecisionRuns
    <2>2. tasks'[t] = tasks[t]
        BY <1>1, <2>1
    <2> QED
        BY <1>1, <2>1, <2>2 DEF GoesOn
<1>10. CASE InterruptTasks(x)
    <2>1. th[x].at = "interrupt" /\ tasks' = InterruptAll(tasks, th[x].session)
        BY <1>10 DEF InterruptTasks, Frame
    <2>2. th[x].session # s
        BY <2>1, FrameParts DEF FrameSound
    <2>3. DOMAIN tasks' = DOMAIN tasks /\ tasks'[t] = tasks[t]
        BY <1>1, <2>1, <2>2 DEF InterruptAll
    <2> QED
        BY <1>1, <2>3 DEF GoesOn
<1> QED
    BY <1>3, <1>4, <1>7, <1>8, <1>9, <1>10, StoreSteps

\* What people ask for leaves a run alone.
LEMMA AskGoesOn ==
    ASSUME Inductive, Ask, NEW t \in DOMAIN tasks, tasks[t].state = "Running"
    PROVE  GoesOn(t)
<1>1. tasks \in [DOMAIN tasks -> Task] /\ tasks[t] \in Task /\ t < next_id
      /\ t \in Nat /\ next_id \in Nat
    BY TaskThere, InductiveStoreOK DEF Inductive, TypeOK, TaskId
<1>2. CASE TaskAdd
    <2>1. PICK after : tasks' = Add(tasks, next_id, after)
        BY <1>2 DEF TaskAdd
    <2>2. t \in DOMAIN tasks' /\ tasks'[t] = tasks[t]
        BY <1>1, <2>1 DEF Add
    <2> QED
        BY <2>2 DEF GoesOn
<1>3. ASSUME NEW u \in DOMAIN tasks, TaskRm(u) PROVE GoesOn(t)
    <2>1. u # t /\ tasks' = Remove(tasks, u)
        BY <1>3 DEF TaskRm, Pending
    <2>2. /\ t \in DOMAIN tasks'
          /\ \/ tasks'[t] = tasks[t]
             \/ tasks'[t] = [tasks[t] EXCEPT !.after = tasks[u].after]
        BY <2>1 DEF Remove
    <2> QED
        BY <1>1, <2>2 DEF GoesOn, Task
<1>4. ASSUME NEW u \in DOMAIN tasks, Discard(u) \/ Requeue(u) PROVE GoesOn(t)
    <2>1. u # t /\ \E new : tasks' = [tasks EXCEPT ![u] = new]
        BY <1>4 DEF Discard, Requeue, IsEnded, Ended
    <2> QED
        BY <2>1 DEF GoesOn
<1> QED
    BY <1>2, <1>3, <1>4 DEF Ask

LEMMA StepSeenTo ==
    ASSUME Patient, MostCrashes = 0, Inductive, AlwaysSeenTo, Next
    PROVE  AlwaysSeenTo'
<1>1. MoreSessions
    BY StepStore
<1>2. \A s : SeenTo(s) <=> \E y \in Thread : Sees(th[y], s)
    BY DEF SeenTo, Sees
<1>3. \A s, t : t \in RunningIn(tasks, s) /\ GoesOn(t) => t \in RunningIn(tasks', s)
    BY DEF RunningIn, TakenBy, GoesOn
<1>4. ASSUME NEW s \in S!Running(sessions'), NEW x \in Thread, Does(x)
      PROVE  RunningIn(tasks', s) # {} \/ \E y \in Thread : Sees(th'[y], s)
    <2>1. CASE s \notin S!Running(sessions)
        BY <1>1, <1>4, <2>1, OpenedIsSeen
    <2>2. CASE s \in S!Running(sessions) /\ RunningIn(tasks, s) # {}
        <3>1. PICK t \in RunningIn(tasks, s) : TRUE
            BY <2>2
        <3>2. GoesOn(t) \/ Sees(th'[x], s)
            BY <1>4, <2>2, <3>1, RunGoesOn
        <3> QED
            BY <1>3, <3>1, <3>2
    <2>3. CASE s \in S!Running(sessions) /\ RunningIn(tasks, s) = {}
        <3>1. PICK y \in Thread : Sees(th[y], s)
            BY <1>2, <2>3 DEF AlwaysSeenTo
        <3>2. CASE y = x
            BY <1>4, <2>3, <3>1, <3>2, SeesOn
        <3>3. CASE y # x
            <4>1. th'[y] = th[y]
                BY <1>4, <3>3, DoesMoves, OthersStand
            <4> QED
                BY <3>1, <4>1
        <3> QED
            BY <3>2, <3>3
    <2> QED
        BY <2>1, <2>2, <2>3
<1>5. ASSUME NEW s \in S!Running(sessions'), UNCHANGED <<held, th>>,
             Ask \/ UNCHANGED store
      PROVE  RunningIn(tasks', s) # {} \/ \E y \in Thread : Sees(th'[y], s)
    <2>1. s \in S!Running(sessions)
        BY <1>5 DEF held
    <2>2. CASE RunningIn(tasks, s) # {}
        <3>1. PICK t \in RunningIn(tasks, s) : TRUE
            BY <2>2
        <3>2. t \in DOMAIN tasks /\ tasks[t].state = "Running"
            BY <3>1 DEF RunningIn, TakenBy
        <3>3. GoesOn(t)
            BY <1>5, <3>2, AskGoesOn DEF GoesOn, store
        <3> QED
            BY <1>3, <3>1, <3>3
    <2>3. CASE SeenTo(s)
        BY <1>2, <1>5, <2>3
    <2> QED
        BY <2>1, <2>2, <2>3 DEF AlwaysSeenTo
<1>6. ~ Crash
    BY DEF Crash, Inductive, TypeOK
<1>7. ASSUME NEW s \in S!Running(sessions')
      PROVE  RunningIn(tasks', s) # {} \/ \E y \in Thread : Sees(th'[y], s)
    <2>1. CASE Threads
        BY <1>4, <2>1, ThreadsDo
    <2>2. CASE UNCHANGED <<held, th>> /\ (Ask \/ UNCHANGED store)
        BY <1>5, <2>2
    <2> QED
        BY <1>6, <2>1, <2>2 DEF Next, Ask, OneChange, TimeRunsOut, OrphanEnds
<1>8. (\A s : SeenTo(s) <=> \E y \in Thread : Sees(th[y], s))'
    BY DEF SeenTo, Sees
<1> QED
    BY <1>7, <1>8 DEF AlwaysSeenTo

\* As long as the core does not die and neither store refuses it, nor the ledger
\* to be read or added to, whatever else fails: a session that runs has a run going,
\* or a thread is about to decide about it or to stop it
\* (core/service/supervision.rs:96-180).
THEOREM DaemonNeverUnattended ==
    ASSUME Patient, MostCrashes = 0
    PROVE  Spec => []NeverUnattended
<1>1. Init => AlwaysSeenTo
    BY DEF Init, AlwaysSeenTo, S!Running
<1>2. Inductive /\ AlwaysSeenTo /\ [Next]_vars => AlwaysSeenTo'
    <2>1. ASSUME AlwaysSeenTo, UNCHANGED vars PROVE AlwaysSeenTo'
        BY <2>1 DEF vars, AlwaysSeenTo, SeenTo
    <2> QED
        BY <2>1, StepSeenTo
<1>3. AlwaysSeenTo => NeverUnattended
    BY DEF AlwaysSeenTo, NeverUnattended, SeenTo, Attended
<1> QED
    BY <1>1, <1>2, <1>3, DaemonSound, PTL DEF Spec
============================================================================
