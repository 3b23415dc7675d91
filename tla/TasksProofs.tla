---------------------------- MODULE TasksProofs ----------------------------
(***************************************************************************)
(* Every operation makes a task of a task, and says in which state it is;  *)
(* none but adding and removing touches what the task waits for.  What the *)
(* runs of a session come to is a sum over them in no order in particular, *)
(* and what a decision hands out is taken, one waiting task after another, *)
(* from what is left of the budget beside them.                            *)
(***************************************************************************)
EXTENDS Tasks, Deciding, FiniteSetTheorems, WellFoundedInduction, TLAPS

----------------------------------------------------------------------------
(* Numbers. *)

\* A set of numbers that is not empty has a least one.
LEMMA LeastNumber ==
    ASSUME NEW S \in SUBSET Nat, S # {}
    PROVE  \E m \in S : \A n \in S : m <= n
<1>1. PICK m \in S : \A n \in S : ~ (<<n, m>> \in OpToRel(<, Nat))
    BY NatLessThanWellFounded, WFMin, Zenon
<1>2. ASSUME NEW n \in S PROVE m <= n
    <2>1. m \in Nat /\ n \in Nat
        OBVIOUS
    <2>2. <<n, m>> \in Nat \X Nat
        BY <2>1
    <2>3. ~ (n < m)
        BY <1>1, <2>2 DEF OpToRel
    <2> QED
        BY <2>1, <2>3
<1> QED
    BY <1>2

\* A set of numbers that has nought, and with each the next, has all of them.
LEMMA EveryNumber ==
    ASSUME NEW S \in SUBSET Nat, 0 \in S, \A n \in S : n + 1 \in S
    PROVE  S = Nat
<1> SUFFICES ASSUME Nat \ S # {} PROVE FALSE
    OBVIOUS
<1>1. PICK m \in Nat \ S : \A n \in Nat \ S : m <= n
    BY LeastNumber
<1>2. m # 0 /\ m - 1 \in Nat
    BY <1>1
<1>3. m - 1 \in S
    BY <1>1, <1>2
<1>4. m - 1 + 1 = m
    BY <1>2
<1> QED
    BY <1>3, <1>4, <1>1

\* A set of numbers none of which is above n, and that is not empty, has a
\* greatest one.
LEMMA GreatestNumber ==
    ASSUME NEW n \in Nat, NEW S \in SUBSET (0..n), S # {}
    PROVE  \E m \in S : \A k \in S : k <= m
<1> DEFINE Above == {m \in Nat : \A k \in S : k <= m}
<1>1. n \in Above
    OBVIOUS
<1>2. PICK m \in Above : \A k \in Above : m <= k
    BY <1>1, LeastNumber
<1>3. m \in S
    <2> SUFFICES ASSUME m \notin S PROVE FALSE
        OBVIOUS
    <2>1. \A k \in S : k \in Nat /\ k < m
        BY <1>2
    <2>2. m # 0 /\ m - 1 \in Nat
        <3>1. PICK k \in S : TRUE
            OBVIOUS
        <3> QED
            BY <1>2, <2>1, <3>1
    <2>3. m - 1 \in Above
        BY <1>2, <2>1, <2>2
    <2> QED
        BY <1>2, <2>2, <2>3
<1> QED
    BY <1>2, <1>3

----------------------------------------------------------------------------
(* One task. *)

\* `add`: the task waits for the one it was given.
LEMMA RegisteredTask ==
    ASSUME NEW after \in Nat
    PROVE  /\ Registered(after) \in Task
           /\ Registered(after).after = after
           /\ Registered(after).state = "Pending"
           /\ Registered(after).session = NoSession
BY DEF Registered, Task, TaskState, Disposition, NotYet, Observation,
       NoTask, NoSession, NoCeiling

\* `assign`: the task runs.
LEMMA AssignedTask ==
    ASSUME NEW k \in Task, NEW s \in Nat, NEW c \in Nat
    PROVE  /\ Assigned(k, s, c) \in Task
           /\ Assigned(k, s, c).after = k.after
           /\ Assigned(k, s, c).state = "Running"
           /\ Assigned(k, s, c).session = s
           /\ Assigned(k, s, c).ceiling = c
           /\ Assigned(k, s, c).attempts = k.attempts + 1
<1>1. k.attempts + 1 \in Nat
    BY DEF Task
<1> DEFINE once == k.attempts + 1
<1> HIDE DEF once
<1>2. once \in Nat
    BY <1>1 DEF once
<1>3. Assigned(k, s, c) = [k EXCEPT !.state = "Running", !.session = s,
                                    !.ceiling = c, !.attempts = once]
    BY DEF Assigned, once
<1>4. once = k.attempts + 1
    BY DEF once
<1> QED
    BY <1>2, <1>3, <1>4 DEF Task, TaskState

\* `finish`: a task that ended already keeps the ending it had.
LEMMA FinishedTask ==
    ASSUME NEW k \in Task, NEW end \in Ended
    PROVE  /\ Finished(k, end) \in Task
           /\ Finished(k, end).after = k.after
           /\ Finished(k, end).session = k.session
           /\ Finished(k, end).attempts = k.attempts
           /\ Finished(k, end).state # "Running"
           /\ Finished(k, end).state = "Pending" => k.state = "Pending"
           /\ IsEnded(k) => Finished(k, end).state = k.state
BY DEF Finished, Task, TaskState, Ended, IsEnded

\* `dispose`: what is decided changes nothing about how the task ended.
LEMMA DisposedTask ==
    ASSUME NEW k \in Task, NEW what \in Disposition
    PROVE  /\ Disposed(k, what) \in Task
           /\ Disposed(k, what).after = k.after
           /\ Disposed(k, what).session = k.session
           /\ Disposed(k, what).attempts = k.attempts
           /\ Disposed(k, what).state = k.state
           /\ Disposed(k, what).disposition = what
BY DEF Disposed, Task

\* `waits_again`: the task waits.
LEMMA WaitsAgainTask ==
    ASSUME NEW k \in Task, NEW keeping \in BOOLEAN
    PROVE  /\ WaitsAgain(k, keeping) \in Task
           /\ WaitsAgain(k, keeping).after = k.after
           /\ WaitsAgain(k, keeping).session = k.session
           /\ WaitsAgain(k, keeping).attempts = k.attempts
           /\ WaitsAgain(k, keeping).state = "Pending"
BY DEF WaitsAgain, Task, TaskState, Disposition, NoCeiling

\* `wait_again`: the task waits.
LEMMA TurnedAwayTask ==
    ASSUME NEW k \in Task
    PROVE  /\ TurnedAway(k) \in Task
           /\ TurnedAway(k).after = k.after
           /\ TurnedAway(k).session = k.session
           /\ TurnedAway(k).attempts = k.attempts
           /\ TurnedAway(k).state = "Pending"
BY DEF TurnedAway, Task, TaskState

----------------------------------------------------------------------------
(* What a set of tasks comes to. *)

\* What SumOver's recursion asks of a function on some of the sets.
OneOf(T) == CHOOSE x \in T : TRUE
Sums(f, sum, Sets) ==
    sum = [T \in Sets |-> IF T = {} THEN 0 ELSE f[OneOf(T)] + sum[T \ {OneOf(T)}]]

UpTo(S, n) == {T \in SUBSET S : Cardinality(T) <= n}
SumsAll(f, sum, S) == Sums(f, sum, SUBSET S)

LEMMA OneOfIsOne ==
    ASSUME NEW T, T # {}
    PROVE  OneOf(T) \in T
BY DEF OneOf

LEMMA OneLess ==
    ASSUME NEW T, IsFiniteSet(T), T # {}
    PROVE  /\ IsFiniteSet(T \ {OneOf(T)})
           /\ Cardinality(T) \in Nat
           /\ Cardinality(T \ {OneOf(T)}) \in Nat
           /\ Cardinality(T \ {OneOf(T)}) + 1 = Cardinality(T)
<1>1. IsFiniteSet(T \ {OneOf(T)}) /\ Cardinality(T \ {OneOf(T)}) = Cardinality(T) - 1
    BY OneOfIsOne, FS_RemoveElement
<1>2. Cardinality(T) \in Nat /\ Cardinality(T \ {OneOf(T)}) \in Nat
    BY <1>1, FS_CardinalityType
<1> QED
    BY <1>1, <1>2

\* There is such a function on the sets up to any size.
LEMMA SumsUpTo ==
    ASSUME NEW f, NEW S, IsFiniteSet(S), NEW n \in Nat
    PROVE  \E sum : Sums(f, sum, UpTo(S, n))
<1> DEFINE P(k) == \E sum : Sums(f, sum, UpTo(S, k))
           Known == {k \in Nat : P(k)}
<1>1. \A T \in SUBSET S : IsFiniteSet(T) /\ Cardinality(T) \in Nat
    BY FS_Subset, FS_CardinalityType
<1>2. P(0)
    <2> DEFINE none == [T \in UpTo(S, 0) |-> 0]
    <2>1. \A T \in UpTo(S, 0) : T = {}
        <3> SUFFICES ASSUME NEW T \in SUBSET S, Cardinality(T) <= 0 PROVE T = {}
            BY DEF UpTo
        <3>1. Cardinality(T) = 0 /\ IsFiniteSet(T)
            BY <1>1
        <3> QED
            BY <3>1, FS_EmptySet
    <2>2. Sums(f, none, UpTo(S, 0))
        BY <2>1 DEF Sums
    <2> QED
        BY <2>2
<1>3. ASSUME NEW k \in Nat, P(k) PROVE P(k + 1)
    <2>1. PICK sum : Sums(f, sum, UpTo(S, k))
        BY <1>3
    <2> DEFINE more == [T \in UpTo(S, k + 1) |->
                           IF T = {} THEN 0 ELSE f[OneOf(T)] + sum[T \ {OneOf(T)}]]
    <2>2. ASSUME NEW T \in UpTo(S, k) PROVE T \in UpTo(S, k + 1) /\ more[T] = sum[T]
        <3>1. T \in UpTo(S, k + 1)
            BY <1>1 DEF UpTo
        <3>2. sum[T] = IF T = {} THEN 0 ELSE f[OneOf(T)] + sum[T \ {OneOf(T)}]
            BY <2>1 DEF Sums
        <3> QED
            BY <3>1, <3>2
    <2>3. ASSUME NEW T \in UpTo(S, k + 1), T # {} PROVE T \ {OneOf(T)} \in UpTo(S, k)
        BY <1>1, <2>3, OneLess DEF UpTo
    <2>4. Sums(f, more, UpTo(S, k + 1))
        BY <2>2, <2>3 DEF Sums
    <2> QED
        BY <2>4
<1> HIDE DEF P
<1>4. 0 \in Known /\ Known \in SUBSET Nat /\ \A k \in Known : k + 1 \in Known
    BY <1>2, <1>3
<1> HIDE DEF Known
<1>5. Known = Nat
    BY <1>4, EveryNumber
<1> QED
    BY <1>5 DEF Known, P

\* There is only one value for it to have.
LEMMA SumsAgree ==
    ASSUME NEW f, NEW S, IsFiniteSet(S), NEW T \in SUBSET S,
           NEW a, SumsAll(f, a, S), NEW b, SumsAll(f, b, T)
    PROVE  a[T] = b[T]
<1> DEFINE P(k) == \A U \in SUBSET T : Cardinality(U) = k => a[U] = b[U]
           Known == {k \in Nat : P(k)}
<1>1. \A U \in SUBSET T : IsFiniteSet(U) /\ Cardinality(U) \in Nat
    BY FS_Subset, FS_CardinalityType
<1>2. \A U \in SUBSET T : U # {} => /\ a[U] = f[OneOf(U)] + a[U \ {OneOf(U)}]
                                   /\ b[U] = f[OneOf(U)] + b[U \ {OneOf(U)}]
    BY DEF Sums, SumsAll
<1>3. a[{}] = 0 /\ b[{}] = 0
    BY DEF Sums, SumsAll
<1>4. P(0)
    BY <1>1, <1>3, FS_EmptySet
<1>5. ASSUME NEW k \in Nat, P(k) PROVE P(k + 1)
    <2> SUFFICES ASSUME NEW U \in SUBSET T, Cardinality(U) = k + 1 PROVE a[U] = b[U]
        OBVIOUS
    <2>1. U # {} /\ IsFiniteSet(U)
        BY <1>1, FS_EmptySet
    <2>2. Cardinality(U \ {OneOf(U)}) = k
        <3>1. /\ Cardinality(U \ {OneOf(U)}) \in Nat
              /\ Cardinality(U \ {OneOf(U)}) + 1 = Cardinality(U)
            BY <2>1, OneLess
        <3> QED
            BY <3>1
    <2> QED
        BY <1>2, <1>5, <2>1, <2>2
<1> HIDE DEF P
<1>6. 0 \in Known /\ Known \in SUBSET Nat /\ \A k \in Known : k + 1 \in Known
    BY <1>4, <1>5
<1> HIDE DEF Known
<1>7. Known = Nat
    BY <1>6, EveryNumber
<1>8. Cardinality(T) \in Nat /\ P(Cardinality(T))
    BY <1>1, <1>7 DEF Known
<1> QED
    BY <1>8 DEF P

\* So the sum is taken one by one.
LEMMA SumIsSums ==
    ASSUME NEW f, NEW S, IsFiniteSet(S)
    PROVE  \E sum : SumsAll(f, sum, S) /\ SumOver(f, S) = sum[S]
<1> DEFINE sum == CHOOSE sum : SumsAll(f, sum, S)
<1>1. Cardinality(S) \in Nat
    BY FS_CardinalityType
<1>2. UpTo(S, Cardinality(S)) = SUBSET S
    BY FS_Subset DEF UpTo
<1>3. \E g : SumsAll(f, g, S)
    <2>1. PICK g : Sums(f, g, UpTo(S, Cardinality(S)))
        BY <1>1, SumsUpTo
    <2> QED
        BY <1>2, <2>1 DEF SumsAll
<1>4. SumsAll(f, sum, S)
    BY <1>3
<1>5. SumOver(f, S) = sum[S]
    BY DEF SumOver, SumsAll, Sums, OneOf
<1> QED
    BY <1>4, <1>5

LEMMA SumOfNone ==
    ASSUME NEW f
    PROVE  SumOver(f, {}) = 0
<1>1. PICK sum : SumsAll(f, sum, {}) /\ SumOver(f, {}) = sum[{}]
    BY FS_EmptySet, SumIsSums
<1> QED
    BY <1>1 DEF Sums, SumsAll

LEMMA SumOneByOne ==
    ASSUME NEW f, NEW S, IsFiniteSet(S), S # {}
    PROVE  SumOver(f, S) = f[OneOf(S)] + SumOver(f, S \ {OneOf(S)})
<1> DEFINE R == S \ {OneOf(S)}
<1>1. IsFiniteSet(R)
    BY OneLess
<1>2. PICK a : SumsAll(f, a, S) /\ SumOver(f, S) = a[S]
    BY SumIsSums
<1>3. PICK b : SumsAll(f, b, R) /\ SumOver(f, R) = b[R]
    BY <1>1, SumIsSums
<1>4. a[S] = f[OneOf(S)] + a[R]
    BY <1>2 DEF Sums, SumsAll
<1>5. R \in SUBSET S
    OBVIOUS
<1> HIDE DEF R
<1>6. a[R] = b[R]
    BY <1>2, <1>3, <1>5, SumsAgree
<1> QED
    BY <1>2, <1>3, <1>4, <1>6 DEF R

\* A sum of numbers is a number, and is the same of numbers that are the same.
LEMMA SumIsNumber ==
    ASSUME NEW S, IsFiniteSet(S), NEW f, NEW g,
           \A x \in S : f[x] \in Nat /\ f[x] = g[x]
    PROVE  SumOver(f, S) \in Nat /\ SumOver(f, S) = SumOver(g, S)
<1> DEFINE Q(T) == SumOver(f, T) \in Nat /\ SumOver(f, T) = SumOver(g, T)
           P(k) == \A T \in SUBSET S : Cardinality(T) = k => Q(T)
           Known == {k \in Nat : P(k)}
<1>1. \A T \in SUBSET S : IsFiniteSet(T) /\ Cardinality(T) \in Nat
    BY FS_Subset, FS_CardinalityType
<1>2. P(0)
    BY <1>1, FS_EmptySet, SumOfNone
<1>3. ASSUME NEW k \in Nat, P(k) PROVE P(k + 1)
    <2> SUFFICES ASSUME NEW T \in SUBSET S, Cardinality(T) = k + 1 PROVE Q(T)
        OBVIOUS
    <2> DEFINE x == OneOf(T)
               R == T \ {x}
    <2>1. T # {} /\ IsFiniteSet(T)
        BY <1>1, FS_EmptySet
    <2>2. x \in S /\ R \in SUBSET S
        BY <2>1, OneOfIsOne
    <2>3. Cardinality(R) = k
        <3>1. Cardinality(R) \in Nat /\ Cardinality(R) + 1 = Cardinality(T)
            BY <2>1, OneLess
        <3> QED
            BY <3>1
    <2>4. Q(R)
        BY <1>3, <2>2, <2>3
    <2>5. /\ SumOver(f, T) = f[x] + SumOver(f, R)
          /\ SumOver(g, T) = g[x] + SumOver(g, R)
        BY <2>1, SumOneByOne
    <2> HIDE DEF x, R
    <2> QED
        BY <2>2, <2>4, <2>5
<1> HIDE DEF P
<1>4. 0 \in Known /\ Known \in SUBSET Nat /\ \A k \in Known : k + 1 \in Known
    BY <1>2, <1>3
<1> HIDE DEF Known
<1>5. Known = Nat
    BY <1>4, EveryNumber
<1>6. Cardinality(S) \in Nat /\ P(Cardinality(S))
    BY <1>1, <1>5 DEF Known
<1> QED
    BY <1>6 DEF P

\* In whatever order it is taken.
LEMMA SumWithOneMore ==
    ASSUME NEW U, IsFiniteSet(U), NEW f, \A x \in U : f[x] \in Nat,
           NEW y \in U
    PROVE  SumOver(f, U) = f[y] + SumOver(f, U \ {y})
<1> DEFINE Q(T) == \A x \in T : SumOver(f, T) = f[x] + SumOver(f, T \ {x})
           P(k) == \A T \in SUBSET U : Cardinality(T) = k => Q(T)
           Known == {k \in Nat : P(k)}
<1>1. \A T \in SUBSET U : IsFiniteSet(T) /\ Cardinality(T) \in Nat
    BY FS_Subset, FS_CardinalityType
<1>2. \A T \in SUBSET U : SumOver(f, T) \in Nat
    BY <1>1, SumIsNumber
<1>3. P(0)
    BY <1>1, FS_EmptySet
<1>4. ASSUME NEW k \in Nat, P(k) PROVE P(k + 1)
    <2> SUFFICES ASSUME NEW T \in SUBSET U, Cardinality(T) = k + 1, NEW x \in T
                 PROVE  SumOver(f, T) = f[x] + SumOver(f, T \ {x})
        OBVIOUS
    <2> DEFINE c == OneOf(T)
               both == (T \ {x}) \ {c}
    <2>1. T # {} /\ IsFiniteSet(T) /\ c \in T
        BY <1>1, OneOfIsOne
    <2>2. SumOver(f, T) = f[c] + SumOver(f, T \ {c})
        BY <2>1, SumOneByOne
    <2>3. CASE x # c
        <3>1. /\ T \ {x} \in SUBSET U /\ T \ {c} \in SUBSET U /\ both \in SUBSET U
              /\ c \in T \ {x} /\ x \in T \ {c}
              /\ both = (T \ {c}) \ {x}
            BY <2>1, <2>3
        <3>2. Cardinality(T \ {x}) = k /\ Cardinality(T \ {c}) = k
            <4>1. /\ Cardinality(T \ {x}) = Cardinality(T) - 1
                  /\ Cardinality(T \ {c}) = Cardinality(T) - 1
                BY <2>1, FS_RemoveElement
            <4> QED
                BY <4>1
        <3> HIDE DEF c, both
        <3>3. SumOver(f, T \ {x}) = f[c] + SumOver(f, both)
            BY <1>4, <3>1, <3>2 DEF both
        <3>4. SumOver(f, T \ {c}) = f[x] + SumOver(f, both)
            BY <1>4, <3>1, <3>2
        <3>5. f[c] \in Nat /\ f[x] \in Nat /\ SumOver(f, both) \in Nat
            BY <1>2, <2>1, <3>1
        <3> QED
            BY <2>2, <3>3, <3>4, <3>5
    <2> QED
        BY <2>2, <2>3
<1> HIDE DEF P
<1>5. 0 \in Known /\ Known \in SUBSET Nat /\ \A k \in Known : k + 1 \in Known
    BY <1>3, <1>4
<1> HIDE DEF Known
<1>6. Known = Nat
    BY <1>5, EveryNumber
<1>7. Cardinality(U) \in Nat /\ P(Cardinality(U))
    BY <1>1, <1>6 DEF Known
<1> QED
    BY <1>7 DEF P

\* The sum over two sets that have nothing in common.
LEMMA SumOfBoth ==
    ASSUME NEW A, IsFiniteSet(A), NEW B, IsFiniteSet(B), A \cap B = {},
           NEW f, \A x \in A \cup B : f[x] \in Nat
    PROVE  SumOver(f, A \cup B) = SumOver(f, A) + SumOver(f, B)
<1> DEFINE Q(T) == SumOver(f, A \cup T) = SumOver(f, A) + SumOver(f, T)
           P(k) == \A T \in SUBSET B : Cardinality(T) = k => Q(T)
           Known == {k \in Nat : P(k)}
<1>1. \A T \in SUBSET B : IsFiniteSet(T) /\ Cardinality(T) \in Nat /\ IsFiniteSet(A \cup T)
    BY FS_Subset, FS_CardinalityType, FS_Union
<1>2. SumOver(f, A) \in Nat /\ \A T \in SUBSET B : SumOver(f, T) \in Nat
    BY <1>1, SumIsNumber
<1>3. P(0)
    <2> SUFFICES ASSUME NEW T \in SUBSET B, Cardinality(T) = 0 PROVE Q(T)
        OBVIOUS
    <2>1. T = {} /\ A \cup T = A
        BY <1>1, FS_EmptySet
    <2> QED
        BY <1>2, <2>1, SumOfNone
<1>4. ASSUME NEW k \in Nat, P(k) PROVE P(k + 1)
    <2> SUFFICES ASSUME NEW T \in SUBSET B, Cardinality(T) = k + 1 PROVE Q(T)
        OBVIOUS
    <2> DEFINE c == OneOf(T)
               R == T \ {c}
    <2>1. IsFiniteSet(T)
        BY <1>1
    <2>2. T # {}
        BY FS_EmptySet
    <2>3. c \in T /\ R \in SUBSET B /\ c \in A \cup T /\ (A \cup T) \ {c} = A \cup R
        BY <2>2, OneOfIsOne
    <2>4. Cardinality(R) = k
        <3>1. Cardinality(R) \in Nat /\ Cardinality(R) + 1 = Cardinality(T)
            BY <2>1, <2>2, OneLess
        <3> QED
            BY <3>1
    <2> HIDE DEF c
    <2>5. SumOver(f, T) = f[c] + SumOver(f, R)
        BY <2>1, <2>3, SumWithOneMore
    <2> HIDE DEF R
    <2>6. SumOver(f, A \cup T) = f[c] + SumOver(f, A \cup R)
        <3>1. IsFiniteSet(A \cup T) /\ \A x \in A \cup T : f[x] \in Nat
            BY <1>1
        <3>2. SumOver(f, A \cup T) = f[c] + SumOver(f, (A \cup T) \ {c})
            BY <2>3, <3>1, SumWithOneMore
        <3> QED
            BY <2>3, <3>2
    <2>7. Q(R)
        BY <1>4, <2>3, <2>4
    <2>8. f[c] \in Nat /\ SumOver(f, R) \in Nat
        BY <1>2, <2>3
    <2> QED
        BY <1>2, <2>5, <2>6, <2>7, <2>8
<1> HIDE DEF P
<1>5. 0 \in Known /\ Known \in SUBSET Nat /\ \A k \in Known : k + 1 \in Known
    BY <1>3, <1>4
<1> HIDE DEF Known
<1>6. Known = Nat
    BY <1>5, EveryNumber
<1>7. Cardinality(B) \in Nat /\ P(Cardinality(B))
    BY <1>1, <1>6 DEF Known
<1> QED
    BY <1>7 DEF P

----------------------------------------------------------------------------
(* What a decision hands out. *)

\* Saturating subtraction never leaves the naturals.
LEMMA LessNat ==
    ASSUME NEW n \in Nat, NEW m \in Nat
    PROVE  Less(n, m) \in Nat /\ Less(n, m) <= n /\ (Less(n, m) # 0 => Less(n, m) + m = n)
BY DEF Less

\* What is left beside the runs going.
LEMMA RoomIsLeft ==
    ASSUME NEW st, st.declared \in Nat, st.spent \in Nat, st.booked \in Nat
    PROVE  /\ Room(st) \in Nat
           /\ Room(st) <= st.declared
           /\ Room(st) # 0 => st.spent + st.booked + Room(st) = st.declared
<1>1. /\ Left(st) \in Nat /\ Left(st) <= st.declared
      /\ Left(st) # 0 => Left(st) + st.spent = st.declared
    BY LessNat DEF Left
<1>2. /\ Room(st) \in Nat /\ Room(st) <= Left(st)
      /\ Room(st) # 0 => Room(st) + st.booked = Left(st)
    BY <1>1, LessNat DEF Room
<1> QED
    BY <1>1, <1>2

\* What is known of the cost of a run: nothing, or two figures.
Costed(task) == task.cost = NoFigure \/ (task.cost[1] \in Nat /\ task.cost[2] \in Nat)

\* What is set aside for one task is never more than what is free.
LEMMA SetAsideWithinFree ==
    ASSUME NEW task, Costed(task), NEW left \in Nat, NEW isAlone \in BOOLEAN
    PROVE  /\ SetAside(task, left, isAlone) \in Nat
           /\ SetAside(task, left, isAlone) <= left
<1>1. CASE task.cost = NoFigure
    BY <1>1 DEF SetAside, NothingAside
<1>2. CASE task.cost # NoFigure
    <2>1. AtLeastOne(task.cost[1]) \in Nat
        BY <1>2 DEF AtLeastOne, Costed
    <2> QED
        BY <1>2, <2>1 DEF SetAside, NothingAside
<1> QED
    BY <1>1, <1>2

LEMMA AllowanceWithinFree ==
    ASSUME NEW st, NEW task, Costed(task), NEW left \in Nat, NEW given
    PROVE  /\ Allowance(st, task, left, given) \in Nat
           /\ Allowance(st, task, left, given) <= left
<1> DEFINE alone == st.running = 0 /\ given = 0
<1>1. SetAside(task, left, alone) \in Nat /\ SetAside(task, left, alone) <= left
    BY SetAsideWithinFree
<1> QED
    BY <1>1 DEF Allowance, NothingAside

\* One turn of the round, and the round as far as the k-th of the waiting.
GivenTo(st, before, i) ==
    IF before.free = 0 THEN NothingAside
    ELSE Allowance(st, st.pending[i], before.free, before.given)
Turn(st, before, i) ==
    [free |-> before.free - GivenTo(st, before, i),
     given |-> before.given + (IF GivenTo(st, before, i) = NothingAside THEN 0 ELSE 1),
     list |-> Append(before.list, GivenTo(st, before, i))]
BeforeAny(st) == [free |-> Room(st), given |-> 0, list |-> <<>>]
Round(st, after, k) ==
    after = [i \in 0..k |-> IF i = 0 THEN BeforeAny(st) ELSE Turn(st, after[i-1], i)]

\* The round can be gone through, however many wait.
LEMMA RoundExists ==
    ASSUME NEW st, NEW n \in Nat
    PROVE  \E after : Round(st, after, n)
<1> DEFINE P(k) == \E after : Round(st, after, k)
           Known == {k \in Nat : P(k)}
<1>1. P(0)
    <2> DEFINE first == [i \in 0..0 |-> BeforeAny(st)]
    <2>1. Round(st, first, 0)
        BY DEF Round
    <2> QED
        BY <2>1
<1>2. ASSUME NEW k \in Nat, P(k) PROVE P(k + 1)
    <2>1. PICK after : Round(st, after, k)
        BY <1>2
    <2> DEFINE more == [i \in 0..(k+1) |-> IF i = 0 THEN BeforeAny(st)
                                            ELSE Turn(st, after[i-1], i)]
    <2>2. ASSUME NEW i \in 0..k PROVE more[i] = after[i]
        BY <2>1 DEF Round
    <2>3. ASSUME NEW i \in 0..(k+1), i # 0 PROVE more[i-1] = after[i-1]
        <3>1. i - 1 \in 0..k
            BY <2>3
        <3> QED
            BY <2>2, <3>1
    <2>4. Round(st, more, k + 1)
        BY <2>3 DEF Round
    <2> QED
        BY <2>4
<1> HIDE DEF P
<1>3. 0 \in Known /\ Known \in SUBSET Nat /\ \A k \in Known : k + 1 \in Known
    BY <1>1, <1>2
<1> HIDE DEF Known
<1>4. Known = Nat
    BY <1>3, EveryNumber
<1> QED
    BY <1>4 DEF Known, P

\* What `allow` answers is what it comes to.
LEMMA AllowIsRound ==
    ASSUME NEW st, Len(st.pending) \in Nat
    PROVE  \E after : Round(st, after, Len(st.pending))
                      /\ Allow(st) = after[Len(st.pending)].list
<1> DEFINE after == CHOOSE a : Round(st, a, Len(st.pending))
<1>1. Round(st, after, Len(st.pending))
    BY RoundExists
<1>2. Allow(st) = after[Len(st.pending)].list
    BY DEF Allow, Round, Turn, GivenTo, BeforeAny
<1> QED
    BY <1>1, <1>2

\* A list of what each of the waiting is allowed, and what is free after each:
\* what one is allowed is taken from what was free before it.
HandsOut(st, list, free) ==
    /\ free \in [0..Len(st.pending) -> Nat]
    /\ free[0] = Room(st)
    /\ list \in [1..Len(st.pending) -> Nat]
    /\ \A i \in 1..Len(st.pending) : list[i] + free[i] = free[i-1]

\* The figures a standing has.
Counts(st) ==
    /\ st.declared \in Nat /\ st.spent \in Nat /\ st.booked \in Nat
    /\ Len(st.pending) \in Nat /\ DOMAIN st.pending = 1..Len(st.pending)
    /\ \A i \in 1..Len(st.pending) : Costed(st.pending[i])

\* `allow` hands out only what is free.
LEMMA AllowHandsOut ==
    ASSUME NEW st, Counts(st)
    PROVE  \E free : HandsOut(st, Allow(st), free)
<1> DEFINE n == Len(st.pending)
<1>1. n \in Nat /\ Room(st) \in Nat
    BY RoomIsLeft DEF Counts
<1>2. PICK after : Round(st, after, n) /\ Allow(st) = after[n].list
    BY <1>1, AllowIsRound
<1> DEFINE ceiling(i) == GivenTo(st, after[i-1], i)
           P(k) == k <= n => /\ after[k].free \in Nat
                             /\ after[k].list = [i \in 1..k |-> ceiling(i)]
                             /\ \A i \in 1..k : /\ ceiling(i) \in Nat
                                               /\ ceiling(i) + after[i].free = after[i-1].free
           Known == {k \in Nat : P(k)}
<1> HIDE DEF n
<1>3. after[0] = BeforeAny(st) /\ \A i \in 1..n : after[i] = Turn(st, after[i-1], i)
    BY <1>1, <1>2 DEF Round
<1>4. P(0)
    BY <1>1, <1>3 DEF BeforeAny
<1>5. ASSUME NEW k \in Nat, P(k) PROVE P(k + 1)
    <2> SUFFICES ASSUME k + 1 <= n
                 PROVE  /\ after[k+1].free \in Nat
                        /\ after[k+1].list = [i \in 1..(k+1) |-> ceiling(i)]
                        /\ \A i \in 1..(k+1) :
                              /\ ceiling(i) \in Nat
                              /\ ceiling(i) + after[i].free = after[i-1].free
        OBVIOUS
    <2>1. k <= n /\ k + 1 \in 1..n /\ k + 1 - 1 = k
        BY <1>1
    <2>2. /\ after[k].free \in Nat
          /\ after[k].list = [i \in 1..k |-> ceiling(i)]
          /\ \A i \in 1..k : ceiling(i) \in Nat /\ ceiling(i) + after[i].free = after[i-1].free
        BY <1>5, <2>1
    <2>3. after[k+1] = Turn(st, after[k], k + 1) /\ ceiling(k + 1) = GivenTo(st, after[k], k + 1)
        BY <1>3, <2>1
    <2> DEFINE c == GivenTo(st, after[k], k + 1)
    <2>4. c \in Nat /\ c <= after[k].free
        <3>1. Costed(st.pending[k+1])
            BY <2>1 DEF Counts, n
        <3> QED
            BY <2>2, <3>1, AllowanceWithinFree DEF GivenTo, NothingAside
    <2>5. after[k+1].free = after[k].free - c /\ after[k+1].list = Append(after[k].list, c)
        BY <2>3 DEF Turn
    <2> HIDE DEF c
    <2>6. after[k+1].free \in Nat /\ c + after[k+1].free = after[k].free
        BY <2>2, <2>4, <2>5
    <2>7. ceiling(k + 1) = c
        BY <2>3 DEF c
    <2> HIDE DEF ceiling
    <2>8. after[k+1].list = [i \in 1..(k+1) |-> ceiling(i)]
        <3>1. after[k].list \in Seq(Nat) /\ Len(after[k].list) = k
            BY <2>2
        <3>2. after[k+1].list \in Seq(Nat) /\ Len(after[k+1].list) = k + 1
            BY <2>4, <2>5, <3>1
        <3>3. ASSUME NEW i \in 1..(k+1) PROVE after[k+1].list[i] = ceiling(i)
            <4>1. CASE i = k + 1
                BY <2>4, <2>5, <2>7, <3>1, <4>1
            <4>2. CASE i \in 1..k
                BY <2>2, <2>4, <2>5, <3>1, <4>2
            <4> QED
                BY <4>1, <4>2
        <3>4. after[k+1].list \in [1..(k+1) -> Nat]
            BY <3>2
        <3> QED
            BY <3>3, <3>4
    <2>9. ASSUME NEW i \in 1..(k+1)
          PROVE  ceiling(i) \in Nat /\ ceiling(i) + after[i].free = after[i-1].free
        <3>1. CASE i = k + 1
            BY <2>1, <2>4, <2>6, <2>7, <3>1
        <3>2. CASE i \in 1..k
            BY <2>2, <3>2
        <3> QED
            BY <3>1, <3>2
    <2> QED
        BY <2>6, <2>8, <2>9
<1> HIDE DEF P
<1>6. 0 \in Known /\ Known \in SUBSET Nat /\ \A k \in Known : k + 1 \in Known
    BY <1>4, <1>5
<1> HIDE DEF Known
<1>7. Known = Nat
    BY <1>6, EveryNumber
<1>8. \A k \in 0..n : P(k)
    BY <1>1, <1>7 DEF Known
<1> DEFINE free == [k \in 0..n |-> after[k].free]
<1>9. free \in [0..n -> Nat]
    <2> SUFFICES ASSUME NEW k \in 0..n PROVE after[k].free \in Nat
        OBVIOUS
    <2>1. P(k) /\ k <= n
        BY <1>1, <1>8
    <2> QED
        BY <2>1 DEF P
<1>10. P(n) /\ n <= n
    BY <1>1, <1>8
<1>11. /\ Allow(st) = [i \in 1..n |-> ceiling(i)]
       /\ \A i \in 1..n : ceiling(i) \in Nat /\ ceiling(i) + after[i].free = after[i-1].free
    BY <1>2, <1>10 DEF P
<1> HIDE DEF ceiling
<1>12. free[0] = Room(st) /\ \A i \in 1..n : Allow(st)[i] + free[i] = free[i-1]
    BY <1>1, <1>3, <1>11 DEF BeforeAny
<1> HIDE DEF free
<1>13. HandsOut(st, Allow(st), free)
    BY <1>9, <1>11, <1>12 DEF HandsOut, n
<1> QED
    BY <1>13

\* A decision answers with nothing, or with a list of what is handed out; one
\* that carries on has a run going or starts one.
LEMMA DecisionHandsOut ==
    ASSUME NEW st, Counts(st), st.running \in Nat
    PROVE  LET decision == Decide(st)
           IN  /\ \/ decision.allowed = <<>>
                  \/ \E free : HandsOut(st, decision.allowed, free)
               /\ decision.kind = "stop" => decision.allowed = <<>>
               /\ decision.kind # "stop" => st.running # 0 \/ Starts(decision.allowed) # {}
<1> DEFINE none == [i \in DOMAIN st.pending |-> NothingAside]
           starting == IF st.time_left = 0 THEN none ELSE Allow(st)
           decision == Decide(st)
<1>1. \E free : HandsOut(st, none, free)
    <2> DEFINE free == [i \in 0..Len(st.pending) |-> Room(st)]
    <2>1. Room(st) \in Nat
        BY RoomIsLeft DEF Counts
    <2>2. HandsOut(st, none, free)
        BY <2>1 DEF HandsOut, Counts, NothingAside
    <2> QED
        BY <2>2
<1>2. \E free : HandsOut(st, starting, free)
    BY <1>1, AllowHandsOut
<1>3. \/ decision = Start(starting) /\ (st.running # 0 \/ Starts(starting) # {})
      \/ \E why : decision = Stop(why)
    BY Zenon DEF Decide
<1> HIDE DEF decision, starting
<1>4. \A why : Stop(why).allowed = <<>> /\ Stop(why).kind = "stop"
    BY DEF Stop
<1>5. Start(starting).allowed = starting /\ Start(starting).kind # "stop"
    BY DEF Start
<1> QED
    BY <1>2, <1>3, <1>4, <1>5 DEF decision
============================================================================
