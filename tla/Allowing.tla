------------------------------ MODULE Allowing ------------------------------
(***************************************************************************)
(* The loop of `allow`, one waiting task at a time, and the decision that  *)
(* is made from it (crates/cisternd/src/core/domain/supervision.rs:111-135 *)
(* and 249-286).  Deciding!Allow says in one expression what the loop comes*)
(* to, for the modules that ask for a whole decision; here the loop runs   *)
(* step by step and is held to that expression and to what a decision      *)
(* promises.                                                               *)
(***************************************************************************)
EXTENDS Deciding

CONSTANT Standings   \* how a session may stand

\* The figures a decision is made from.  Nothing else is asked of them: more
\* may be spent than was declared, and more booked than is left.
Figures == [declared : Nat, spent : Nat, booked : Nat, elapsed : Nat, time_left : Nat,
            running : Nat, blocked : BOOLEAN, unreadable : BOOLEAN, under : Policy,
            pending : Seq([cost : Seq(Nat), lasts : Seq(Nat)])]

ASSUME StandingsAssumption ==
    /\ \A st \in Standings : st \in Figures
    /\ \A st \in Standings : \A i \in DOMAIN st.pending :
          /\ Len(st.pending[i].cost) \in {0, 2}
          /\ Len(st.pending[i].lasts) \in {0, 2}

VARIABLES standing,   \* how the session stands
          at,         \* the waiting task that is asked about next
          free,       \* what is left to hand out
          list,       \* what each task asked about was allowed
          handed      \* what was handed out in all, which the code does not keep

vars == <<standing, at, free, list, handed>>

Init ==
    /\ standing \in Standings
    /\ at = 1
    /\ free = Room(standing)
    /\ list = <<>>
    /\ handed = 0

Waits == at <= Len(standing.pending)
Given == {i \in DOMAIN list : list[i] # NothingAside}
Alone == standing.running = 0 /\ Given = {}

\* What the task asked about would be set aside, if it may start.
Ceiling ==
    IF /\ FitsTheClock(standing, standing.pending[at])
       /\ FitsTheBudget(standing, standing.pending[at], Alone)
    THEN SetAside(standing.pending[at], free, Alone)
    ELSE NothingAside

\* A slip of the next: what is given is not taken from what is left.
Give_AndKeep ==
    /\ Waits /\ free # 0 /\ Ceiling # NothingAside
    /\ list' = Append(list, Ceiling)
    /\ handed' = handed + Ceiling
    /\ at' = at + 1
    /\ UNCHANGED <<standing, free>>

\* The task may start.
Give ==
    /\ Waits /\ free # 0 /\ Ceiling # NothingAside
    /\ list' = Append(list, Ceiling)
    /\ handed' = handed + Ceiling
    /\ free' = free - Ceiling
    /\ at' = at + 1
    /\ UNCHANGED standing

\* A slip of the next: a task that cannot start ends the round.
PassOver_EndsTheRound ==
    /\ Waits /\ free # 0 /\ Ceiling = NothingAside
    /\ list' = list \o [i \in 1..(Len(standing.pending) - at + 1) |-> NothingAside]
    /\ at' = Len(standing.pending) + 1
    /\ UNCHANGED <<standing, free, handed>>

\* The task may not, and does not answer for the ones behind it.
PassOver ==
    /\ Waits /\ free # 0 /\ Ceiling = NothingAside
    /\ list' = Append(list, NothingAside)
    /\ at' = at + 1
    /\ UNCHANGED <<standing, free, handed>>

\* Nothing is left to hand out, which answers for every task behind.
Break ==
    /\ Waits /\ free = 0
    /\ list' = list \o [i \in 1..(Len(standing.pending) - at + 1) |-> NothingAside]
    /\ at' = Len(standing.pending) + 1
    /\ UNCHANGED <<standing, free, handed>>

Next == Give \/ PassOver \/ Break

Spec == Init /\ [][Next]_vars

----------------------------------------------------------------------------

Done == ~ Waits

TypeOK ==
    /\ standing \in Standings
    /\ at \in Nat \ {0}
    /\ free \in Nat
    /\ handed \in Nat

\* "What holds the session to what it declared is the first line: what is
\* left, less what the runs already going are allowed" (supervision.rs:97-98):
\* the round never hands out more than that, however wrong every figure is.
WithinRoom == handed <= Room(standing)

\* What is handed out and what is left are always what there was.
Balanced == handed + free = Room(standing)

Inductive == TypeOK /\ Balanced

\* A task that was passed over will not be covered by what is left.
PassedOver ==
    /\ list \in Seq(Nat) /\ Len(list) = at - 1 /\ at <= Len(standing.pending) + 1
    /\ \A i \in DOMAIN list :
           list[i] = NothingAside =>
               \/ free = 0
               \/ Allowance(standing, standing.pending[i], free, 1) = NothingAside

\* "What changes is that a task nobody can start no longer answers for the
\* rest" (supervision.rs:105-106): once the round is over, no task that was
\* passed over would be covered by what it left.  And "waiting for a task that
\* will never start is not carrying on" (supervision.rs:275-276): a session that
\* then carries on has a run going or starts one, since only a run's ending
\* brings the next decision.
NobodyLeftBehind ==
    Done =>
        /\ \A i \in DOMAIN list :
               list[i] = NothingAside /\ (Given # {} \/ standing.running > 0) =>
                   \/ free = 0
                   \/ Allowance(standing, standing.pending[i], free, 1) = NothingAside
        /\ list = Allow(standing)
        /\ Decide(standing).kind = "start" => standing.running > 0 \/ Given # {}
============================================================================
