------------------------------ MODULE MCFiles ------------------------------
(* Module Files on small instances. *)
EXTENDS Files

CONSTANTS k1, k2, a1, a2, a3, w1, w2

MCTwoThreads == {k1, k2}
MCThreeChanges == {a1, a2, a3}
MCTwoChanges == {a1, a2}
MCInodes == 1..4
MCTwoWriters == {w1, w2}

MCTask == [id : 1..3, after : 0..3]
MCLists == UNION {[1..n -> MCTask] : n \in 0..3}
MCNoLists == {<<>>}

(* Every entry of a store with one field of it as it may be: a number, one   *)
(* too large to be an identifier and one too large for anything, words that  *)
(* some field takes, a value of another sort, and spellings, short and long, *)
(* of an identifier, a usage and a time.  Narrow and Wide are the least that *)
(* tell those apart.                                                         *)
Num(n) == Json("number", Digits(n))
Said(text) == Json("string", text)
Word(word) == Said(Name(word))

MCValues ==
    {Null, Num(0), Num(3), Num(9), Num(30000), Json("other", Name("true")),
     Said(Digits(3)), Said(Digits(30000)), Said(Digits(0) \o Digits(3))}
    \cup {Word(word) : word \in {"a word", "Pending", "Running", "running", "stopped",
                                 "applied", "all done"}}
    \cup {Said(<<Piece(NoNumber, label)>> \o Digits(3)) : label \in {"task:", "session:"}}
    \cup {Said(<<Piece(NoNumber, "task:")>>)}
    \cup {Said(<<Piece(n, unit)>>) : n \in {0, 2, 30, 90}, unit \in {"%", "K", "M", "h", "m", "s"}}
    \cup {Said(<<Piece(1, "h"), Piece(n, unit)>>) : n \in {0, 30, 60}, unit \in {"m", "s"}}
    \cup {Said(<<Piece(30, "m"), Piece(1, "h")>>),
          Said(<<Piece(2, "h"), Piece(60, "m"), Piece(61, "s")>>)}

MCWritten(kind) ==
    CASE kind = "task" ->
            [id |-> Num(1), title |-> Word("a word"), instruction |-> Word("a word"),
             repository |-> Word("a word"), state |-> Word("Pending")]
      [] kind = "session" ->
            [id |-> Num(1), state |-> Word("running"), usage |-> Said(<<Piece(5, "%")>>),
             time |-> Said(<<Piece(1, "h")>>), started_at |-> Num(1), consumed |-> Num(0),
             updated_at |-> Num(1)]
      [] kind = "run" ->
            [task |-> Said(Digits(1)), started_at |-> Num(1), ended_at |-> Num(2),
             outcome |-> Word("Completed")]
MCOtherwise(f) ==
    CASE f = "disposition" -> Word("applied") [] f = "stopped_reason" -> Word("all done")
      [] OTHER -> Num(3)

MCEntry(kind, rest(_)) ==
    [f \in Fields(kind) |-> IF f \in DOMAIN MCWritten(kind) THEN MCWritten(kind)[f] ELSE rest(f)]
MCSparse(kind) == MCEntry(kind, LAMBDA f : Null)
MCFull(kind) == MCEntry(kind, MCOtherwise)

MCCounted ==
    {[g \in Figure |-> IF g = "input" THEN v ELSE Num(0)] :
        v \in {Null, Num(3), Num(30000), Said(Digits(3)), Word("a word")}}

MCSays(kind, fields, counted) == [kind |-> kind, fields |-> fields, counted |-> counted]
MCDocuments ==
    UNION {{MCSays(kind, [entry EXCEPT ![f] = v], <<>>) :
               entry \in {MCSparse(kind), MCFull(kind)}, f \in Fields(kind), v \in MCValues} :
           kind \in Kind}
    \cup {MCSays(kind, [MCSparse(kind) EXCEPT !["unreadable"] = v], <<c>>) :
              v \in {Null, Word("a word")}, c \in MCCounted, kind \in {"task", "run"}}
MCNoDocuments == {MCSays("task", MCSparse("task"), <<>>)}
============================================================================
