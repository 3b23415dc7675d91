------------------------------- MODULE Stored -------------------------------
(***************************************************************************)
(* What a store says of one task, one session or one run, and what the     *)
(* core takes it for: a document of JSON values is read as text, the text  *)
(* as values, and what the core holds is written back the same way, whole, *)
(* whatever was changed of it (adapter/outbound/file, service/backlog.rs,  *)
(* service/sessions.rs).                                                   *)
(*                                                                         *)
(* A text is a row of pieces, a number and what follows it: "2h30m" is two,*)
(* a word is one with no number.  A value is a sequence of one, and one    *)
(* that is not there, or cannot be read, is the empty sequence.            *)
(***************************************************************************)
EXTENDS Integers, Sequences

CONSTANTS
    Documents,   \* what a store may hold of one of them
    Narrow,      \* the most a number of an identifier holds (u32)
    Wide         \* the most any number holds (u64)

NoNumber == -1
NoUnit == "nothing"
Piece(n, then) == [n |-> n, then |-> then]
Digits(n) == <<Piece(n, NoUnit)>>
Name(word) == <<Piece(NoNumber, word)>>

PieceType == [n : Nat \cup {NoNumber}, then : STRING]
TextType == Seq(PieceType)

----------------------------------------------------------------------------
(* A value of the file.                                                    *)

Json(sort, text) == [sort |-> sort, text |-> text]
Null == Json("null", Name("null"))

JsonType == [sort : {"null", "number", "string", "other"}, text : TextType]

\* `parse::<u64>` and `parse::<u32>`.
Number(text, most) ==
    IF Len(text) = 1 /\ text[1].then = NoUnit /\ text[1].n \in 0..most THEN <<text[1].n>> ELSE <<>>

\* A string keeps its contents, the rest is rendered as the file writes it.
AsText(value) == <<value.text>>
AsOptional(value) == IF value.sort = "null" THEN <<>> ELSE <<value.text>>

AsNumber(text) == Json(IF Number(text, Wide) = <<>> THEN "string" ELSE "number", text)
AsString(text) == Json("string", text)

----------------------------------------------------------------------------
(* The fields of an entry: those that are there, those that may be left    *)
(* out, those written as numbers, and how the core reads each; what is in  *)
(* no list is words.                                                       *)

Kind == {"task", "session", "run"}

TaskEntry ==
    [there    |-> {"id", "title", "instruction", "repository", "state"},
     optional |-> {"original", "branch", "after", "model", "session", "worktree",
                   "conversation", "started_at", "ended_at", "reason", "attempts",
                   "ceiling", "unreadable", "disposition"}]
TaskNumbers == {"id", "after", "session", "started_at", "ended_at", "attempts", "ceiling"}
TaskReads ==
    [id |-> "task", after |-> "task", state |-> "taskState", session |-> "session",
     started_at |-> "count", ended_at |-> "count", attempts |-> "number",
     ceiling |-> "count", disposition |-> "disposition"]

SessionEntry ==
    [there    |-> {"id", "state", "usage", "time", "started_at", "consumed", "updated_at"},
     optional |-> {"stopped_reason", "model", "limit_at_start", "limit_last_seen", "resets_at"}]
SessionNumbers == {"id", "started_at", "limit_at_start", "limit_last_seen", "consumed",
                   "updated_at", "resets_at"}
SessionReads ==
    [id |-> "session", state |-> "sessionState", stopped_reason |-> "stoppedReason",
     usage |-> "usage", time |-> "time", started_at |-> "count", consumed |-> "count",
     updated_at |-> "count", limit_at_start |-> "count", limit_last_seen |-> "count",
     resets_at |-> "count"]

\* A run stays text in the core, but for its figures.
RunEntry ==
    [there    |-> {"task", "started_at", "ended_at", "outcome"},
     optional |-> {"session", "model", "reason", "said", "turns", "unreadable", "ceiling",
                   "limit_before", "limit_after", "limit_after_at"}]
RunNumbers == {"started_at", "ended_at", "turns", "ceiling", "limit_before", "limit_after",
               "limit_after_at"}
RunReads == [f \in {} |-> "words"]

EntryOf(kind) == CASE kind = "task" -> TaskEntry [] kind = "session" -> SessionEntry
                   [] kind = "run" -> RunEntry
Fields(kind) == EntryOf(kind).there \cup EntryOf(kind).optional
Numbers(kind) == CASE kind = "task" -> TaskNumbers [] kind = "session" -> SessionNumbers
                   [] kind = "run" -> RunNumbers
SortsOf(kind) == CASE kind = "task" -> TaskReads [] kind = "session" -> SessionReads
                 [] kind = "run" -> RunReads
ReadAs(kind, f) == IF f \in DOMAIN SortsOf(kind) THEN SortsOf(kind)[f] ELSE "words"

\* What a run consumed, an entry of its own in a task and in a run.
Figure == {"input", "output", "cache_written", "cache_read", "cost"}

DocumentType(kind) ==
    [kind : {kind}, fields : [Fields(kind) -> JsonType], counted : Seq([Figure -> JsonType])]

ASSUME StoredAssumption ==
    /\ {Narrow, Wide} \subseteq Nat
    /\ \A text \in Documents : \E kind \in Kind : text \in DocumentType(kind)

----------------------------------------------------------------------------
(* The values of the domain, from text and to it.                          *)

TaskStates == {"Pending", "Running", "Completed", "Interrupted", "Error"}
Dispositions == {"applied", "discarded"}
SessionStates == {"running", "stopped"}
StoppedReasons == {"budget hardlock", "vendor limit", "observation unreadable", "interrupted",
                  "all done", "nothing fits", "blocked", "error"}

OneOf(words, text) ==
    IF Len(text) = 1 /\ text[1].n = NoNumber /\ text[1].then \in words THEN <<text>> ELSE <<>>

\* An identifier with its label or without.
Unlabelled(text, label) ==
    IF Len(text) > 1 /\ text[1] = Piece(NoNumber, label) THEN Tail(text) ELSE text

Share(n) == [of |-> "share", n |-> n]
Tokens(n) == [of |-> "tokens", n |-> n]

\* What `--usage` is given, and what is written of it.
Scale(unit) == CASE unit = "K" -> 1000 [] unit = "M" -> 1000000 [] OTHER -> 1

Usage(text) ==
    LET n == text[1].n
        unit == text[1].then
        given == Len(text) = 1 /\ n # NoNumber
    IN  CASE given /\ unit = "%" -> IF n \in 1..100 THEN <<Share(n)>> ELSE <<>>
          [] given /\ unit \in {"K", "M", NoUnit} ->
                IF n > 0 /\ n <= Wide \div Scale(unit) THEN <<Tokens(n * Scale(unit))>> ELSE <<>>
          [] OTHER -> <<>>

ShowUsage(usage) == <<Piece(usage.n, IF usage.of = "share" THEN "%" ELSE NoUnit)>>

Units == <<"h", "m", "s">>
Seconds(h, m, s) == 3600 * h + 60 * m + s

\* How many of a unit a text says, where it says any.
CountOf(text, unit) ==
    LET those == {i \in DOMAIN text : text[i].then = unit}
    IN  IF those = {} THEN 0 ELSE text[CHOOSE i \in those : TRUE].n

\* Hours, then minutes, then seconds, each at most once and one at least.
Span(text) ==
    LET at(i, u) == text[i].then = Units[u]
        seconds == Seconds(CountOf(text, "h"), CountOf(text, "m"), CountOf(text, "s"))
    IN  IF /\ \A i \in DOMAIN text : text[i].n # NoNumber /\ \E u \in 1..3 : at(i, u)
           /\ \A i, j \in DOMAIN text : i < j => \E u, v \in 1..3 : at(i, u) /\ at(j, v) /\ u < v
           /\ seconds \in 1..Wide
        THEN <<seconds>> ELSE <<>>

\* A count is said where there is one.
SaidOf(n, unit) == IF n > 0 THEN <<Piece(n, unit)>> ELSE <<>>
NoTime == <<Piece(0, "s")>>

\* A slip of the next: the minutes past an hour are not left out of it.
ShowSpan_AllMinutes(seconds) ==
    IF seconds = 0 THEN NoTime
    ELSE SaidOf(seconds \div 3600, "h") \o SaidOf(seconds \div 60, "m")
             \o SaidOf(seconds % 60, "s")

\* The shortest spelling.
ShowSpan(seconds) ==
    IF seconds = 0 THEN NoTime
    ELSE SaidOf(seconds \div 3600, "h") \o SaidOf((seconds % 3600) \div 60, "m")
             \o SaidOf(seconds % 60, "s")

Parse(sort, text) ==
    CASE sort = "task" -> Number(Unlabelled(text, "task:"), Narrow)
      [] sort = "session" -> Number(Unlabelled(text, "session:"), Narrow)
      [] sort = "number" -> Number(text, Narrow)
      [] sort = "count" -> Number(text, Wide)
      [] sort = "taskState" -> OneOf(TaskStates, text)
      [] sort = "disposition" -> OneOf(Dispositions, text)
      [] sort = "sessionState" -> OneOf(SessionStates, text)
      [] sort = "stoppedReason" -> OneOf(StoppedReasons, text)
      [] sort = "usage" -> Usage(text)
      [] sort = "time" -> Span(text)
      [] OTHER -> <<text>>

Display(sort, value) ==
    CASE sort \in {"task", "session", "number", "count"} -> Digits(value)
      [] sort = "usage" -> ShowUsage(value)
      [] sort = "time" -> ShowSpan(value)
      [] OTHER -> value

----------------------------------------------------------------------------
(* One entry.  A document is [kind, fields, counted], `counted` the five   *)
(* figures or the empty sequence.  A record is the same, of values.        *)

\* What a field of the document comes to: nothing where it is left out.
Optional(kind, f, value) ==
    LET text == IF f \in EntryOf(kind).there THEN AsText(value) ELSE AsOptional(value)
    IN  IF text = <<>> THEN <<>> ELSE Parse(ReadAs(kind, f), text[1])

\* A field that says something the core cannot read refuses the whole store.
Unread(kind, f, value) ==
    /\ Optional(kind, f, value) = <<>>
    /\ f \in EntryOf(kind).there \/ value.sort # "null"

Attempts(value) == IF value = <<>> THEN <<0>> ELSE value

\* Two answers to one question: what was consumed, and that it cannot be read.
Both(document) == document.counted # <<>> /\ document.fields["unreadable"] # Null

\* A task's figures are counts, a run's stay text.
FigureAs(kind) == IF kind = "task" THEN "count" ELSE "words"

Figures(document) ==
    IF document.counted = <<>> THEN <<>>
    ELSE <<[g \in Figure |-> Parse(FigureAs(document.kind), document.counted[1][g].text)]>>

Readable(document) ==
    /\ \A f \in Fields(document.kind) : ~Unread(document.kind, f, document.fields[f])
    /\ document.kind = "task" => ~Both(document)
    /\ document.counted # <<>> => \A g \in Figure : Figures(document)[1][g] # <<>>

ReadOut(document) ==
    [kind    |-> document.kind,
     fields  |-> [f \in Fields(document.kind) |->
                     IF f = "attempts" THEN Attempts(Optional(document.kind, f, document.fields[f]))
                     ELSE Optional(document.kind, f, document.fields[f])],
     counted |-> Figures(document)]

\* What is left out: what says nothing, and attempts there were none of.
Left(kind, f, value) == value = <<>> \/ (f = "attempts" /\ value = <<0>>)

WrittenField(kind, f, value) ==
    LET text == Display(ReadAs(kind, f), value[1])
    IN  IF Left(kind, f, value) THEN Null
        ELSE IF f \in Numbers(kind) THEN AsNumber(text) ELSE AsString(text)

\* Both halves of what was consumed, of which one is nothing.
WrittenBack(record) ==
    [kind    |-> record.kind,
     fields  |-> [f \in Fields(record.kind) |-> WrittenField(record.kind, f, record.fields[f])],
     counted |-> IF record.counted = <<>> THEN <<>>
                 ELSE <<[g \in Figure |->
                            AsNumber(Display(FigureAs(record.kind), record.counted[1][g][1]))]>>]

----------------------------------------------------------------------------

VARIABLES
    document,    \* what the store says
    record,      \* what the core made of it, a sequence of one once it did
    reading      \* "kept", "read", "refused" or "written"

storedVars == <<document, record, reading>>

StoredInit(documents) ==
    /\ document \in documents
    /\ record = <<>>
    /\ reading = "kept"

\* The store is read whole, and one that cannot be is left as it is.
ReadIt ==
    /\ reading \in {"kept", "written"}
    /\ IF Readable(document)
       THEN record' = <<ReadOut(document)>> /\ reading' = "read"
       ELSE reading' = "refused" /\ UNCHANGED record
    /\ UNCHANGED document

\* A change made to another entry writes this one back with it.
WriteIt ==
    /\ reading = "read"
    /\ document' = WrittenBack(record[1])
    /\ reading' = "written"
    /\ UNCHANGED record

StoredNext == ReadIt \/ WriteIt

StoredSpec == StoredInit(Documents) /\ [][StoredNext]_storedVars

----------------------------------------------------------------------------

\* "One spelling is read and written" (task.rs:218, session.rs:192), and a
\* time is "the shortest spelling that reads back as the same length of time"
\* (session.rs:313): whatever a store said that the core could read, it can
\* read again once it wrote it, and reads the same, however it was spelled.
ReadsAsWritten ==
    /\ record # <<>> => reading # "refused"
    /\ reading = "written" =>
          /\ Readable(document)
          /\ ReadOut(document) = record[1]
          /\ WrittenBack(ReadOut(document)) = document
============================================================================
