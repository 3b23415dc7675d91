------------------------------- MODULE Traces -------------------------------
(***************************************************************************)
(* The trace of one task (adapter/outbound/file/trace.rs): what its runs   *)
(* write, a line at a time, at the end of one file, and a command line     *)
(* that reads it from a cursor on and asks again                           *)
(* (core/service/execution.rs and cistern/src/task.rs, `trace`).           *)
(*                                                                         *)
(* `writeln!` on a file nothing buffers is a call to the system for each   *)
(* piece of a line: the time, a tab, what was said, and its end.  A piece  *)
(* is a byte here but for what was said, which is a byte or more.          *)
(***************************************************************************)
EXTENDS Naturals, Sequences, FiniteSets

CONSTANTS LastLine,     \* lines the runs write between them
          Longest,      \* the most bytes that are said on one
          AtMost,       \* AT_MOST, the bytes one read answers with
          MostRuns,     \* runs of the task
          MayInterrupt, \* whether a run may be interrupted
          MayDie        \* whether the core may die

ASSUME TracesAssumption ==
    /\ {LastLine, MostRuns} \subseteq Nat
    /\ {Longest, AtMost} \subseteq Nat \ {0}
    /\ {MayInterrupt, MayDie} \subseteq BOOLEAN

VARIABLES trace,      \* the bytes of the file
          running,    \* whether the task is
          run,        \* how many runs there were
          pen,        \* what each run's reading thread has yet to write
          lines,      \* the lines begun, the length of what each says
          follower,   \* how far the command line has come
          shown       \* what it printed

file == <<trace, lines>>
traceVars == <<file, running, run, pen, follower, shown>>

Part == {"time", "tab", "said", "end"}
Byte(l, part) == [line |-> l, part |-> part]

NoPen == [at |-> "none", line |-> 0]

Resting == [at |-> "rest", follow |-> FALSE, since |-> 0, first |-> TRUE, cursor |-> 0,
            past |-> 0, done |-> FALSE, alone |-> TRUE, gone |-> FALSE]

TraceInit ==
    /\ trace = <<>>
    /\ running = FALSE
    /\ run = 0
    /\ pen = [r \in 1..MostRuns |-> NoPen]
    /\ lines = <<>>
    /\ follower = Resting
    /\ shown = <<>>

----------------------------------------------------------------------------
(* The runs. *)

Writing(r) == pen[r].at \in Part

RunBegins ==
    /\ ~ running
    /\ run < MostRuns
    /\ run' = run + 1
    /\ running' = TRUE
    /\ pen' = [pen EXCEPT ![run'].at = "open"]
    /\ UNCHANGED <<file, follower, shown>>

\* `keeping`: the next line the agent wrote.
LineBegins(r) ==
    /\ pen[r].at = "open"
    /\ Len(lines) < LastLine
    /\ \E n \in 1..Longest :
          /\ lines' = Append(lines, n)
          /\ pen' = [pen EXCEPT ![r] = [at |-> "time", line |-> Len(lines')]]
    /\ UNCHANGED <<trace, running, run, follower, shown>>

NextPart(part) ==
    CASE part = "time" -> "tab" [] part = "tab" -> "said" [] part = "said" -> "end"
      [] part = "end" -> "open"

\* One piece of the line.
PieceWritten(r) ==
    LET l == pen[r].line
        part == pen[r].at
    IN  /\ Writing(r)
        /\ trace' = trace \o [i \in 1..(IF part = "said" THEN lines[l] ELSE 1) |-> Byte(l, part)]
        /\ pen' = [pen EXCEPT ![r].at = NextPart(part)]
        /\ follower' = [follower EXCEPT !.alone = FALSE]
        /\ UNCHANGED <<lines, running, run, shown>>

\* The agent ended.  What it wrote has been read to its end before the task is
\* said to have ended; where the task was interrupted, it was said before, and
\* what is said now is said of whatever run is the task's.
RunIsOver(r) ==
    /\ pen[r].at = "open"
    /\ pen' = [pen EXCEPT ![r].at = "closed"]
    /\ running' = FALSE
    /\ UNCHANGED <<file, run, follower, shown>>

Interrupted ==
    /\ MayInterrupt
    /\ running
    /\ running' = FALSE
    /\ UNCHANGED <<file, run, pen, follower, shown>>

\* The core dies, and the task stays as running.  A question it was asked goes
\* unanswered; the next one is asked of the core that it starts.
Dies ==
    /\ MayDie
    /\ \E r \in 1..MostRuns : pen[r].at \notin {"none", "closed"}
    /\ pen' = [r \in 1..MostRuns |-> IF pen[r].at = "none" THEN NoPen
                                     ELSE [pen[r] EXCEPT !.at = "closed"]]
    /\ \/ /\ follower.at \in {"ask", "read", "past"}
          /\ follower' = [follower EXCEPT !.at = "finished", !.gone = TRUE]
       \/ /\ follower.at \in {"rest", "ask", "judge", "finished"}
          /\ UNCHANGED follower
    /\ UNCHANGED <<file, running, run, shown>>

----------------------------------------------------------------------------
(* Reading. *)

\* The bytes a read from a place answers with.
Chunk(from) ==
    LET to == IF from + AtMost < Len(trace) THEN from + AtMost ELSE Len(trace)
    IN  SubSeq(trace, from + 1, to)

Ends(chunk) == {i \in DOMAIN chunk : chunk[i].part = "end"}
LastEnd(chunk) == CHOOSE i \in Ends(chunk) : \A j \in Ends(chunk) : j <= i
FirstEnd(chunk) == CHOOSE i \in Ends(chunk) : \A j \in Ends(chunk) : j >= i

\* `event_in`: a line that is a time, a tab and the whole of what was said; the
\* time is not looked at.  Which line's words those are, or none's.
EventIn(line) ==
    LET tabs == {i \in DOMAIN line : line[i].part = "tab"}
        tab == CHOOSE i \in tabs : \A j \in tabs : i <= j
        said == SubSeq(line, tab + 1, Len(line) - 1)
    IN  IF /\ tabs # {}
           /\ said # <<>>
           /\ said = [i \in 1..lines[said[1].line] |-> Byte(said[1].line, "said")]
        THEN said[1].line ELSE 0

\* Where the line begins that a byte is of.
From(chunk, i) ==
    LET before == {j \in Ends(chunk) : j < i}
    IN  IF before = {} THEN 1
        ELSE 1 + CHOOSE j \in before : \A k \in before : k <= j

\* The event of the line that ends at a byte, or none.
EventAt(chunk, i) ==
    IF i \in Ends(chunk) THEN EventIn(SubSeq(chunk, From(chunk, i), i)) ELSE 0

\* `filter_map`: what there is of a row, in its order.
Told(row) ==
    LET upTo[i \in 0..Len(row)] ==
            IF i = 0 THEN <<>>
            ELSE IF row[i] = 0 THEN upTo[i - 1] ELSE Append(upTo[i - 1], row[i])
    IN  upTo[Len(row)]

\* The events of the lines that end in a chunk, in their order.
Events(chunk) == Told([i \in DOMAIN chunk |-> EventAt(chunk, i)])

Reads(change) == follower' = change

\* A person asks for the trace, from its start.
StartReading ==
    /\ follower.at = "rest"
    /\ \E follow \in BOOLEAN :
          Reads([Resting EXCEPT !.at = "ask", !.follow = follow])
    /\ UNCHANGED <<file, running, run, pen, shown>>

\* Whether the task runs is read before the trace is.
AskWhetherDone ==
    /\ follower.at = "ask"
    /\ Reads([follower EXCEPT !.at = "read", !.done = ~ running])
    /\ UNCHANGED <<file, running, run, pen, shown>>

\* A slip of the next: the cursor counts from where the read began.
ReadOn_Relative ==
    LET chunk == Chunk(follower.since)
    IN  /\ follower.at = "read"
        /\ IF Ends(chunk) # {}
           THEN /\ shown' = shown \o Events(chunk)
                /\ Reads([follower EXCEPT !.at = "judge", !.cursor = LastEnd(chunk)])
           ELSE /\ Reads([follower EXCEPT !.at = "past", !.past = follower.since + Len(chunk)])
                /\ UNCHANGED shown
        /\ UNCHANGED <<file, running, run, pen>>

\* A slip of the next: what was read is what was shown.
ReadOn_AllOfIt ==
    LET chunk == Chunk(follower.since)
    IN  /\ follower.at = "read"
        /\ shown' = shown \o Events(chunk)
        /\ Reads([follower EXCEPT !.at = "judge", !.cursor = follower.since + Len(chunk)])
        /\ UNCHANGED <<file, running, run, pen>>

\* `read`: the lines that end in what one read answers, or a step over the one
\* that does not.
ReadOn ==
    \E chunk \in {Chunk(follower.since)} :
        /\ follower.at = "read"
        /\ IF Ends(chunk) # {}
           THEN /\ shown' = shown \o Events(chunk)
                /\ Reads([follower EXCEPT !.at = "judge",
                                          !.cursor = follower.since + LastEnd(chunk)])
           ELSE /\ Reads([follower EXCEPT !.at = "past", !.past = follower.since + Len(chunk)])
                /\ UNCHANGED shown
        /\ UNCHANGED <<file, running, run, pen>>

\* `past_the_line`, one read of it.
PastTheLine ==
    \E chunk \in {Chunk(follower.past)} :
        /\ follower.at = "past"
        /\ Reads(IF chunk = <<>> THEN [follower EXCEPT !.at = "judge", !.cursor = follower.past, !.past = 0]
                 ELSE IF Ends(chunk) # {}
                 THEN [follower EXCEPT !.at = "judge", !.past = 0,
                                       !.cursor = follower.past + FirstEnd(chunk)]
                 ELSE [follower EXCEPT !.past = @ + Len(chunk)])
        /\ UNCHANGED <<file, running, run, pen, shown>>

\* Asked again from where it stopped, at once where the cursor moved (the first
\* one is no cursor yet) and in a while where the task still runs.
Judge ==
    /\ follower.at = "judge"
    /\ LET moved == follower.first \/ follower.cursor # follower.since
       IN  Reads([follower EXCEPT
                    !.at = IF moved \/ (follower.follow /\ ~ follower.done)
                           THEN "ask" ELSE "finished",
                    !.since = follower.cursor, !.first = FALSE])
    /\ UNCHANGED <<file, running, run, pen, shown>>

ReadStep == AskWhetherDone \/ ReadOn \/ PastTheLine \/ Judge

RunStep(r) == PieceWritten(r) \/ RunIsOver(r)

TraceNext ==
    \/ RunBegins \/ Interrupted \/ Dies \/ StartReading \/ ReadStep
    \/ \E r \in 1..MostRuns : LineBegins(r) \/ RunStep(r)

----------------------------------------------------------------------------

TraceSpec == TraceInit /\ [][TraceNext]_traceVars

TraceTypeOK ==
    /\ trace \in Seq([line : 1..LastLine, part : Part])
    /\ lines \in Seq(1..Longest) /\ Len(lines) <= LastLine
    /\ running \in BOOLEAN
    /\ run \in 0..MostRuns
    /\ pen \in [1..MostRuns -> [at : {"none", "open", "closed"} \cup Part, line : 0..LastLine]]
    /\ follower \in [at : {"rest", "ask", "read", "past", "judge", "finished"}, follow : BOOLEAN,
                      since : 0..Len(trace), first : BOOLEAN, cursor : 0..Len(trace),
                      past : 0..Len(trace), done : BOOLEAN, alone : BOOLEAN, gone : BOOLEAN]
    /\ shown \in Seq(1..LastLine)

\* The event of the line that ends at a byte, where one read can hold the line.
FittingAt(i) == IF i - From(trace, i) < AtMost THEN EventAt(trace, i) ELSE 0

\* The lines of the file that one read can hold, as they stand: up to a byte,
\* and all of them.
FittingTo(last) == Told([i \in 1..last |-> FittingAt(i)])
Fitting == FittingTo(Len(trace))

\* "A line longer than one read holds [...] is stepped over" (trace.rs:137-138)
\* and "does not stop the rest": a reading during which nobody writes shows every
\* line a read can hold, whatever lies between them.
ShowsWhatFits ==
    follower.at = "finished" /\ follower.alone /\ ~ follower.gone => shown = Fitting

\* A cursor carries on from where the last read stopped: whoever writes while
\* it is read, no line is shown twice.
ShownOnce == \A i, j \in DOMAIN shown : shown[i] = shown[j] => i = j

\* Why: what a line says is in the file once, in one piece, and before that the
\* line has one pen.
SaidOnce ==
    /\ \A p \in DOMAIN trace : trace[p].line \in DOMAIN lines
    /\ \A p, q \in DOMAIN trace :
          trace[p] = trace[q] /\ trace[p].part = "said" => q - p < lines[trace[p].line]
    /\ \A r \in 1..MostRuns : Writing(r) =>
          /\ pen[r].line \in DOMAIN lines
          /\ pen[r].at # "end" => \A p \in DOMAIN trace : trace[p] # Byte(pen[r].line, "said")
          /\ \A o \in 1..MostRuns : Writing(o) /\ pen[o].line = pen[r].line => o = r

\* How far the reading has come; what was shown is from before that.
Come == IF follower.at = "judge" THEN follower.cursor ELSE follower.since

SaidFrom(l, p) ==
    \A j \in 1..lines[l] : p + j \in DOMAIN trace /\ trace[p + j] = Byte(l, "said")

ShownCameBefore ==
    /\ follower.at = "past" => follower.past >= follower.since
    /\ \A k \in DOMAIN shown :
          /\ shown[k] \in DOMAIN lines
          /\ \E p \in 0..Len(trace) : p + lines[shown[k]] <= Come /\ SaidFrom(shown[k], p)

\* While nobody writes, a reading stands between two lines or at the end of the
\* file, and has shown what fits up to there; what it steps over does not fit.
StandsAtALine(p) == p = 0 \/ p = Len(trace) \/ p \in Ends(trace)

ShownSoFar ==
    /\ follower.at = "rest" => shown = <<>>
    /\ follower.at # "rest" /\ follower.alone /\ ~ follower.gone =>
          /\ shown = FittingTo(Come)
          /\ StandsAtALine(Come)
          /\ follower.at = "past" =>
                /\ \A i \in Ends(trace) : i <= follower.since \/ i > follower.past
                /\ follower.past >= follower.since + AtMost \/ follower.past = Len(trace)
          /\ follower.at = "judge" /\ follower.cursor = follower.since => Come = Len(trace)
          /\ follower.at = "finished" => Come = Len(trace)

TracesInductive ==
    TraceTypeOK /\ SaidOnce /\ ShownCameBefore /\ ShownOnce /\ ShownSoFar

\* "Reading again from where this stopped would never finish" (trace.rs:138): a
\* reading comes to its end, and a following one too once the task has ended.
ReadingEnds ==
    follower.at = "ask" ~> follower.at = "finished" \/ (running /\ follower.follow)

----------------------------------------------------------------------------
(* What the repository says of a trace and it does not keep. *)

\* "Half a line is not an event. What is left starts the next read"
\* (trace.rs:134-135): a following that saw one run to its end has shown every
\* line a read can hold.
FollowingMissesNothing ==
    follower.at = "finished" /\ follower.follow /\ follower.done /\ ~ running
        => shown = Fitting

\* `done` is "true once the task is terminal and the trace can no longer grow"
\* (docs/cli.md:544).
DoneIsTheEnd ==
    [][follower.done /\ follower.at # "rest" /\ run' = run => trace' = trace]_traceVars
============================================================================
