------------------------------ MODULE Requests ------------------------------
(***************************************************************************)
(* One exchange, as the core sees it: a surface that connected and may     *)
(* send its request whole, in pieces, or never, and the thread that waits  *)
(* for it.  Time passes only while that thread waits.                      *)
(***************************************************************************)
EXTENDS Naturals, Sequences

CONSTANTS
    Within,      \* how long a connection has to send its request
    Longest      \* the most pieces a surface sends

ASSUME WithinAssumption == Within \in Nat

\* What a surface may send: a request of this version or another, one that
\* asks for the core's version, or no request at all.
Message == {"same", "other", "version", "garbage"}

VARIABLES
    exchange,    \* "reading", "waiting", "settling", or how it ended
    clock,       \* how long it has been
    until,       \* when the read that waits expires
    message,     \* what the surface has to say
    unread,      \* the pieces sent and not yet read: "part" or "end"
    line,        \* the pieces read
    sends,       \* how many it sent
    closed,      \* whether the surface is gone
    reached      \* whether a use case was asked

requestVars == <<exchange, clock, until, message, unread, line, sends, closed, reached>>

RequestInit ==
    /\ exchange = "reading"
    /\ clock = 0
    /\ until = 0
    /\ message \in Message
    /\ unread = <<>>
    /\ line = <<>>
    /\ sends = 0
    /\ closed = FALSE
    /\ reached = FALSE

----------------------------------------------------------------------------
(* The surface.                                                            *)

\* One piece, the last of them the end of the line.
Send ==
    /\ ~closed /\ sends < Longest
    /\ "end" \notin {unread[i] : i \in DOMAIN unread} \cup {line[i] : i \in DOMAIN line}
    /\ \E piece \in {"part", "end"} : unread' = Append(unread, piece)
    /\ sends' = sends + 1
    /\ UNCHANGED <<exchange, clock, until, message, line, closed, reached>>

Leave ==
    /\ ~closed
    /\ closed' = TRUE
    /\ UNCHANGED <<exchange, clock, until, message, unread, line, sends, reached>>

----------------------------------------------------------------------------
(* The core.                                                               *)

\* A slip of the next: each read has the whole time.
TimeLeft_Whole == Within

TimeLeft == IF clock < Within THEN Within - clock ELSE 0

\* The time left is worked out again before every read.
BeginRead ==
    /\ exchange = "reading"
    /\ exchange' = IF TimeLeft = 0 THEN "expired" ELSE "waiting"
    /\ until' = clock + TimeLeft
    /\ UNCHANGED <<clock, message, unread, line, sends, closed, reached>>

\* What one read brought, up to the end of the line.
TakePieces ==
    /\ exchange = "waiting" /\ unread # <<>>
    /\ \E n \in 1..Len(unread) :
           /\ line' = line \o SubSeq(unread, 1, n)
           /\ unread' = SubSeq(unread, n + 1, Len(unread))
    /\ exchange' = IF line'[Len(line')] = "end" THEN "settling" ELSE "reading"
    /\ UNCHANGED <<clock, until, message, sends, closed, reached>>

\* Nothing came while there was time, or a signal interrupted the read.
ReadBringsNothing ==
    /\ exchange = "waiting" /\ unread = <<>> /\ ~closed
    /\ exchange' = "reading"
    /\ UNCHANGED <<clock, until, message, unread, line, sends, closed, reached>>

\* Closed without a word or part way through a line: neither is a request.
FindItGone ==
    /\ exchange = "waiting" /\ unread = <<>> /\ closed
    /\ exchange' = "nothing"
    /\ UNCHANGED <<clock, until, message, unread, line, sends, closed, reached>>

\* What the envelope alone decides, and what it passes on.
SettleIt ==
    /\ exchange = "settling"
    /\ reached' = (message = "same")
    /\ exchange' = IF message \in {"same", "version"} THEN "answered" ELSE "refused"
    /\ UNCHANGED <<clock, until, message, unread, line, sends, closed>>

\* Time passes until the read expires.
Tick ==
    /\ exchange = "waiting" /\ clock < until
    /\ clock' = clock + 1
    /\ UNCHANGED <<exchange, until, message, unread, line, sends, closed, reached>>

CoreReads == BeginRead \/ TakePieces \/ FindItGone \/ SettleIt
RequestNext == Send \/ Leave \/ CoreReads \/ ReadBringsNothing \/ Tick
RequestSpec == RequestInit /\ [][RequestNext]_requestVars

----------------------------------------------------------------------------

RequestTypeOK ==
    /\ exchange \in {"reading", "waiting", "settling", "expired", "nothing", "answered", "refused"}
    /\ clock \in Nat /\ until \in Nat /\ sends \in Nat
    /\ message \in Message
    /\ unread \in Seq({"part", "end"})
    /\ line \in Seq({"part", "end"})
    /\ closed \in BOOLEAN /\ reached \in BOOLEAN

\* "The whole line has to arrive within the time given, not each piece of it"
\* (exchange.rs:149): a surface that sends a piece at a time holds the thread
\* no longer than one that sends nothing; and a use case is only asked what
\* arrived whole from a surface of this version.
HeldNoLonger ==
    /\ clock <= Within
    /\ reached => line[Len(line)] = "end" /\ message = "same"

\* No read waits beyond the time given, and what is settled is a line that
\* came to its end.
RequestInductive ==
    /\ RequestTypeOK
    /\ HeldNoLonger
    /\ until <= Within
    /\ exchange = "settling" => line[Len(line)] = "end"
    /\ reached => exchange = "answered"
============================================================================
