------------------------------- MODULE Cores -------------------------------
(***************************************************************************)
(* One core per machine: processes of `cisternd` that start, take the      *)
(* lock, clear the socket a dead one left, bind one and serve              *)
(* (cistern-contract/src/exchange.rs, address.rs, cisternd/src/main.rs),   *)
(* what ends them (platform/signal.rs), and the command lines that start   *)
(* one when nothing answers (cistern/src/daemon.rs).                       *)
(*                                                                         *)
(* One step is one call to the system.  A command line and the core it     *)
(* would start go by one name, which is used again once both are gone.     *)
(***************************************************************************)
EXTENDS FiniteSets

CONSTANTS Surface,     \* command lines, each with the core it may start
          ByHand,      \* cores somebody starts without one
          Ends,        \* what may end a core here
          Nobody, Left \* no process; a socket whose core is gone

ASSUME NameAssumption ==
    /\ Surface \cap ByHand = {}
    /\ Nobody \notin Surface \cup ByHand
    /\ Left \notin Surface \cup ByHand
    /\ Nobody # Left
ASSUME EndsAssumption == Ends \subseteq {"kill", "stop", "early stop", "failure", "deadline"}

VARIABLES pc,        \* where each core has come to
          handler,   \* how far its signal handler has come
          lock,      \* who holds the lock
          sock,      \* whose socket is on the path
          at,        \* where each command line has come to
          to,        \* the core it is connected to
          stopped,   \* the command lines that saw the core they started stop
          disturbed  \* those under way when a core was brought to an end

core == <<pc, handler, lock, sock>>
surface == <<at, to, stopped>>
vars == <<core, surface, disturbed>>

Core == Surface \cup ByHand

\* What a core runs through; the lock is held from "exists" on.
Starting == {"loading", "locking"}
Opening == {"exists", "probing", "removing", "binding"}
Bound == {"bound", "serving"}
PC == {"off", "quitting"} \cup Starting \cup Opening \cup Bound

\* A command line under way, and one that is not.
UnderWay == {"asking", "waiting", "looking", "judging", "connected"}
Over == {"idle", "answered", "broken", "gave up"}

Init ==
    /\ pc = [c \in Core |-> "off"]
    /\ handler = [c \in Core |-> "none"]
    /\ lock = Nobody
    /\ sock \in {Nobody, Left}
    /\ at = [s \in Surface |-> "idle"]
    /\ to = [s \in Surface |-> Nobody]
    /\ stopped = {}
    /\ disturbed = {}

----------------------------------------------------------------------------
(* A core. *)

Goes(c, label) == pc' = [pc EXCEPT ![c] = label]

\* The handler is set before anything else is done.
Starts(c) == Goes(c, "loading") /\ handler' = [handler EXCEPT ![c] = "set"]

\* `?` out of `listen` lets the lock go, and `quit` ends the process.
GivesUp(c) ==
    /\ Goes(c, "quitting")
    /\ lock' = IF lock = c THEN Nobody ELSE lock

\* Whether a connection to what is on the path is taken.
Answers(f) == f \in Core /\ pc[f] = "serving"

StartByHand(c) ==
    /\ pc[c] = "off"
    /\ Starts(c)
    /\ UNCHANGED <<lock, sock>>

\* The stores, the configuration and the definition, any of which may be
\* missing, and the directory.
Load(c) ==
    /\ pc[c] = "loading"
    /\ Goes(c, "locking")
    /\ UNCHANGED <<handler, lock, sock>>

LoadFails(c) ==
    /\ "failure" \in Ends
    /\ pc[c] = "loading"
    /\ GivesUp(c)
    /\ disturbed' = disturbed \cup {s \in Surface : at[s] \in UnderWay}
    /\ UNCHANGED <<handler, sock, surface>>

\* A slip of the next: who holds the lock is not asked.
HoldAlone_Anyway(c) ==
    /\ pc[c] = "locking"
    /\ Goes(c, "exists")
    /\ lock' = c
    /\ UNCHANGED <<handler, sock>>

\* `hold_alone`
HoldAlone(c) ==
    /\ pc[c] = "locking"
    /\ IF lock = Nobody THEN Goes(c, "exists") /\ lock' = c ELSE GivesUp(c)
    /\ UNCHANGED <<handler, sock>>

\* `clear_if_dead`: the path, the connection, the removal.
Exists(c) ==
    /\ pc[c] = "exists"
    /\ Goes(c, IF sock = Nobody THEN "binding" ELSE "probing")
    /\ UNCHANGED <<handler, lock, sock>>

\* A slip of the next: whatever is there belongs to somebody.
Probe_Trusting(c) ==
    /\ pc[c] = "probing"
    /\ GivesUp(c)
    /\ UNCHANGED <<handler, sock>>

Probe(c) ==
    /\ pc[c] = "probing"
    /\ IF Answers(sock) THEN GivesUp(c) ELSE Goes(c, "removing") /\ UNCHANGED lock
    /\ UNCHANGED <<handler, sock>>

RemoveDead(c) ==
    /\ pc[c] = "removing"
    /\ IF sock = Nobody THEN GivesUp(c) ELSE Goes(c, "binding") /\ UNCHANGED lock
    /\ sock' = Nobody
    /\ UNCHANGED handler

\* `listen_at`: binding fails over a file that is there; until it listens, a
\* core that is bound refuses connections.
Bind(c) ==
    /\ pc[c] = "binding"
    /\ IF sock = Nobody THEN Goes(c, "bound") /\ sock' = c /\ UNCHANGED lock
                        ELSE GivesUp(c) /\ UNCHANGED sock
    /\ UNCHANGED handler

Listen(c) ==
    /\ pc[c] = "bound"
    /\ Goes(c, "serving")
    /\ UNCHANGED <<handler, lock, sock>>

\* What the end of a process leaves: no lock, and the socket if it was there.
Gone(c) ==
    /\ Goes(c, "off")
    /\ handler' = [handler EXCEPT ![c] = "none"]
    /\ lock' = IF lock = c THEN Nobody ELSE lock
    /\ sock' = IF sock = c THEN Left ELSE sock

\* The handler takes away whatever socket is on the path.
HandlerRemoves(c) ==
    /\ handler[c] = "asked"
    /\ handler' = [handler EXCEPT ![c] = "removed"]
    /\ sock' = Nobody
    /\ UNCHANGED <<pc, lock>>

CoreStep(c) ==
    \/ Load(c) \/ HoldAlone(c) \/ Exists(c) \/ Probe(c) \/ RemoveDead(c)
    \/ Bind(c) \/ Listen(c) \/ HandlerRemoves(c)

----------------------------------------------------------------------------
(* What ends a core, and who notices. *)

\* Connections to it break, and who is under way may have counted on it.
Breaks(c) ==
    /\ at' = [s \in Surface |->
                IF at[s] = "connected" /\ to[s] = c THEN "broken" ELSE at[s]]
    /\ disturbed' = disturbed \cup {s \in Surface : at[s] \in UnderWay}
    /\ UNCHANGED <<to, stopped>>

\* A core that did not come to serve ends by itself, and nothing breaks.
Quit(c) ==
    /\ pc[c] = "quitting"
    /\ Gone(c)
    /\ disturbed' = IF handler[c] # "set"
                    THEN disturbed \cup {s \in Surface : at[s] \in UnderWay} ELSE disturbed
    /\ UNCHANGED surface

Kill(c) ==
    /\ "kill" \in Ends
    /\ pc[c] # "off"
    /\ Gone(c) /\ Breaks(c)

\* A signal is an "early" one where it reaches a core without the lock.
Signal(c) ==
    /\ pc[c] # "off" /\ handler[c] = "set"
    /\ IF lock = c THEN "stop" \in Ends ELSE "early stop" \in Ends
    /\ handler' = [handler EXCEPT ![c] = "asked"]
    /\ UNCHANGED <<pc, lock, sock, surface, disturbed>>

HandlerExits(c) ==
    /\ handler[c] = "removed"
    /\ Gone(c) /\ Breaks(c)

----------------------------------------------------------------------------
(* A command line: `ask`. *)

Moves(s, label) == at' = [at EXCEPT ![s] = label]

\* A command is given; the name is free.
Command(s) ==
    /\ at[s] \in Over
    /\ pc[s] = "off"
    /\ Moves(s, "asking")
    /\ to' = [to EXCEPT ![s] = Nobody]
    /\ stopped' = stopped \ {s}
    /\ disturbed' = disturbed \ {s}
    /\ UNCHANGED core

Connects(s) ==
    /\ Answers(sock)
    /\ Moves(s, "connected")
    /\ to' = [to EXCEPT ![s] = sock]
    /\ UNCHANGED <<core, stopped, disturbed>>

\* The first asking; with nobody listening, a core is started.
Ask(s) ==
    /\ at[s] = "asking"
    /\ \/ Connects(s)
       \/ /\ ~ Answers(sock)
          /\ Starts(s)
          /\ Moves(s, "waiting")
          /\ UNCHANGED <<lock, sock, to, stopped, disturbed>>

\* The loop: asked again, whether the core that was started stopped, and the
\* time.
AskAgain(s) ==
    /\ at[s] = "waiting"
    /\ \/ Connects(s)
       \/ /\ ~ Answers(sock)
          /\ Moves(s, "looking")
          /\ UNCHANGED <<core, to, stopped, disturbed>>

TryWait(s) ==
    /\ at[s] = "looking"
    /\ Moves(s, "judging")
    /\ stopped' = IF pc[s] = "off" THEN stopped \cup {s} ELSE stopped
    /\ UNCHANGED <<core, to, disturbed>>

GoOn(s) ==
    /\ at[s] = "judging"
    /\ Moves(s, "waiting")
    /\ UNCHANGED <<core, to, stopped, disturbed>>

\* The deadline: a core not seen to stop is killed, whatever it has come to.
GiveUp(s) ==
    /\ "deadline" \in Ends
    /\ at[s] = "judging"
    /\ IF s \in stopped \/ pc[s] = "off"
       THEN Moves(s, "gave up") /\ UNCHANGED <<core, disturbed>>
       ELSE /\ Gone(s)
            /\ at' = [u \in Surface |->
                        IF u = s THEN "gave up"
                        ELSE IF at[u] = "connected" /\ to[u] = s THEN "broken" ELSE at[u]]
            /\ disturbed' = disturbed \cup {u \in Surface : at[u] \in UnderWay}
    /\ UNCHANGED <<to, stopped>>

Answer(s) ==
    /\ at[s] = "connected"
    /\ Moves(s, "answered")
    /\ UNCHANGED <<core, to, stopped, disturbed>>

SurfaceStep(s) == Ask(s) \/ AskAgain(s) \/ TryWait(s) \/ GoOn(s) \/ Answer(s)

----------------------------------------------------------------------------

Next ==
    \/ \E c \in Core :
          \/ CoreStep(c) /\ UNCHANGED <<surface, disturbed>>
          \/ LoadFails(c) \/ Quit(c) \/ Kill(c) \/ Signal(c) \/ HandlerExits(c)
    \/ \E c \in ByHand : StartByHand(c) /\ UNCHANGED <<surface, disturbed>>
    \/ \E s \in Surface : Command(s) \/ SurfaceStep(s) \/ GiveUp(s)

Spec == Init /\ [][Next]_vars

\* A process goes on, and so does the command line; nothing makes anybody
\* give a command, send a signal or run out of time.
Fairness ==
    /\ \A c \in Core : WF_vars(CoreStep(c) /\ UNCHANGED <<surface, disturbed>>)
                       /\ WF_vars(Quit(c)) /\ WF_vars(HandlerExits(c))
    /\ \A s \in Surface : WF_vars(SurfaceStep(s))

FairSpec == Spec /\ Fairness

----------------------------------------------------------------------------

TypeOK ==
    /\ pc \in [Core -> PC]
    /\ handler \in [Core -> {"none", "set", "asked", "removed"}]
    /\ lock \in Core \cup {Nobody}
    /\ sock \in Core \cup {Nobody, Left}
    /\ at \in [Surface -> UnderWay \cup Over]
    /\ to \in [Surface -> Core \cup {Nobody}]
    /\ stopped \subseteq Surface
    /\ disturbed \subseteq Surface

\* "Being the only core is what makes" the stores' locks hold
\* (docs/ipc.md:24): whoever opens the socket or serves holds the lock.
LockHeld == \A c \in Core : pc[c] \in Opening \cup Bound <=> lock = c

\* What is on the path is a dead core's or the holder's, and the holder knows
\* which: nobody but a core that was asked to stop takes it away.
Path ==
    /\ sock \in Core => pc[sock] \in Bound
    /\ \A c \in Core :
          /\ handler[c] = "asked" => lock = c
          /\ pc[c] = "binding" => sock = Nobody
          /\ pc[c] \in {"probing", "removing"} /\ handler[c] # "removed" => sock # Nobody
          /\ pc[c] \in Bound /\ handler[c] # "removed" => sock = c

\* A core that a command line may start is not there while it first asks.
Named == \A s \in Surface : at[s] = "asking" => pc[s] = "off"

\* What every step keeps: that one core at a time opens the socket and
\* serves, whoever is ended how, and what is on the path where signals reach
\* no core that has yet to take the lock.
Inductive == TypeOK /\ LockHeld /\ Named /\ ("early stop" \notin Ends => Path)

\* "Two doing it at once each read the other's half-bound socket as dead and
\* each take it away" (exchange.rs:75-77): a core that serves, and that nobody
\* has asked to stop, is the one a command line reaches.
ServingIsReachable ==
    \A c \in Core : pc[c] = "serving" /\ handler[c] = "set" => sock = c

\* "Two commands starting at once each start a core, and the one that loses
\* ends with what it could not take [...] and the winner answers both"
\* (daemon.rs:63-64): a command is answered unless some core was brought to an
\* end meanwhile, or its own time ran out.
Answered ==
    \A s \in Surface :
        at[s] = "asking" ~> at[s] \in {"answered", "gave up"} \/ s \in disturbed

----------------------------------------------------------------------------
(* What the repository says of the processes and they do not keep. *)

\* "A core that took the stores and is still starting is the one thing that
\* will answer, and a command that gave up is not reason enough to take that
\* away from the next one" (daemon.rs:86-88): giving up ends no core that has
\* the stores.
GivingUpEndsNoCore ==
    [][\A s \in Surface :
          at[s] = "judging" /\ at'[s] = "gave up" => (lock = s => lock' = s)]_vars

\* "It stopped because another one holds the stores, which is to say because
\* an answer is coming from somewhere" (daemon.rs:66-68), where no time runs
\* out and no core is killed.
AnswerIsComing ==
    \A s \in Surface : s \in stopped /\ at[s] = "waiting" ~> at[s] \in {"answered", "broken"}
============================================================================
