------------------------------ MODULE Surfaces ------------------------------
(***************************************************************************)
(* Between a surface and a core: whether there is one to answer, how long  *)
(* one request holds a thread of its, what becomes of a command, and the   *)
(* one that asks more than once, which adds a task.  None keeps anything   *)
(* another reads, so a behaviour is one of one of them.                    *)
(***************************************************************************)
EXTENDS Cores, Requests, Commands, Adding

VARIABLE between   \* what a behaviour is about

surfacesVars == <<between, vars, requestVars, commandVars, addingVars>>

SomeInstruction == CHOOSE text \in Instructions : TRUE
SomeRepository == CHOOSE answers \in Repositories : TRUE

SomeCommand == Spoiling(CHOOSE t \in Typed : t.command = "tidy", "", "")

SurfacesInit ==
    /\ between \in {"cores", "request", "command", "adding"}
    /\ between # "cores" => sock = Nobody
    /\ between # "request" => message = "same"
    /\ between # "command" => command = SomeCommand /\ alike = TRUE
    /\ between # "adding" => /\ typed = SomeInstruction
                             /\ repo = SomeRepository
                             /\ force = FALSE
                             /\ terminal = FALSE
    /\ Init
    /\ RequestInit
    /\ CommandInit
    /\ AddingInit

IsBetween(name) == between = name /\ UNCHANGED between

CoresMove == IsBetween("cores") /\ Next /\ UNCHANGED <<requestVars, commandVars, addingVars>>
RequestMoves == IsBetween("request") /\ RequestNext /\ UNCHANGED <<vars, commandVars, addingVars>>
CommandMoves == IsBetween("command") /\ CommandNext /\ UNCHANGED <<vars, requestVars, addingVars>>
AddingMoves == IsBetween("adding") /\ AddingNext /\ UNCHANGED <<vars, requestVars, commandVars>>

SurfacesNext == CoresMove \/ RequestMoves \/ CommandMoves \/ AddingMoves

\* As module Cores has it, where a behaviour is about the cores: such a step
\* changes nothing else.
ForCores == between = "cores"

SurfacesFairly ==
    /\ \A c \in Core :
           /\ WF_vars(ForCores /\ CoreStep(c) /\ UNCHANGED <<surface, disturbed>>)
           /\ WF_vars(ForCores /\ Quit(c))
           /\ WF_vars(ForCores /\ HandlerExits(c))
    /\ \A s \in Surface : WF_vars(ForCores /\ SurfaceStep(s))

SurfacesSpec == SurfacesInit /\ [][SurfacesNext]_surfacesVars /\ SurfacesFairly
============================================================================
