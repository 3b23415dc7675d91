------------------------------ MODULE Commands ------------------------------
(***************************************************************************)
(* One command, from what a person typed to what a use case is handed, and *)
(* from what that came to to the code the command line ends on.  What the  *)
(* command line takes, what a surface writes into a request and what the   *)
(* core reads out of one are three tables, kept apart.                     *)
(***************************************************************************)
EXTENDS Naturals, Sequences

GENERAL_FAILURE == 1
USAGE_ERROR == 2
NOT_FOUND == 3
STATE_CONFLICT == 4
CORE_ERROR == 5

----------------------------------------------------------------------------
(* What is typed.  A word given for an argument goes by the argument's name.*)

Takes(needs, may, flags) == [needs |-> needs, may |-> may, flags |-> flags]

Arguments ==
    [config_set |-> Takes({"key", "value"}, {}, {}),
     config_get |-> Takes({}, {"key"}, {}),
     task_add |-> Takes({"title", "instruction"}, {"branch", "after", "model"}, {"force"}),
     task_rm |-> Takes({"task"}, {}, {}),
     task_show |-> Takes({"task"}, {}, {}),
     backlog |-> Takes({}, {}, {}),
     trace |-> Takes({"task"}, {"since"}, {"follow"}),
     interrupt |-> Takes({}, {}, {}),
     session_ls |-> Takes({}, {"page", "limit"}, {}),
     session_show |-> Takes({"session"}, {}, {}),
     diff |-> Takes({"task"}, {}, {"stat"}),
     review_ls |-> Takes({}, {}, {}),
     apply |-> Takes({"task"}, {}, {}),
     discard |-> Takes({"task"}, {}, {}),
     retry |-> Takes({"task"}, {}, {}),
     resume |-> Takes({"task"}, {}, {}),
     tidy |-> Takes({}, {}, {}),
     run |-> Takes({"usage", "time"}, {"model"}, {}),
     core_version |-> Takes({}, {}, {})]

TypedFor(command) ==
    LET takes == Arguments[command]
    IN  {[command |-> command, given |-> takes.needs \cup some, raised |-> flags] :
            some \in SUBSET takes.may, flags \in SUBSET takes.flags}

\* The second asking of `task add` says what the first one said.
SaidFirst(t) == [t EXCEPT !.given = @ \cup {"original"}]

Typed == UNION {TypedFor(command) : command \in DOMAIN Arguments}
             \cup {SaidFirst(t) : t \in TypedFor("task_add")}

----------------------------------------------------------------------------
(* What a surface writes.                                                  *)

Value(sort, says) == [sort |-> sort, says |-> says]
Str(word) == Value("string", word)
Flag(raised) == Value("flag", IF raised THEN "yes" ELSE "no")
Null == Value("null", "")
Other == Value("other", "")

\* An argument nobody gave is written as null.
WrittenOut(t, fields) == [f \in fields |-> IF f \in t.given THEN Str(f) ELSE Null]

AddSends(t) ==
    LET asked == WrittenOut(t, {"cwd", "title", "instruction", "original", "branch", "after",
                             "model", "force"})
    IN  [asked EXCEPT !["cwd"] = Str("cwd"), !["force"] = Flag("force" \in t.raised)]

\* Nothing given is the beginning, and `--follow` is the surface's own.
TraceSends(t) == [f \in {"task", "since"} |-> Str(IF f \in t.given THEN f ELSE "")]

TaskSends(t) ==
    CASE t.command = "task_add" -> AddSends(t)
      [] t.command = "trace" -> TraceSends(t)
      [] t.command = "backlog" -> WrittenOut(t, {})
      [] OTHER -> WrittenOut(t, {"task"})

SessionSends(t) ==
    CASE t.command = "run" -> WrittenOut(t, {"usage", "time", "model"})
      [] t.command = "session_ls" -> WrittenOut(t, {"page", "limit"})
      [] t.command = "session_show" -> WrittenOut(t, {"session"})
      [] OTHER -> WrittenOut(t, {})

ReviewSends(t) == WrittenOut(t, IF t.command \in {"review_ls", "tidy"} THEN {} ELSE {"task"})

ConfigSends(t) == WrittenOut(t, IF t.command = "config_set" THEN {"key", "value"} ELSE {"key"})

\* Which part of the surface a command is.
Sends(t) ==
    CASE t.command \in {"config_set", "config_get"} -> ConfigSends(t)
      [] t.command \in {"task_add", "task_rm", "task_show", "backlog", "trace"} -> TaskSends(t)
      [] t.command \in {"run", "interrupt", "session_ls", "session_show"} -> SessionSends(t)
      [] t.command = "core_version" -> WrittenOut(t, {})
      [] OTHER -> ReviewSends(t)

----------------------------------------------------------------------------
(* What the core reads.                                                    *)

Asks(name, arguments) == [asks |-> name, with |-> arguments]
NoUseCase == Asks("nobody", [f \in {} |-> {}])

\* A field when it holds a string, and nothing otherwise.
TextOf(params, f) == {params[g].says : g \in {h \in DOMAIN params \cap {f} :
                                                params[h].sort = "string"}}

\* Present and neither a string nor null.
Malformed(params, f) == f \in DOMAIN params /\ params[f].sort \notin {"string", "null"}

\* A flag that is absent or null is down; any other value cannot be read.
FlagRead(params, f) == IF f \notin DOMAIN params \/ params[f] = Null THEN {"no"}
                       ELSE IF params[f].sort = "flag" THEN {params[f].says} ELSE {}

\* Who is asked, when what the command needs is there.
Needing(params, needs, may, name) ==
    IF \E f \in needs : TextOf(params, f) = {} THEN NoUseCase
    ELSE Asks(name, [f \in needs \cup may |-> TextOf(params, f)])

\* A group that owns a command says who is asked; any other says nothing.
ConfigurationResponds(type, params) ==
    CASE type = "config_set" -> {Needing(params, {"key", "value"}, {}, "set")}
      [] type = "config_get" ->
             {IF Malformed(params, "key") THEN NoUseCase ELSE Needing(params, {}, {"key"}, "get")}
      [] OTHER -> {}

AddResponds(params) ==
    LET needs == {"cwd", "title", "instruction"}
        may == {"original", "branch", "after", "model"}
    IN  IF FlagRead(params, "force") = {} \/ Needing(params, needs, may, "add") = NoUseCase THEN NoUseCase
        ELSE Asks("add", [f \in needs \cup may \cup {"force"} |->
                             IF f = "force" THEN FlagRead(params, f) ELSE TextOf(params, f)])

BacklogResponds(type, params) ==
    CASE type = "task_add" -> {AddResponds(params)}
      [] type = "task_rm" -> {Needing(params, {"task"}, {}, "remove")}
      [] type = "task_show" -> {Needing(params, {"task"}, {}, "show")}
      [] type = "backlog" -> {Needing(params, {}, {}, "list")}
      [] OTHER -> {}

RunResponds(params) ==
    IF Malformed(params, "model") THEN NoUseCase
    ELSE Needing(params, {"usage", "time"}, {"model"}, "run")

ExecutionResponds(type, params) ==
    CASE type = "run" -> {RunResponds(params)}
      [] type = "session_ls" -> {Needing(params, {}, {"page", "limit"}, "sessions")}
      [] type = "session_show" -> {Needing(params, {"session"}, {}, "session")}
      [] type = "trace" -> {Needing(params, {"task"}, {"since"}, "trace")}
      [] type = "interrupt" -> {Needing(params, {}, {}, "interrupt")}
      [] OTHER -> {}

ReviewResponds(type, params) ==
    CASE type \in {"diff", "apply", "discard", "retry", "resume"} ->
             {Needing(params, {"task"}, {}, type)}
      [] type = "review_ls" -> {Needing(params, {}, {}, "queue")}
      [] type = "tidy" -> {Needing(params, {}, {}, "tidy")}
      [] OTHER -> {}

\* No two groups own one name, so the order they are offered it in does not
\* matter; one that none owns asks nobody.
Hears(type, params) ==
    LET owned == ConfigurationResponds(type, params) \cup BacklogResponds(type, params)
                     \cup ExecutionResponds(type, params) \cup ReviewResponds(type, params)
    IN  IF owned = {} THEN NoUseCase ELSE CHOOSE asks \in owned : TRUE

Refusal == {"UnknownKey", "BadValue", "NoSuchTask", "NoSuchSession", "NotPending",
            "NotARepository", "AlreadyRunning", "NoSessionRunning", "NothingToAssign", "NotEnded",
            "Uncommitted", "NoChange", "AlreadyApplied", "Conflicts", "NoResult", "NoRepository",
            "Unavailable"}

CodeFor(refusal) ==
    CASE refusal \in {"UnknownKey", "BadValue"} -> USAGE_ERROR
      [] refusal \in {"NoSuchTask", "NoSuchSession"} -> NOT_FOUND
      [] refusal \in {"NothingToAssign", "NoChange", "AlreadyApplied", "Conflicts", "NoResult",
                      "NoRepository"} -> GENERAL_FAILURE
      [] refusal = "Unavailable" -> CORE_ERROR
      [] OTHER -> STATE_CONFLICT

----------------------------------------------------------------------------

VARIABLES
    command,     \* what was typed, and the field of it another surface spoils
    step,        \* "asking", "waiting", "sent", "answered", "broken" or "ended"
    alike,       \* whether the surface and the core are of one version
    handed,      \* what use cases were handed
    response,    \* "data", "empty", a refusal, or what the envelope decides
    ended        \* the code the command ended on

commandVars == <<command, step, alike, handed, response, ended>>

\* The request: a surface that is not this one may get one field of it wrong.
Params ==
    LET right == Sends(command)
    IN  CASE command.spoilt = "" -> right
          [] command.as = "absent" -> [f \in DOMAIN right \ {command.spoilt} |-> right[f]]
          [] OTHER -> [right EXCEPT ![command.spoilt] =
                          CASE command.as = "null" -> Null
                            [] command.as = "word" -> Str("another")
                            [] command.as = "flag" -> Flag(TRUE)
                            [] OTHER -> Other]

Spoiling(t, f, as) == [command |-> t.command, given |-> t.given, raised |-> t.raised,
                       spoilt |-> f, as |-> as]

CommandInit ==
    /\ \/ \E t \in Typed : command = Spoiling(t, "", "")
       \/ \E t \in Typed : /\ t.raised = {}
                           /\ \E f \in DOMAIN Sends(t), as \in {"absent", "null", "word", "flag", "other"} :
                                  command = Spoiling(t, f, as)
    /\ step = "asking"
    /\ alike \in BOOLEAN
    /\ handed = <<>>
    /\ response = ""
    /\ ended = 0

\* With nobody listening a core is started, unless the version is asked for;
\* starting one can fail.
FindNobody ==
    /\ step = "asking"
    /\ \/ /\ command.command # "core_version"
          /\ step' = "waiting"
          /\ UNCHANGED ended
       \/ step' = "ended" /\ ended' = CORE_ERROR
    /\ UNCHANGED <<command, alike, handed, response>>

Connect ==
    /\ step \in {"asking", "waiting"}
    /\ step' = "sent"
    /\ UNCHANGED <<command, alike, handed, response, ended>>

GiveUpWaiting ==
    /\ step = "waiting"
    /\ step' = "ended" /\ ended' = CORE_ERROR
    /\ UNCHANGED <<command, alike, handed, response>>

\* The version is answered whoever asks; anything else only a surface of one
\* version with the core.
Settles ==
    /\ step = "sent"
    /\ step' = "answered"
    /\ LET asks == Hears(command.command, Params)
       IN  CASE command.command = "core_version" -> response' = "data" /\ UNCHANGED handed
             [] command.command # "core_version" /\ ~alike ->
                    response' = "another version" /\ UNCHANGED handed
             [] OTHER ->
                    IF asks = NoUseCase THEN response' = "not understood" /\ UNCHANGED handed
                    ELSE /\ handed' = Append(handed, asks)
                         /\ \/ response' \in {"data"} \cup Refusal
                            \/ asks.asks = "diff" /\ response' = "empty"
    /\ UNCHANGED <<command, alike, ended>>

\* The core is gone before it answered, or before the answer was read.
ExchangeBreaks ==
    /\ step \in {"sent", "answered"}
    /\ step' = "broken"
    /\ UNCHANGED <<command, alike, handed, response, ended>>

\* A core of another version answers with its own, and that is a failure.
VersionExits == IF alike THEN 0 ELSE CORE_ERROR

\* No changes to show is a failure the surface makes of an answer.
DiffExits == IF response = "empty" THEN GENERAL_FAILURE ELSE 0

\* An answer is a success, and a refusal ends on the code it carries.
Exits ==
    IF command.command = "core_version" THEN VersionExits
    ELSE CASE response \in {"data", "empty"} -> DiffExits
           [] response = "not understood" -> USAGE_ERROR
           [] response = "another version" -> CORE_ERROR
           [] OTHER -> CodeFor(response)

HearBack ==
    /\ step = "answered"
    /\ step' = "ended" /\ ended' = Exits
    /\ UNCHANGED <<command, alike, handed, response>>

\* A slip of the next: any failure is taken for nobody listening.
HearNothing_AskAgain ==
    /\ step = "broken"
    /\ step' = "waiting"
    /\ UNCHANGED <<command, alike, handed, response, ended>>

\* Only nobody listening is answered by asking again.
HearNothing ==
    /\ step = "broken"
    /\ step' = "ended" /\ ended' = CORE_ERROR
    /\ UNCHANGED <<command, alike, handed, response>>

CommandNext == FindNobody \/ Connect \/ GiveUpWaiting \/ Settles \/ ExchangeBreaks \/ HearBack \/ HearNothing

----------------------------------------------------------------------------

\* What a word typed for an argument, or the field spoiled, comes to.
Meant(f) ==
    IF f # command.spoilt
    THEN IF f = "cwd" \/ f \in command.given THEN {f}
         ELSE IF f = "since" THEN {""} ELSE {}
    ELSE IF command.as = "word" THEN {"another"} ELSE {}

\* A use case is handed a command once at most, whatever the surface tries
\* again (daemon.rs:50), every word of it as the argument it was typed for and
\* nothing for one that was not given, and never without what the command
\* cannot do without (docs/ipc.md:54-58).  A command ends well only when it was
\* carried out, and one that nothing was asked for ends on a bad argument or on
\* a core that did not answer.
UnderstoodOnce ==
    /\ Len(handed) <= 1
    /\ handed # <<>> =>
           LET with == handed[1].with
           IN  /\ \A f \in DOMAIN with : f # "force" => with[f] = Meant(f)
               /\ Arguments[command.command].needs \cup command.given \subseteq DOMAIN with
               /\ \A f \in Arguments[command.command].needs : with[f] # {}
               /\ "force" \in DOMAIN with /\ command.spoilt # "force" =>
                      ("yes" \in with["force"]) = ("force" \in command.raised)
    /\ step = "ended" /\ ended \notin {USAGE_ERROR, CORE_ERROR} =>
           command.command = "core_version" \/ handed # <<>>
    /\ step = "ended" /\ ended = USAGE_ERROR /\ handed = <<>> => command.spoilt # ""

\* "A string argument of another type is read as one nobody gave: a command
\* that needs it refuses with code 2, and a command that does not carries on
\* without it" (docs/ipc.md:58).
CarriesOnWithout ==
    step = "ended" /\ ended = USAGE_ERROR /\ handed = <<>> =>
        command.spoilt \in Arguments[command.command].needs \cup {"cwd", "force"}
============================================================================
