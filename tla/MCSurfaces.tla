---------------------------- MODULE MCSurfaces ----------------------------
(* Module Surfaces on small instances. *)
EXTENDS Surfaces, TLC

----------------------------------------------------------------------------
(* The cores.                                                              *)

CONSTANTS s1, s2, s3, c1

MCOneSurface == {s1}
MCTwoSurfaces == {s1, s2}
MCOneCore == {c1}

MCAnything == {"kill", "stop", "failure", "deadline"}
MCEarly == {"early stop"}
MCStop == {"stop"}
MCDeadline == {"deadline"}

----------------------------------------------------------------------------
(* Adding a task.                                                          *)

\* A file, one whose name begins in a mark, a directory of many, a name that
\* reaches nothing; a command that fails, one that passes, one that goes on;
\* and sentences, which nobody has a program for.
MCWord == {"file", "config", "many", "gone", "fails", "passes", "lasting", "it", "line", "stop"}
Plain(w) == [word |-> w, marked |-> FALSE]
InMarks(w) == [word |-> w, marked |-> TRUE]

\* Later the file was removed and the work was done.
MCRepositories == {"as it is", "moved"}
MCTracked ==
    [state \in MCRepositories |->
        Plain("many") :> 3 @@ InMarks("config") :> 1
            @@ (IF state = "moved" THEN <<>> ELSE Plain("file") :> 1)]
MCPrograms ==
    [state \in MCRepositories |->
        Plain("passes") :> "passes" @@ Plain("lasting") :> "goes on"
            @@ Plain("fails") :> (IF state = "moved" THEN "passes" ELSE "fails")]

Marked(words) == [words |-> words, marked |-> TRUE]
Names(p, w) == Text(p, Says({w}))
OnWith(w) == Text(NoPart, Says({w}))
Blank == Text(NoPart, Says({}))

\* A loose line; a document that settles all but one or two parts, with lines
\* before the first part, after a blank line, and under a heading.
MCInstructions ==
    {<<OnWith("line")>>,
     <<OnWith("line"), Text("goal", Says({})), Text(NoPart, Marked({"it"})), OnWith("line"), Blank,
       OnWith("it"), Names("place", "file"), Text("doneWhen", Marked({"fails"})),
       Names("onFailure", "stop"), Names("scope", "it")>>,
     <<Names("goal", "it"), OnWith("line"), Names("place", "many"), Names("doneWhen", "passes"),
       Names("scope", "it")>>}

\* What a line of a model's answer says; two of them name no part at all, or
\* name one twice.
AsIs(w) == [word |-> w, marks |-> "none"]
InCode(w) == [word |-> w, marks |-> "code"]
ItsOwn(w) == [word |-> w, marks |-> "its own"]
Of(p, of, says) == <<[names |-> p, of |-> of, says |-> says]>>
Is(p, w) == Of(p, "said", {AsIs(w)})
CouldBe(p, says) == Of(p, "others", says)

\* A place with a choice; one that has marks of its own; none said, and two
\* in code to choose from; one that is nowhere.
MCPlaces == {Is("place", "file") \o CouldBe("place", {AsIs("many")}),
             Of("place", "said", {ItsOwn("config")}) \o CouldBe("place", {InCode("file")}),
             CouldBe("place", {InCode("file"), AsIs("gone")}),
             CouldBe("place", {AsIs("file"), ItsOwn("config")}),
             Is("place", "gone")}
MCDone == {Of("doneWhen", "said", {InCode("fails")}),
           Is("doneWhen", "passes") \o CouldBe("doneWhen", {AsIs("fails")})}
MCDrafts ==
    {<<>>}
    \cup {Is("goal", "it") \o place \o done \o Is("onFailure", "stop")
              \o Is("scope", "it") \o Is("scope", "line") :
              place \in MCPlaces, done \in MCDone}
    \cup {Is("goal", "line") \o Is("doneWhen", "fails") \o Is("scope", "it")}

MCTypable == [p \in Part |-> CASE p = "place" -> {Says({"file"}), Marked({"file"}), Says({"gone"})}
                               [] p = "doneWhen" -> {Says({"fails"}), Says({"lasting"})}
                               [] OTHER -> {Says({"it"})}]
============================================================================
