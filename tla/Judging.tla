------------------------------ MODULE Judging ------------------------------
(***************************************************************************)
(* What a session is judged by: the round over what waits, the sizes that  *)
(* the ledger's runs come to, the policies a person chose, and the looks   *)
(* at the vendor's limit.  None of them changes what another keeps - a     *)
(* decision takes its figures and its policies as they are - so a          *)
(* behaviour is one of one of them.                                        *)
(***************************************************************************)
EXTENDS Allowing, Sizing, Configuring, Looking

VARIABLE judged   \* what a behaviour is about

judgingVars == <<judged, vars, sizingVars, confVars, lookVars>>

SomeStanding == CHOOSE st \in Standings : TRUE

JudgingInit ==
    /\ judged \in {"round", "sizes", "policies", "looks"}
    /\ judged # "round" => standing = SomeStanding
    /\ judged # "sizes" => unit = "tokens"
    /\ Init
    /\ SizingInit
    /\ ConfInit
    /\ LookInit

IsJudged(name) == judged = name /\ UNCHANGED judged

RoundMoves == IsJudged("round") /\ Next /\ UNCHANGED <<sizingVars, confVars, lookVars>>
SizesMove == IsJudged("sizes") /\ SizingNext /\ UNCHANGED <<vars, confVars, lookVars>>
PoliciesMove == IsJudged("policies") /\ ConfNext /\ UNCHANGED <<vars, sizingVars, lookVars>>

LooksMove == IsJudged("looks") /\ LookNext /\ UNCHANGED <<vars, sizingVars, confVars>>

JudgingNext == RoundMoves \/ SizesMove \/ PoliciesMove \/ LooksMove

\* A worker goes on with its look, which gives up when its time is over, and a
\* program whose terminal is gone ends; neither changes anything else.
JudgingFairly ==
    \A l \in Look : /\ WF_lookVars(judged = "looks" /\ LookStep(l))
                    /\ WF_lookVars(judged = "looks" /\ HangsUp(l))

JudgingSpec == JudgingInit /\ [][JudgingNext]_judgingVars /\ JudgingFairly
============================================================================
