---------------------------- MODULE MCRepository ----------------------------
(***************************************************************************)
(* What a core has git do in a person's repository: the work area of a     *)
(* finished task is taken away, and a result is put into the files.  Each  *)
(* is a call that takes its time and may fail half way, on files that      *)
(* others change too.  Neither keeps anything the other reads, so a        *)
(* behaviour is one of one of them.                                        *)
(***************************************************************************)
EXTENDS Tidying, Applying, TLC

VARIABLE does   \* what a behaviour is about

repositoryVars == <<does, vars, applyVars>>

RepositoryInit ==
    /\ does \in {"tidying", "applying"}
    /\ Init
    /\ ApplyInit

Does(what) == does = what /\ UNCHANGED does

TidyingMoves == Does("tidying") /\ Next /\ UNCHANGED applyVars
ApplyingMoves == Does("applying") /\ ApplyNext /\ UNCHANGED vars

RepositoryNext == TidyingMoves \/ ApplyingMoves

RepositorySpec == RepositoryInit /\ [][RepositoryNext]_repositoryVars

----------------------------------------------------------------------------
(* Two tasks and two threads asked to tidy; one result of two files, which *)
(* its runs and a person write.                                            *)

CONSTANTS x1, x2, w1, w2, r1, f1, f2, old, one, marred, latin, bytes

MCIds == {1, 2}
MCTidiers == {x1, x2}
MCWorkers == {w1, w2}
MCRuns == {1}
MCResult == {r1}
MCFile == {f1, f2}
MCContent == {old, one, marred, latin, bytes}
MCText == {old, one, marred}
MCBinary == {bytes}
MCLossy == [c \in {latin} |-> marred]
MCSymmetry == Permutations(MCTidiers) \cup Permutations(MCWorkers) \cup Permutations(MCFile)
============================================================================
