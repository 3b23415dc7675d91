\* What comments and documents say of following a trace and the code does not
\* do, with one run of one task.  TLC stops at the first that is broken: leave
\* one of the lines at the end and take the other out.
CONSTANTS
    k1 = k1
    k2 = k2
    a1 = a1
    a2 = a2
    a3 = a3
    w1 = w1
    w2 = w2
    Thread <- MCTwoThreads
    Change <- MCTwoChanges
    Inode <- MCInodes
    Pieces = 2
    Holding = TRUE
    CallsFail = FALSE
    MostDeaths = 0
    Nobody = nobody
    Nothing = nothing
    Hole = hole
    Writer <- MCTwoWriters
    LastRun = 0
    LastLine = 2
    Longest = 2
    AtMost = 4
    MostRuns = 1
    MayInterrupt = TRUE
    MayDie = FALSE
    Lists <- MCNoLists
    Documents <- MCNoDocuments
    Narrow = 8
    Wide = 20000
\* For FollowingMissesNothing, in place of those:
\*  MayInterrupt = FALSE
SPECIFICATION FairSpec
CHECK_DEADLOCK FALSE
PROPERTY DoneIsTheEnd
\* INVARIANT FollowingMissesNothing
