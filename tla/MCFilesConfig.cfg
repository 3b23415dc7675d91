\* The configuration, which does not hold its lock: two changes at once, and no
\* call fails.
CONSTANTS
    k1 = k1
    k2 = k2
    a1 = a1
    a2 = a2
    a3 = a3
    w1 = w1
    w2 = w2
    Thread <- MCTwoThreads
    Change <- MCTwoChanges
    Inode <- MCInodes
    Pieces = 2
    Holding = FALSE
    CallsFail = FALSE
    MostDeaths = 0
    Nobody = nobody
    Nothing = nothing
    Hole = hole
    Writer <- MCTwoWriters
    LastRun = 0
    LastLine = 2
    Longest = 2
    AtMost = 4
    MostRuns = 0
    MayInterrupt = TRUE
    MayDie = FALSE
    Lists <- MCNoLists
    Documents <- MCNoDocuments
    Narrow = 8
    Wide = 20000
SPECIFICATION FairSpec
CHECK_DEADLOCK FALSE
INVARIANT WholeInPlace
