\* A store that holds its lock, a ledger, a trace, every stored list and every entry.
CONSTANTS
    k1 = k1
    k2 = k2
    a1 = a1
    a2 = a2
    a3 = a3
    w1 = w1
    w2 = w2
    Thread <- MCTwoThreads
    Change <- MCThreeChanges
    Inode <- MCInodes
    Pieces = 2
    Holding = TRUE
    CallsFail = TRUE
    MostDeaths = 1
    Nobody = nobody
    Nothing = nothing
    Hole = hole
    Writer <- MCTwoWriters
    LastRun = 3
    LastLine = 2
    Longest = 2
    AtMost = 4
    MostRuns = 2
    MayInterrupt = TRUE
    MayDie = TRUE
    Lists <- MCLists
    Documents <- MCDocuments
    Narrow = 8
    Wide = 20000
SPECIFICATION FairSpec
CHECK_DEADLOCK FALSE
CONSTRAINT ShortWhereTwoWrite
INVARIANTS EitherHappenedOrDidNot EveryNotedRunStands ShowsWhatFits ShownOnce AcceptsExactly ReadsAsWritten
PROPERTIES OneMoreAtTheEnd ReadingEnds RestoreEnds
