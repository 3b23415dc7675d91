\* What comments and documents say of work areas and of taking up a result, and
\* the code does not do.  TLC stops at the first that is broken: leave one of the
\* lines at the end and take the rest out.
CONSTANTS
    x1 = x1
    x2 = x2
    w1 = w1
    w2 = w2
    Nobody = nobody
    Ids <- MCIds
    Workers <- MCWorkers
    Runs <- MCRuns
    Tidiers <- MCTidiers
    MostAttempts = 3
    MostDeaths = 0
    r1 = r1
    f1 = f1
    f2 = f2
    old = old
    one = one
    marred = marred
    latin = latin
    bytes = bytes
    Result <- MCResult
    File <- MCFile
    Content <- MCContent
    Text <- MCText
    Binary <- MCBinary
    Lossy <- MCLossy
    NoLines = nolines
    AtFirst = old
    MostWrites = 4
    MostTries = 2
SPECIFICATION RepositorySpec
SYMMETRY MCSymmetry
CHECK_DEADLOCK FALSE
INVARIANT FinishedWithIsTidyable
\* INVARIANT RefusalPutsNothing
\* PROPERTY ForgetsNothingThere
\* PROPERTY WaitingKeepsItsArea
\* PROPERTY TakenAsItIs
