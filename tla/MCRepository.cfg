\* Two tasks asked for again at any moment of a tidying, and a core that dies;
\* a result run twice, and a person who writes.
CONSTANTS
    x1 = x1
    x2 = x2
    w1 = w1
    w2 = w2
    Nobody = nobody
    Ids <- MCIds
    Workers <- MCWorkers
    Runs <- MCRuns
    Tidiers <- MCTidiers
    MostAttempts = 3
    MostDeaths = 1
    r1 = r1
    f1 = f1
    f2 = f2
    old = old
    one = one
    marred = marred
    latin = latin
    bytes = bytes
    Result <- MCResult
    File <- MCFile
    Content <- MCContent
    Text <- MCText
    Binary <- MCBinary
    Lossy <- MCLossy
    NoLines = nolines
    AtFirst = old
    MostWrites = 4
    MostTries = 2
SPECIFICATION RepositorySpec
SYMMETRY MCSymmetry
CHECK_DEADLOCK FALSE
PROPERTIES ForgetsOnlyWhatWent GoesOnlyWhenFinishedWith TakenAsMade
