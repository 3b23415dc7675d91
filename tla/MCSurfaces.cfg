\* Two command lines and a core started by hand, and every way a core ends but
\* for a signal before it has the lock; one request of up to four pieces; every
\* command, and with one field of its request wrong; a task
\* added by a person at a terminal or by a script, over three asks.
CONSTANTS
    s1 = s1
    s2 = s2
    s3 = s3
    c1 = c1
    Nobody = nobody
    Left = left
    Surface <- MCTwoSurfaces
    ByHand <- MCOneCore
    Ends <- MCAnything
    Within = 4
    Longest = 4
    Word <- MCWord
    ReachesAtMost = 2
    Tracked <- MCTracked
    Programs <- MCPrograms
    Instructions <- MCInstructions
    Drafts <- MCDrafts
    Repositories <- MCRepositories
    Typable <- MCTypable
    Stops = "stop"
    MostAsks = 3
    MostMoves = 1
SPECIFICATION SurfacesSpec
CHECK_DEADLOCK FALSE
INVARIANTS ServingIsReachable HeldNoLonger UnderstoodOnce RegisteredAsSeen RegisteredLeavesNothing AskedOnce
PROPERTIES Answered HeldUpIsKept
