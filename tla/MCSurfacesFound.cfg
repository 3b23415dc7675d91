\* What documents and comments say of the cores and of adding a task, and the
\* code does not do.  TLC stops at the first that is broken: leave one of the
\* lines at the end and take the rest out.
CONSTANTS
    s1 = s1
    s2 = s2
    s3 = s3
    c1 = c1
    Nobody = nobody
    Left = left
    Surface <- MCOneSurface
    ByHand <- MCOneCore
    Ends <- MCEarly
    Within = 4
    Longest = 4
    Word <- MCWord
    ReachesAtMost = 2
    Tracked <- MCTracked
    Programs <- MCPrograms
    Instructions <- MCInstructions
    Drafts <- MCDrafts
    Repositories <- MCRepositories
    Typable <- MCTypable
    Stops = "stop"
    MostAsks = 3
    MostMoves = 1
\* In place of those, for GivingUpEndsNoCore:
\*  Ends <- MCDeadline
\* and for AnswerIsComing:
\*  Ends <- MCStop
\* and for SeveralHold:
\*  ReachesAtMost = 3
SPECIFICATION SurfacesSpec
CHECK_DEADLOCK FALSE
INVARIANT ServingIsReachable
\* PROPERTY GivingUpEndsNoCore
\* PROPERTY AnswerIsComing
\* INVARIANT SeveralHold
\* INVARIANT CarriesOnWithout
\* INVARIANT AskedOnceWhatever
