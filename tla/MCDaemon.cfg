\* More tasks than hands, more than the budget may cover, and a figure the
\* session store may refuse.
CONSTANTS
    w1 = w1
    w2 = w2
    h1 = h1
    h2 = h2
    Clock = clock
    Workers <- MCTwoWorkers
    Handlers <- MCOneHandler
    Commands <- MCUnattended
    Failing <- MCRecord
    Declared <- MCEitherDeclared
    Costs <- MCKnown
    Observed <- MCSpent
    Talks <- MCQuiet
    LastTask = 3
    LastSession = 1
    MostAttempts = 1
    MostCrashes = 0
SPECIFICATION Spec
CHECK_DEADLOCK FALSE
SYMMETRY MCSymmetry
INVARIANT NothingLost
PROPERTY AddsWithinMeans
