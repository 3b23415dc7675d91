\* One session after another, and a task the first left waiting.
CONSTANTS
    w1 = w1
    w2 = w2
    h1 = h1
    h2 = h2
    Clock = clock
    Workers <- MCTwoWorkers
    Handlers <- MCOneHandler
    Commands <- MCDisposing
    Failing <- MCNothing
    Declared <- MCDeclared
    Costs <- MCUnknown
    Observed <- MCSpent
    Talks <- MCQuiet
    LastTask = 1
    LastSession = 2
    MostAttempts = 2
    MostCrashes = 0
SPECIFICATION Spec
CHECK_DEADLOCK FALSE
SYMMETRY MCSymmetry
INVARIANT NeverUnattended
