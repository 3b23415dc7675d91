\* Any call may fail, the core may die, and people ask for anything.
CONSTANTS
    w1 = w1
    w2 = w2
    h1 = h1
    h2 = h2
    Clock = clock
    Workers <- MCOneWorker
    Handlers <- MCOneHandler
    Commands <- MCEverything
    Failing <- MCAnyCall
    Declared <- MCDeclared
    Costs <- MCUnknown
    Observed <- MCSpent
    Talks <- MCTalk
    LastTask = 1
    LastSession = 2
    MostAttempts = 2
    MostCrashes = 1
SPECIFICATION Spec
CHECK_DEADLOCK FALSE
PROPERTY IsStored
