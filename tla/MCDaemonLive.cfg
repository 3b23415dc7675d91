\* Nobody intervenes: every session and every run comes to an end.
CONSTANTS
    w1 = w1
    w2 = w2
    h1 = h1
    h2 = h2
    Clock = clock
    Workers <- MCTwoWorkers
    Handlers <- MCOneHandler
    Commands <- MCUnattended
    Failing <- MCNothing
    Declared <- MCDeclared
    Costs <- MCCost
    Observed <- MCRead
    Talks <- MCQuiet
    LastTask = 2
    LastSession = 1
    MostAttempts = 1
    MostCrashes = 0
SPECIFICATION FairSpec
CHECK_DEADLOCK FALSE
PROPERTIES SessionEnds RunEnds
