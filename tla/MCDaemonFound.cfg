\* What documents, comments and tests say of the daemon and the code does not
\* do.  TLC stops at the first that is broken: leave one of the lines at the end
\* and take the rest out.
CONSTANTS
    w1 = w1
    w2 = w2
    h1 = h1
    h2 = h2
    Clock = clock
    Workers <- MCTwoWorkers
    Handlers <- MCOneHandler
    Failing <- MCNothing
    Commands <- MCDisposing
    Declared <- MCDeclared
    Costs <- MCUnknown
    Observed <- MCSpent
    Talks <- MCTalk
    LastTask = 1
    LastSession = 2
    MostAttempts = 2
    MostCrashes = 0
\* For HardlockEndsNoRun and SpendingOnlyGrows, in place of those:
\*  Commands <- MCRetryOnly
\*  Declared <- MCDeclared     (MCDeclaredMore for SpendingOnlyGrows)
\*  Costs <- MCCost
\*  Observed <- MCMore
\*  Talks <- MCQuiet
\*  LastTask = 2
\*  LastSession = 1
SPECIFICATION Spec
CHECK_DEADLOCK FALSE
INVARIANT NothingEndedWhileWorking
\* INVARIANT EveryAgentReachable
\* INVARIANT OneHandPerAttempt
\* INVARIANT NoConversationOnceDecided
\* PROPERTY NoRunForAStoppedSession
\* PROPERTY AnswersForItsOwnAttempt
\* PROPERTY EndedIsReviewed
\* PROPERTY HardlockEndsNoRun
\* PROPERTY SpendingOnlyGrows
