\* Four tasks and two sessions: every way the tasks may wait for one another, be
\* taken out and be added, runs among it, and answers that come late or twice.
\*
\* What the comment on removing says, which the code does not keep, is found over
\* two tasks: LastId = 2, TwoRuns in place of FewRuns, and below
\* PROPERTY RemovesOnlyUnassigned
CONSTANTS
    Session <- MCTwoSessions
    Ceiling <- MCCeiling
    Observed <- MCObserved
    LastId = 4
    MostAttempts = 2
SPECIFICATION Spec
CONSTRAINT FewRuns
CHECK_DEADLOCK FALSE
INVARIANTS StaysRestorable BlockedForAReason
PROPERTIES OrderKept FirstAnswerStands
