\* Every standing of the range, every ledger of four runs, every file of three keys,
\* two looks at once.
CONSTANTS
    Standings <- MCStandings
    Model <- MCModel
    Runs <- MCRuns
    MostNoted = 4
    x1 = x1
    x2 = x2
    Handler <- MCHandler
    Vendor <- MCVendor
    Shipped <- MCShipped
    ByDefault = "claude"
    Broken = Broken
    NoCopy = NoCopy
    Asked <- MCAsked
    Words <- MCWords
    MostByHand = 1
    l1 = l1
    l2 = l2
    Look <- MCLook
    MostUsed = 1
    MostLines = 1
    StepsFail = TRUE
    NewLine = NewLine
    Unavailable = Unavailable
    NoReading = NoReading
SPECIFICATION JudgingSpec
CHECK_DEADLOCK FALSE
INVARIANTS WithinRoom NobodyLeftBehind SizedFromItsRuns StartsAgain FreshByItself
PROPERTIES FollowsTheRun LooksEnd
