\* The rate where a split gave a run nothing, and a vendor whose definition cannot
\* be read: comments say otherwise of the two.  TLC stops at the first that is
\* broken: leave one of the lines at the end and take the other out.
CONSTANTS
    Standings <- MCStandings
    Model <- MCModel
    Runs <- MCRuns
    MostNoted = 4
    x1 = x1
    x2 = x2
    Handler <- MCHandler
    Vendor <- MCVendor
    Shipped <- MCShipped
    ByDefault = "claude"
    Broken = Broken
    NoCopy = NoCopy
    Asked <- MCAsked
    Words <- MCWords
    MostByHand = 2
    l1 = l1
    l2 = l2
    Look <- MCLook
    MostUsed = 1
    MostLines = 1
    StepsFail = TRUE
    NewLine = NewLine
    Unavailable = Unavailable
    NoReading = NoReading
SPECIFICATION JudgingSpec
CHECK_DEADLOCK FALSE
INVARIANT RateWhateverTheSplit
\* PROPERTY SetTakesWhatIsFound
