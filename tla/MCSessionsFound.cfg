\* A look of the window before, arriving after one of the window after, and a look
\* that arrives after its session has stopped: what comments say of the two and
\* the code does not do.  TLC stops at the first that is broken: leave one of the
\* lines at the end and take the other out.
CONSTANTS
    Usage = {"Share"}
    Why = {"interrupted"}
    Full = 2
    LastId = 1
    LastWindow = 2
    MostLooks = 2
SPECIFICATION Spec
CHECK_DEADLOCK FALSE
INVARIANT NeverOverstates
\* PROPERTY FrozenOnceStopped
