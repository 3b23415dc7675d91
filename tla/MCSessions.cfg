\* One session, a limit of two that begins again once, and looks and figures in
\* flight three at a time, arriving in any order.
CONSTANTS
    Usage = {"Share"}
    Why = {"vendor limit", "interrupted"}
    Full = 2
    LastId = 1
    LastWindow = 2
    MostLooks = 3
SPECIFICATION Spec
CHECK_DEADLOCK FALSE
INVARIANTS OnlyTheOvertakenOverstate NothingChargedTwice
PROPERTY WhatIsSaidStands
