SPECIFICATION Spec
CONSTANTS
    Len = 3
    Requested = 2
    Discards = TRUE
    Faults = {"cancel", "mutation"}
CHECK_DEADLOCK FALSE
INVARIANT EveryItemNamed
