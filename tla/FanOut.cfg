SPECIFICATION FairSpec
CONSTANTS
    Len = 4
    Requested = 3
    Discards = FALSE
    Faults = {"cancel", "mutation", "lane", "panic"}
CHECK_DEADLOCK FALSE
INVARIANT OneOutcomeEach
INVARIANT ReportTruthful
INVARIANT EveryItemNamed
PROPERTY WrittenOnce
PROPERTY LaneEnds
