SPECIFICATION FairSpec
CONSTANTS
    r1 = r1
    r2 = r2
    repo = repo
    secrets = secrets
    pages = pages
    x = x
    y = y
    mix = mix
    bad = bad
    unmanaged = unmanaged
    lower = lower
    UPPER = UPPER
    Runs = {r1, r2}
    Names = {lower}
    Lower <- MCLower
    Lanes = {repo, secrets, pages}
    RepoLane = repo
    Values = {x, y, mix, bad}
    OneRun <- MCOneRun
    Partial = mix
    Initially <- MCInitially
    Unmanaged = unmanaged
    Unread = unread
    Tree <- MCTree
    MaxVersion = 1
    Selections <- MCSelections
    Disabled = {pages}
    Forbidden = {bad}
    Faults = {"load", "lane"}
    NoRun = NoRun
    Head = Head
    NoJob = NoJob
CHECK_DEADLOCK FALSE
INVARIANT ReportComplete
INVARIANT OnlyAllowedWrites
PROPERTY SuccessMeansApplied
PROPERTY IsSerial
PROPERTY EveryRunEnds
