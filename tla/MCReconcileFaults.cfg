SPECIFICATION Spec
CONSTANTS
    r1 = r1
    r2 = r2
    repo = repo
    secrets = secrets
    pages = pages
    x = x
    y = y
    mix = mix
    bad = bad
    unmanaged = unmanaged
    lower = lower
    UPPER = UPPER
    Runs = {r1, r2}
    Names = {lower, UPPER}
    Lower <- MCLower
    Lanes = {repo, secrets, pages}
    RepoLane = repo
    Values = {x, y, mix, bad}
    OneRun <- MCOneRun
    Partial = mix
    Initially <- MCInitially
    Unmanaged = unmanaged
    Unread = unread
    Tree <- MCTree
    MaxVersion = 1
    Selections <- MCWholeDirectory
    Disabled = {}
    Forbidden = {bad}
    Faults = {"load", "lane", "lost", "cancel", "crash"}
    NoRun = NoRun
    Head = Head
    NoJob = NoJob
CHECK_DEADLOCK FALSE
SYMMETRY Symmetry
INVARIANT OneHolderPerRepo
INVARIANT WritesAreReported
INVARIANT PhaseOrder
