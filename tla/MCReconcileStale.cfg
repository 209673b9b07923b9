SPECIFICATION Spec
CONSTANTS
    r1 = r1
    r2 = r2
    repo = repo
    secrets = secrets
    pages = pages
    x = x
    y = y
    mix = mix
    bad = bad
    unmanaged = unmanaged
    lower = lower
    UPPER = UPPER
    Runs = {r1, r2}
    Names = {lower}
    Lower <- MCLower
    Lanes = {repo, secrets, pages}
    RepoLane = repo
    Values = {x, y, mix, bad}
    OneRun <- MCDirect
    Partial = mix
    Initially <- MCReached
    Unmanaged = unmanaged
    Unread = unread
    Tree <- MCHistory
    MaxVersion = 2
    Selections <- MCSelections
    Disabled = {}
    Forbidden = {bad}
    Faults = {}
    NoRun = NoRun
    Head = Head
    NoJob = NoJob
CHECK_DEADLOCK FALSE
INVARIANT InSync
