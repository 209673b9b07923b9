SPECIFICATION FairSpec
CONSTANTS
    check = check
    cron1 = cron1
    query = query
    rest = rest
    graphql = graphql
    Calls = {check, cron1}
    Pools = {rest}
    PoolOf <- MCPoolOf
    Priority <- MCPriority
    Concurrency = 1
    Full <- MCFullLow
    Refill = 3
    Threshold = 1
    Quotas = {2}
    Answers = {"bare"}
    Faults = {}
CHECK_DEADLOCK FALSE
PROPERTY EveryCallRuns
