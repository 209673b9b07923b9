SPECIFICATION Spec
CONSTANTS
    check = check
    cron1 = cron1
    query = query
    rest = rest
    graphql = graphql
    Calls = {check, cron1, query}
    Pools = {rest, graphql}
    PoolOf <- MCPoolOf
    Priority <- MCPriority
    Concurrency = 2
    Full <- MCFull
    Refill = 3
    Threshold = 1
    Quotas = {2}
    Answers = {"quota", "retry", "bare"}
    Faults = {}
CHECK_DEADLOCK FALSE
INVARIANT InFlightBounded
INVARIANT NoLostWakeup
PROPERTY InOrder
PROPERTY RetryAfterHonoured
