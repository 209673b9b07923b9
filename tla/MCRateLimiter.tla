--------------------------- MODULE MCRateLimiter ---------------------------
(* Instances of RateLimiter for TLC.                                       *)
EXTENDS RateLimiter, TLC

CONSTANTS check, cron1, query, rest, graphql

\* A pull request check and a call of the cron sweep draw on the REST
\* budget, the sweep's batch query on the GraphQL one.
MCPoolOf == [c \in Calls |-> IF c = query THEN graphql ELSE rest]
MCPriority == [c \in Calls |-> IF c = check THEN 0 ELSE 3]

\* Two REST requests before GitHub must be heard, and one of the other kind.
MCFull == [p \in Pools |-> IF p = rest THEN 2 ELSE 1]

\* One request before GitHub must be heard.
MCFullLow == [p \in Pools |-> 1]
=============================================================================
