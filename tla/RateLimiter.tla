---------------------------- MODULE RateLimiter ----------------------------
(***************************************************************************)
(* The scheduler every GitHub request goes through                         *)
(* (internal/ghclient/ratelimit.go): callers of Schedule, the dispatcher   *)
(* goroutine run(), one goroutine per dispatched request, the semaphore    *)
(* "active", the one-slot channel "wake", Stop, and the two budget pools   *)
(* fed from response headers.                                              *)
(*                                                                         *)
(* The queue is kept sorted by a total order, so it is the set of queued   *)
(* calls with the order Before.  Durations are abstracted: a back-off      *)
(* timer may fire at any moment, a reset time is ahead until it is passed. *)
(***************************************************************************)
EXTENDS Naturals, FiniteSets

CONSTANTS
    Calls,        \* calls of Schedule, each made once
    Pools,        \* rest, graphql
    PoolOf,       \* PoolOf[c]: the budget call c draws from
    Priority,     \* Priority[c]: 0 is the most urgent
    Concurrency,  \* capacity of the semaphore (10)
    Full,         \* Full[p]: budget of pool p at the start (5000)
    Refill,       \* budget assumed once the reset time has passed (5000)
    Threshold,    \* above this much budget the reset time is not looked at (100)
    Quotas,       \* values of X-RateLimit-Remaining
    Answers,      \* what GitHub may answer: "quota" headers, "retry" (Retry-After)
                  \* or "bare": no response, or one without these headers
    Faults        \* which of "cancel", "stop" may happen

ASSUME LimiterAssumption ==
    /\ IsFiniteSet(Calls)
    /\ PoolOf \in [Calls -> Pools]
    /\ Priority \in [Calls -> Nat]
    /\ Concurrency \in Nat \ {0}
    /\ Full \in [Pools -> Nat]
    /\ Refill \in Nat \ {0}
    /\ Threshold \in Nat
    /\ Quotas \subseteq Nat

VARIABLES
    call,        \* call[c]: where the caller of Schedule stands
    stamp,       \* stamp[c]: its place in the order of the clock ("enqueued")
    req,         \* req[c]: where the request stands, whoever waits for it
    remaining,   \* remaining[p]: budget of the pool as the limiter sees it
    reset,       \* reset[p]: the pool's reset time was "never" heard of, is
                 \* "ahead" or has "passed"
    silent,      \* silent[p]: a Retry-After is the last answer of the pool and
                 \* has not passed (history: no step depends on it)
    dispatcher,  \* where run() stands
    slots,       \* tokens in the semaphore
    wake,        \* the wake channel holds a token
    stopped      \* stopCh is closed

callVars == <<call, stamp>>
poolVars == <<remaining, reset, silent>>
vars == <<call, stamp, req, remaining, reset, silent, dispatcher, slots, wake, stopped>>

-----------------------------------------------------------------------------

Queue == {c \in Calls : req[c] = "queued"}

\* Requests that hold a token of the semaphore.
Working == {c \in Calls : req[c] \in {"running", "ran"}}

BeforeFIFO(c, d) == stamp[c] < stamp[d]      \* mutant: priority is ignored

Before(c, d) ==
    \/ Priority[c] < Priority[d]
    \/ Priority[c] = Priority[d] /\ stamp[c] < stamp[d]

HasBudget(p) == remaining[p] > 0 \/ reset[p] = "passed"

\* poolHasBudgetLocked refills a low pool whose reset time has passed.
Budget(p) ==
    IF remaining[p] <= Threshold /\ reset[p] = "passed" THEN Refill ELSE remaining[p]

Admissible == {c \in Queue : HasBudget(PoolOf[c])}

Init ==
    /\ call = [c \in Calls |-> "idle"]
    /\ stamp = [c \in Calls |-> 0]
    /\ req = [c \in Calls |-> "none"]
    /\ remaining = Full
    /\ reset = [p \in Pools |-> "never"]
    /\ silent = [p \in Pools |-> FALSE]
    /\ dispatcher = "acquire"
    /\ slots = 0
    /\ wake = FALSE
    /\ stopped = FALSE

-----------------------------------------------------------------------------
\* Schedule

\* The request is stamped before the queue's mutex is taken.
Arrive(c) ==
    /\ call[c] = "idle"
    /\ call' = [call EXCEPT ![c] = "stamped"]
    /\ stamp' = [stamp EXCEPT ![c] = Cardinality({d \in Calls : call[d] # "idle"})]
    /\ UNCHANGED <<req, poolVars, dispatcher, slots, wake, stopped>>

EnqueueSilently(c) ==                \* mutant: no kick after the append
    /\ call[c] = "stamped"
    /\ call' = [call EXCEPT ![c] = "waiting"]
    /\ req' = [req EXCEPT ![c] = "queued"]
    /\ UNCHANGED <<stamp, poolVars, dispatcher, slots, wake, stopped>>

Enqueue(c) ==
    /\ call[c] = "stamped"
    /\ call' = [call EXCEPT ![c] = "queued"]
    /\ req' = [req EXCEPT ![c] = "queued"]
    /\ UNCHANGED <<stamp, poolVars, dispatcher, slots, wake, stopped>>

\* kick() never blocks: a token that is already there is enough.
Kick(c) ==
    /\ call[c] = "queued"
    /\ call' = [call EXCEPT ![c] = "waiting"]
    /\ wake' = TRUE
    /\ UNCHANGED <<stamp, req, poolVars, dispatcher, slots, stopped>>

ReturnUnlessStopped(c) ==             \* mutant: stopCh is not watched
    /\ call[c] = "waiting"
    /\ req[c] = "done"
    /\ call' = [call EXCEPT ![c] = "returned"]
    /\ UNCHANGED <<stamp, req, poolVars, dispatcher, slots, wake, stopped>>

\* The final select waits for done, stopCh or ctx.Done.  A request nobody
\* waits for any more stays queued or running.
Return(c) ==
    /\ call[c] = "waiting"
    /\ \/ req[c] = "done" /\ call' = [call EXCEPT ![c] = "returned"]
       \/ stopped /\ call' = [call EXCEPT ![c] = "stopped"]
    /\ UNCHANGED <<stamp, req, poolVars, dispatcher, slots, wake, stopped>>

Cancel(c) ==
    /\ "cancel" \in Faults
    /\ call[c] = "waiting"
    /\ call' = [call EXCEPT ![c] = "cancelled"]
    /\ UNCHANGED <<stamp, req, poolVars, dispatcher, slots, wake, stopped>>

Stop ==
    /\ "stop" \in Faults
    /\ ~stopped
    /\ stopped' = TRUE
    /\ UNCHANGED <<callVars, req, poolVars, dispatcher, slots, wake>>

-----------------------------------------------------------------------------
\* The dispatcher: a slot first, then the request to run in it.

AcquireOneMore ==                    \* mutant: the semaphore is one too large
    /\ dispatcher = "acquire"
    /\ slots <= Concurrency
    /\ slots' = slots + 1
    /\ dispatcher' = "pick"
    /\ UNCHANGED <<callVars, req, poolVars, wake, stopped>>

Acquire ==
    /\ dispatcher = "acquire"
    /\ slots < Concurrency
    /\ slots' = slots + 1
    /\ dispatcher' = "pick"
    /\ UNCHANGED <<callVars, req, poolVars, wake, stopped>>

\* The first queued request whose pool has budget is paid for and started.
Dispatch(c) ==
    /\ dispatcher = "pick"
    /\ c \in Admissible
    /\ \A d \in Admissible \ {c} : Before(c, d)
    /\ req' = [req EXCEPT ![c] = "running"]
    /\ remaining' = [remaining EXCEPT ![PoolOf[c]] = Budget(PoolOf[c]) - 1]
    /\ dispatcher' = "acquire"
    /\ UNCHANGED <<callVars, reset, silent, slots, wake, stopped>>

\* Nothing is queued, or nothing that is queued has budget ...
PickNothing ==
    /\ dispatcher = "pick"
    /\ Admissible = {}
    /\ dispatcher' = IF Queue = {} THEN "empty" ELSE "exhausted"
    /\ UNCHANGED <<callVars, req, poolVars, slots, wake, stopped>>

\* ... so the slot goes back before the dispatcher waits.
GiveBack ==
    /\ dispatcher \in {"empty", "exhausted"}
    /\ slots' = slots - 1
    /\ dispatcher' = IF dispatcher = "empty" THEN "idle" ELSE "backoff"
    /\ UNCHANGED <<callVars, req, poolVars, wake, stopped>>

Woken ==
    /\ dispatcher \in {"idle", "backoff"}
    /\ wake
    /\ wake' = FALSE
    /\ dispatcher' = IF dispatcher = "idle" THEN "acquire" ELSE "probe"
    /\ UNCHANGED <<callVars, req, poolVars, slots, stopped>>

TimerFires ==
    /\ dispatcher = "backoff"
    /\ dispatcher' = "probe"
    /\ UNCHANGED <<callVars, req, poolVars, slots, wake, stopped>>

ProbeResetAtOnce ==                  \* mutant: the reset time is not looked at
    /\ dispatcher = "probe"
    /\ remaining' = [p \in Pools |-> IF remaining[p] = 0 THEN 1 ELSE remaining[p]]
    /\ dispatcher' = "acquire"
    /\ UNCHANGED <<callVars, req, reset, silent, slots, wake, stopped>>

\* An empty pool whose reset time has passed gets a budget of one.
ProbeReset ==
    LET due == {p \in Pools : reset[p] = "passed" /\ remaining[p] = 0}
    IN /\ dispatcher = "probe"
       /\ remaining' = [p \in Pools |-> IF p \in due THEN 1 ELSE remaining[p]]
       /\ dispatcher' = "acquire"
       /\ UNCHANGED <<callVars, req, reset, silent, slots, wake, stopped>>

\* Each of the three selects watches stopCh; a request already picked runs on.
Exit ==
    /\ stopped
    /\ dispatcher \in {"acquire", "idle", "backoff"}
    /\ dispatcher' = "exited"
    /\ UNCHANGED <<callVars, req, poolVars, slots, wake, stopped>>

-----------------------------------------------------------------------------
\* The goroutine of a request

\* fn runs, UpdateFromResponse included: the exchange with GitHub is over.
Respond(c, a, n) ==
    LET p == PoolOf[c]
    IN /\ req[c] = "running"
       /\ req' = [req EXCEPT ![c] = "ran"]
       /\ \/ /\ a = "bare"
             /\ UNCHANGED poolVars
          \/ /\ a = "quota"
             /\ remaining' = [remaining EXCEPT ![p] = n]
             /\ reset' = [reset EXCEPT ![p] = "ahead"]
             /\ silent' = [silent EXCEPT ![p] = FALSE]
          \/ /\ a = "retry"
             /\ remaining' = [remaining EXCEPT ![p] = 0]
             /\ reset' = [reset EXCEPT ![p] = "ahead"]
             /\ silent' = [silent EXCEPT ![p] = TRUE]
       /\ UNCHANGED <<callVars, dispatcher, slots, wake, stopped>>

\* The deferred function: free the slot, kick, tell the caller.
FreeSlot(c) ==
    /\ req[c] = "ran"
    /\ slots' = slots - 1
    /\ req' = [req EXCEPT ![c] = "freed"]
    /\ UNCHANGED <<callVars, poolVars, dispatcher, wake, stopped>>

KickAfter(c) ==
    /\ req[c] = "freed"
    /\ wake' = TRUE
    /\ req' = [req EXCEPT ![c] = "kicked"]
    /\ UNCHANGED <<callVars, poolVars, dispatcher, slots, stopped>>

CloseDone(c) ==
    /\ req[c] = "kicked"
    /\ req' = [req EXCEPT ![c] = "done"]
    /\ UNCHANGED <<callVars, poolVars, dispatcher, slots, wake, stopped>>

\* Time reaches the reset time of a pool, and the end of a Retry-After.
ResetPasses(p) ==
    /\ reset[p] = "ahead"
    /\ reset' = [reset EXCEPT ![p] = "passed"]
    /\ silent' = [silent EXCEPT ![p] = FALSE]
    /\ UNCHANGED <<callVars, req, remaining, dispatcher, slots, wake, stopped>>

-----------------------------------------------------------------------------

Caller(c) == Enqueue(c) \/ Kick(c) \/ Return(c)

Worker(c) ==
    \/ \E a \in Answers, n \in Quotas : Respond(c, a, n)
    \/ FreeSlot(c)
    \/ KickAfter(c)
    \/ CloseDone(c)

Dispatcher ==
    \/ Acquire
    \/ \E c \in Calls : Dispatch(c)
    \/ PickNothing
    \/ GiveBack
    \/ Woken
    \/ TimerFires
    \/ ProbeReset
    \/ Exit

Next ==
    \/ \E c \in Calls : Arrive(c) \/ Caller(c) \/ Cancel(c) \/ Worker(c)
    \/ Dispatcher
    \/ \E p \in Pools : ResetPasses(p)
    \/ Stop

Spec == Init /\ [][Next]_vars

\* Goroutines are scheduled, GitHub answers, timers fire and time passes.
\* Nothing makes a caller arrive or give up, or the program stop.
Fairness ==
    /\ WF_vars(Dispatcher)
    /\ \A c \in Calls : WF_vars(Caller(c)) /\ WF_vars(Worker(c))
    /\ \A p \in Pools : WF_vars(ResetPasses(p))

FairSpec == Spec /\ Fairness

-----------------------------------------------------------------------------
\* Properties

CallStates == {"idle", "stamped", "queued", "waiting", "returned", "cancelled", "stopped"}
ReqStates == {"none", "queued", "running", "ran", "freed", "kicked", "done"}
DispatcherStates ==
    {"acquire", "pick", "empty", "idle", "exhausted", "backoff", "probe", "exited"}

TypeOK ==
    /\ call \in [Calls -> CallStates]
    /\ stamp \in [Calls -> Nat]
    /\ req \in [Calls -> ReqStates]
    /\ remaining \in [Pools -> Nat]
    /\ reset \in [Pools -> {"never", "ahead", "passed"}]
    /\ silent \in [Pools -> BOOLEAN]
    /\ dispatcher \in DispatcherStates
    /\ slots \in Nat
    /\ wake \in BOOLEAN
    /\ stopped \in BOOLEAN

(***************************************************************************)
(* At most Concurrency requests are at GitHub at once, whatever path the   *)
(* dispatcher takes between two picks: each slot it takes goes to a        *)
(* request or back (ratelimit.go:178-225).                                 *)
(***************************************************************************)
InFlightBounded == Cardinality(Working) <= Concurrency

(***************************************************************************)
(* No lost wakeup.  The dispatcher never sleeps on an empty queue while a  *)
(* request is queued, nor backs off while a queued request has budget,     *)
(* without a token in the wake channel or a kick on its way from a caller  *)
(* or from a request that has ended (ratelimit.go:154-155, 219-223).       *)
(***************************************************************************)
KickComing ==
    \/ wake
    \/ \E c \in Calls : call[c] = "queued" \/ req[c] \in {"ran", "freed"}

NoLostWakeup ==
    \/ KickComing
    \/ /\ dispatcher = "idle" => Queue = {}
       /\ dispatcher = "backoff" => \A c \in Queue : remaining[PoolOf[c]] = 0

(***************************************************************************)
(* A request never overtakes a more urgent or an older one that is queued  *)
(* for the same pool (callctx.go:12-13, "so a PR check never waits behind  *)
(* a cron sweep").                                                         *)
(***************************************************************************)
InOrder ==
    [][\A c, d \in Queue :
          /\ req'[c] = "running"
          /\ PoolOf[c] = PoolOf[d]
          => Priority[c] <= Priority[d]
             /\ (Priority[c] = Priority[d] => stamp[c] <= stamp[d])]_vars

(***************************************************************************)
(* ratelimit.go:123-124, "Blocks until fn has run (or until ctx is         *)
(* cancelled)": every request that was scheduled runs to its end, budgets  *)
(* and back-off included, and its caller gets away, unless the limiter is  *)
(* stopped first.                                                          *)
(***************************************************************************)
EveryCallRuns ==
    \A c \in Calls :
        (call[c] = "stamped") ~>
            \/ req[c] = "done" /\ call[c] \in {"returned", "cancelled"}
            \/ stopped

(***************************************************************************)
(* A stopped limiter keeps no caller waiting, however deep the back-off    *)
(* (ratelimit.go:117-118).                                                 *)
(***************************************************************************)
StopFreesCallers ==
    \A c \in Calls :
        (stopped /\ call[c] = "stamped") ~> (call[c] \in {"returned", "cancelled", "stopped"})

(***************************************************************************)
(* Nothing is sent to a pool whose last answer was a Retry-After before    *)
(* that has passed, whichever way the dispatcher comes out of its back-off *)
(* (ratelimit_edge_test.go:154-156, "subsequent picks must enter backoff   *)
(* regardless of any prior X-RateLimit-Remaining count").                  *)
(***************************************************************************)
RetryAfterHonoured ==
    [][\A c \in Queue : req'[c] = "running" => ~silent[PoolOf[c]]]_vars
=============================================================================
