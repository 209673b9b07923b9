------------------------- MODULE RateLimiterProofs -------------------------
(***************************************************************************)
(* Safety of RateLimiter for every finite set of calls, every set of       *)
(* pools, every concurrency and every budget.                              *)
(***************************************************************************)
EXTENDS RateLimiter, FiniteSetTheorems, TLAPS

(***************************************************************************)
(* Every token of the semaphore belongs to a request or to the dispatcher, *)
(* which holds one from Acquire until it dispatches or gives it back.      *)
(***************************************************************************)
Token == IF dispatcher \in {"pick", "empty", "exhausted"} THEN 1 ELSE 0

SlotInv ==
    /\ slots = Cardinality(Working) + Token
    /\ slots <= Concurrency

(***************************************************************************)
(* What the dispatcher has seen under the queue's mutex still holds, or a  *)
(* kick is coming, from that moment on and not only once it sleeps.        *)
(***************************************************************************)
WakeInv ==
    \/ KickComing
    \/ /\ dispatcher \in {"empty", "idle"} => Queue = {}
       /\ dispatcher \in {"exhausted", "backoff"} =>
             \A c \in Queue : remaining[PoolOf[c]] = 0

\* A request exists only once its caller has put it in the queue.
FreshInv == \A c \in Calls : call[c] \in {"idle", "stamped"} => req[c] = "none"

(***************************************************************************)
(* A pool GitHub asked to leave alone has no budget, and its reset time is *)
(* still to come: neither a refill nor a probe can give it one.            *)
(***************************************************************************)
QuietInv == \A p \in Pools : silent[p] => remaining[p] = 0 /\ reset[p] = "ahead"

IInv == TypeOK /\ SlotInv /\ FreshInv /\ WakeInv /\ QuietInv

-----------------------------------------------------------------------------
\* The counts

\* The requests that hold a slot can be counted.
LEMMA WorkingFinite == IsFiniteSet(Working) /\ Cardinality(Working) \in Nat
BY LimiterAssumption, FS_Subset, FS_CardinalityType DEF Working

\* A stamp is a number.
LEMMA StampType == Cardinality({d \in Calls : call[d] # "idle"}) \in Nat
BY LimiterAssumption, FS_Subset, FS_CardinalityType

\* A step that starts and ends no request leaves the slots as they are.
LEMMA SameWorking ==
    ASSUME \A c \in Calls : req'[c] \in {"running", "ran"} <=> req[c] \in {"running", "ran"}
    PROVE  Working' = Working
BY DEF Working

\* A request that starts takes one slot.
LEMMA OneMoreWorking ==
    ASSUME TypeOK, NEW c \in Calls, c \notin Working, req' = [req EXCEPT ![c] = "running"]
    PROVE  Cardinality(Working') = Cardinality(Working) + 1
<1>1. Working' = Working \union {c}
  BY DEF Working, TypeOK
<1> QED
  BY <1>1, WorkingFinite, FS_AddElement

\* A request whose slot is freed gives one back.
LEMMA OneLessWorking ==
    ASSUME TypeOK, NEW c \in Working, req' = [req EXCEPT ![c] = "freed"]
    PROVE  Cardinality(Working') = Cardinality(Working) - 1
<1>1. Working' = Working \ {c}
  BY DEF Working, TypeOK
<1> QED
  BY <1>1, WorkingFinite, FS_RemoveElement

\* While a request holds a slot, at least one is taken.
LEMMA SomeWorking ==
    ASSUME NEW c \in Working
    PROVE  Cardinality(Working) >= 1
BY WorkingFinite, FS_EmptySet

-----------------------------------------------------------------------------
\* Types and slots

\* The invariant holds at the start.
LEMMA InitInv == Init => IInv
<1> SUFFICES ASSUME Init PROVE IInv
  OBVIOUS
<1>1. TypeOK
  BY LimiterAssumption
     DEF Init, TypeOK, CallStates, ReqStates, DispatcherStates
<1>2. SlotInv
  <2>1. Working = {}
    BY DEF Init, Working
  <2> QED
    BY <2>1, FS_EmptySet, LimiterAssumption DEF Init, SlotInv, Token
<1>3. WakeInv /\ FreshInv /\ QuietInv
  BY DEF Init, WakeInv, FreshInv, QuietInv
<1> QED
  BY <1>1, <1>2, <1>3 DEF IInv

\* A pool with budget left can pay for one more.
LEMMA BudgetType ==
    ASSUME TypeOK, NEW p \in Pools, HasBudget(p)
    PROVE  Budget(p) \in Nat /\ Budget(p) - 1 \in Nat
BY LimiterAssumption DEF TypeOK, HasBudget, Budget

\* Every step keeps the types.
LEMMA NextType == IInv /\ [Next]_vars => TypeOK'
<1> SUFFICES ASSUME IInv, [Next]_vars PROVE TypeOK'
  OBVIOUS
<1> USE DEF CallStates, ReqStates, DispatcherStates
<1>0. TypeOK /\ SlotInv
  BY DEF IInv
<1>1. ASSUME NEW c \in Calls, Arrive(c) PROVE TypeOK'
  BY <1>0, <1>1, StampType DEF TypeOK, Arrive, poolVars
<1>2. ASSUME NEW c \in Calls, Caller(c) \/ Cancel(c) PROVE TypeOK'
  BY <1>0, <1>2 DEF TypeOK, Caller, Enqueue, Kick, Return, Cancel, poolVars
<1>3. ASSUME NEW c \in Calls, NEW a \in Answers, NEW n \in Quotas, Respond(c, a, n)
      PROVE  TypeOK'
  <2>1. n \in Nat /\ PoolOf[c] \in Pools
    BY LimiterAssumption
  <2>2. /\ remaining' \in [Pools -> Nat]
        /\ reset' \in [Pools -> {"never", "ahead", "passed"}]
        /\ silent' \in [Pools -> BOOLEAN]
    <3>1. CASE UNCHANGED poolVars
      BY <1>0, <3>1 DEF TypeOK, poolVars
    <3>2. CASE /\ \E b \in {0, n} : remaining' = [remaining EXCEPT ![PoolOf[c]] = b]
               /\ reset' = [reset EXCEPT ![PoolOf[c]] = "ahead"]
               /\ \E b \in BOOLEAN : silent' = [silent EXCEPT ![PoolOf[c]] = b]
      BY <1>0, <2>1, <3>2 DEF TypeOK
    <3> QED
      BY <1>3, <3>1, <3>2 DEF Respond
  <2> QED
    BY <1>0, <1>3, <2>2 DEF TypeOK, Respond, callVars
<1>4. ASSUME NEW c \in Calls, FreeSlot(c) PROVE TypeOK'
  <2>1. c \in Working
    BY <1>4 DEF FreeSlot, Working
  <2>2. slots - 1 \in Nat
    BY <1>0, <2>1, SomeWorking, WorkingFinite DEF SlotInv, Token, TypeOK
  <2> QED
    BY <1>0, <1>4, <2>2 DEF TypeOK, FreeSlot, callVars, poolVars
<1>5. ASSUME NEW c \in Calls, KickAfter(c) \/ CloseDone(c) PROVE TypeOK'
  BY <1>0, <1>5 DEF TypeOK, KickAfter, CloseDone, callVars, poolVars
<1>6. ASSUME NEW c \in Calls, Dispatch(c) PROVE TypeOK'
  <2>1. PoolOf[c] \in Pools /\ Budget(PoolOf[c]) - 1 \in Nat
    BY <1>0, <1>6, BudgetType, LimiterAssumption DEF Dispatch, Admissible, Queue
  <2> QED
    BY <1>0, <1>6, <2>1 DEF TypeOK, Dispatch, callVars
<1>7. CASE GiveBack
  <2>1. slots - 1 \in Nat
    BY <1>0, <1>7, WorkingFinite DEF SlotInv, Token, GiveBack, TypeOK
  <2> QED
    BY <1>0, <1>7, <2>1 DEF TypeOK, GiveBack, callVars, poolVars
<1>8. CASE Acquire \/ PickNothing \/ Woken \/ TimerFires \/ Exit \/ Stop
  <2>1. UNCHANGED <<callVars, req, poolVars>>
    BY <1>8 DEF Acquire, PickNothing, Woken, TimerFires, Exit, Stop
  <2>2. dispatcher' \in DispatcherStates /\ slots' \in Nat
    BY <1>0, <1>8 DEF TypeOK, Acquire, PickNothing, Woken, TimerFires, Exit, Stop
  <2>3. wake' \in BOOLEAN /\ stopped' \in BOOLEAN
    BY <1>0, <1>8 DEF TypeOK, Acquire, PickNothing, Woken, TimerFires, Exit, Stop
  <2> QED
    BY <1>0, <2>1, <2>2, <2>3 DEF TypeOK, callVars, poolVars
<1>9. CASE ProbeReset
  BY <1>0, <1>9 DEF TypeOK, ProbeReset, callVars
<1>10. ASSUME NEW p \in Pools, ResetPasses(p) PROVE TypeOK'
  BY <1>0, <1>10 DEF TypeOK, ResetPasses, callVars
<1>11. CASE UNCHANGED vars
  BY <1>0, <1>11 DEF TypeOK, vars
<1> QED
  BY <1>1, <1>2, <1>3, <1>4, <1>5, <1>6, <1>7, <1>8, <1>9, <1>10, <1>11
     DEF Next, Worker, Dispatcher

\* Every step keeps slots and working requests in balance.
LEMMA NextSlot == IInv /\ [Next]_vars => SlotInv'
<1> SUFFICES ASSUME IInv, [Next]_vars PROVE SlotInv'
  OBVIOUS
<1>0. /\ TypeOK /\ SlotInv
      /\ IsFiniteSet(Working) /\ Cardinality(Working) \in Nat
      /\ Concurrency \in Nat
  BY WorkingFinite, LimiterAssumption DEF IInv
<1>1. ASSUME Working' = Working, UNCHANGED <<slots, dispatcher>> PROVE SlotInv'
  BY <1>0, <1>1 DEF SlotInv, Token
<1>2. ASSUME NEW c \in Calls, Arrive(c) \/ Kick(c) \/ Return(c) \/ Cancel(c) PROVE SlotInv'
  <2>1. Working' = Working
    BY <1>2 DEF Arrive, Kick, Return, Cancel, Working
  <2> QED
    BY <1>1, <1>2, <2>1 DEF Arrive, Kick, Return, Cancel
<1>3. CASE Stop \/ (\E p \in Pools : ResetPasses(p)) \/ UNCHANGED vars
  <2>1. Working' = Working
    BY <1>3 DEF Stop, ResetPasses, vars, Working
  <2> QED
    BY <1>1, <1>3, <2>1 DEF Stop, ResetPasses, vars
<1>4. ASSUME NEW c \in Calls, Enqueue(c) \/ KickAfter(c) \/ CloseDone(c),
             req[c] \notin {"running", "ran"}
      PROVE  SlotInv'
  <2>1. Working' = Working
    BY <1>0, <1>4 DEF Enqueue, KickAfter, CloseDone, Working, TypeOK
  <2> QED
    BY <1>1, <1>4, <2>1 DEF Enqueue, KickAfter, CloseDone
<1>5. ASSUME NEW c \in Calls, NEW a \in Answers, NEW n \in Quotas, Respond(c, a, n)
      PROVE  SlotInv'
  <2>1. Working' = Working
    BY <1>0, <1>5 DEF Respond, Working, TypeOK
  <2> QED
    BY <1>1, <1>5, <2>1 DEF Respond
<1>6. ASSUME NEW c \in Calls, FreeSlot(c) PROVE SlotInv'
  <2>1. c \in Working /\ Token' = Token /\ slots' = slots - 1
    BY <1>6 DEF FreeSlot, Working, Token
  <2>2. Cardinality(Working') = Cardinality(Working) - 1
    BY <1>0, <1>6, <2>1, OneLessWorking DEF FreeSlot
  <2> QED
    BY <1>0, <2>1, <2>2 DEF SlotInv, Token, TypeOK
<1>7. ASSUME NEW c \in Calls, Dispatch(c) PROVE SlotInv'
  <2>1. c \notin Working /\ Token = 1 /\ Token' = 0 /\ slots' = slots
    BY <1>7 DEF Dispatch, Admissible, Queue, Working, Token
  <2>2. Cardinality(Working') = Cardinality(Working) + 1
    BY <1>0, <1>7, <2>1, OneMoreWorking DEF Dispatch
  <2> QED
    BY <1>0, <2>1, <2>2 DEF SlotInv, TypeOK
<1>8. ASSUME UNCHANGED req, Acquire \/ GiveBack PROVE SlotInv'
  <2>1. Working' = Working
    BY <1>8 DEF Working
  <2> QED
    BY <1>0, <1>8, <2>1 DEF SlotInv, Token, Acquire, GiveBack, TypeOK
<1>9. ASSUME UNCHANGED <<req, slots>>,
             PickNothing \/ Woken \/ TimerFires \/ ProbeReset \/ Exit
      PROVE  SlotInv'
  <2>1. Working' = Working
    BY <1>9 DEF Working
  <2> QED
    BY <1>0, <1>9, <2>1
       DEF SlotInv, Token, PickNothing, Woken, TimerFires, ProbeReset, Exit
<1> QED
  <2>1. ASSUME NEW c \in Calls, Enqueue(c) PROVE req[c] \notin {"running", "ran"}
    BY <2>1 DEF IInv, FreshInv, Enqueue
  <2>2. ASSUME NEW c \in Calls, Enqueue(c) \/ KickAfter(c) \/ CloseDone(c) PROVE SlotInv'
    BY <1>4, <2>1, <2>2 DEF KickAfter, CloseDone
  <2>3. ASSUME Acquire \/ GiveBack PROVE SlotInv'
    BY <1>8, <2>3 DEF Acquire, GiveBack
  <2>4. ASSUME PickNothing \/ Woken \/ TimerFires \/ Exit \/ ProbeReset PROVE SlotInv'
    BY <1>9, <2>4 DEF PickNothing, Woken, TimerFires, ProbeReset, Exit
  <2> QED
    BY <1>2, <1>3, <1>5, <1>6, <1>7, <2>2, <2>3, <2>4
       DEF Next, Caller, Worker, Dispatcher

\* Every step keeps requests that are not queued from existing.
LEMMA NextFresh == IInv /\ [Next]_vars => FreshInv'
<1> SUFFICES ASSUME IInv, [Next]_vars, NEW c \in Calls
             PROVE  call'[c] \in {"idle", "stamped"} => req'[c] = "none"
  BY DEF FreshInv
<1>0. /\ TypeOK
      /\ call[c] \in {"idle", "stamped"} => req[c] = "none"
  BY DEF IInv, FreshInv
<1>1. ASSUME NEW d \in Calls, Arrive(d) \/ Caller(d) \/ Cancel(d) PROVE
        call'[c] \in {"idle", "stamped"} => req'[c] = "none"
  BY <1>0, <1>1 DEF TypeOK, Arrive, Caller, Enqueue, Kick, Return, Cancel
<1>2. ASSUME NEW d \in Calls, Worker(d) PROVE
        call'[c] \in {"idle", "stamped"} => req'[c] = "none"
  BY <1>0, <1>2 DEF TypeOK, Worker, Respond, FreeSlot, KickAfter, CloseDone, callVars
<1>3. ASSUME NEW d \in Calls, Dispatch(d) PROVE
        call'[c] \in {"idle", "stamped"} => req'[c] = "none"
  BY <1>0, <1>3 DEF TypeOK, Dispatch, Admissible, Queue, callVars
<1>4. CASE UNCHANGED <<call, req>>
  BY <1>0, <1>4
<1> QED
  BY <1>1, <1>2, <1>3, <1>4
     DEF Next, Dispatcher, Acquire, PickNothing, GiveBack, Woken, TimerFires,
         ProbeReset, Exit, ResetPasses, Stop, vars, callVars

-----------------------------------------------------------------------------
\* Wakeups

\* While nothing is dispatched, woken or picked, a kick that is coming is
\* not lost: it is only carried out.
LEMMA KickStays ==
    ASSUME TypeOK, KickComing,
           \/ \E c \in Calls : Arrive(c) \/ Caller(c) \/ Cancel(c) \/ Worker(c) \/ Dispatch(c)
           \/ UNCHANGED <<call, req, wake>>
    PROVE  KickComing'
<1>1. CASE wake
  <2>1. wake'
    BY <1>1 DEF Arrive, Caller, Enqueue, Kick, Return, Cancel, Worker, Respond, FreeSlot,
                KickAfter, CloseDone, Dispatch
  <2> QED
    BY <2>1 DEF KickComing
<1>2. CASE \E d \in Calls : call[d] = "queued" \/ req[d] \in {"ran", "freed"}
  <2>1. PICK d \in Calls : call[d] = "queued" \/ req[d] \in {"ran", "freed"}
    BY <1>2
  <2>2. ASSUME NEW c \in Calls, Arrive(c) \/ Caller(c) \/ Cancel(c) PROVE KickComing'
    BY <2>1, <2>2 DEF TypeOK, Arrive, Caller, Enqueue, Kick, Return, Cancel, KickComing
  <2>3. ASSUME NEW c \in Calls, Worker(c) PROVE KickComing'
    BY <2>1, <2>3
       DEF TypeOK, Worker, Respond, FreeSlot, KickAfter, CloseDone, callVars, KickComing
  <2>4. ASSUME NEW c \in Calls, Dispatch(c) PROVE KickComing'
    BY <2>1, <2>4 DEF TypeOK, Dispatch, Admissible, Queue, callVars, KickComing
  <2>5. CASE UNCHANGED <<call, req, wake>>
    BY <2>1, <2>5 DEF KickComing
  <2> QED
    BY <2>2, <2>3, <2>4, <2>5
<1> QED
  BY <1>1, <1>2 DEF KickComing

\* Every step leaves a wake-up behind for work that can be done.
LEMMA NextWake == IInv /\ [Next]_vars => WakeInv'
<1> SUFFICES ASSUME IInv, [Next]_vars PROVE WakeInv'
  OBVIOUS
<1>0. TypeOK /\ WakeInv
  BY DEF IInv
\* A dispatcher that is awake has nothing to miss.
<1>1. ASSUME dispatcher' \notin {"empty", "idle", "exhausted", "backoff"} PROVE WakeInv'
  BY <1>1 DEF WakeInv
<1>2. CASE PickNothing
  <2>1. Queue' = Queue /\ Admissible = {} /\ UNCHANGED remaining
    BY <1>2 DEF PickNothing, Queue, poolVars
  <2>2. \A c \in Queue : remaining[PoolOf[c]] = 0
    BY <1>0, <2>1, LimiterAssumption DEF Admissible, HasBudget, Queue, TypeOK
  <2>3. dispatcher' = IF Queue = {} THEN "empty" ELSE "exhausted"
    BY <1>2 DEF PickNothing
  <2> QED
    BY <2>1, <2>2, <2>3 DEF WakeInv
<1>3. CASE GiveBack
  <2>1. Queue' = Queue /\ UNCHANGED <<remaining, call, req, wake>>
    BY <1>3 DEF GiveBack, Queue, poolVars, callVars
  <2>2. CASE KickComing
    BY <1>0, <2>1, <2>2, KickStays DEF WakeInv
  <2>3. CASE ~KickComing
    BY <1>0, <1>3, <2>1, <2>3 DEF WakeInv, GiveBack
  <2> QED
    BY <2>2, <2>3
<1>4. ASSUME UNCHANGED <<dispatcher, remaining>>, Queue' \subseteq Queue, KickComing => KickComing'
      PROVE  WakeInv'
  BY <1>0, <1>4 DEF WakeInv
<1>5. ASSUME NEW c \in Calls, Arrive(c) \/ Kick(c) \/ Return(c) \/ Cancel(c) PROVE WakeInv'
  <2>1. UNCHANGED <<dispatcher, remaining>> /\ Queue' \subseteq Queue
    BY <1>5 DEF Arrive, Kick, Return, Cancel, poolVars, Queue
  <2> QED
    BY <1>0, <1>4, <1>5, <2>1, KickStays DEF Caller
<1>6. ASSUME NEW c \in Calls, FreeSlot(c) \/ KickAfter(c) \/ CloseDone(c) PROVE WakeInv'
  <2>1. UNCHANGED <<dispatcher, remaining>> /\ Queue' \subseteq Queue
    BY <1>0, <1>6 DEF FreeSlot, KickAfter, CloseDone, poolVars, Queue, TypeOK
  <2> QED
    BY <1>0, <1>4, <1>6, <2>1, KickStays DEF Worker
<1>7. ASSUME NEW p \in Pools, ResetPasses(p) PROVE WakeInv'
  BY <1>0, <1>4, <1>7, KickStays DEF ResetPasses, callVars, Queue
<1>8. CASE Stop \/ UNCHANGED vars
  BY <1>0, <1>4, <1>8, KickStays DEF Stop, vars, callVars, poolVars, Queue
\* The two steps that could give a sleeping dispatcher work announce a kick.
<1>9. ASSUME NEW c \in Calls, Enqueue(c) PROVE WakeInv'
  <2>1. call'[c] = "queued"
    BY <1>0, <1>9 DEF Enqueue, TypeOK
  <2> QED
    BY <2>1 DEF WakeInv, KickComing
<1>10. ASSUME NEW c \in Calls, NEW a \in Answers, NEW n \in Quotas, Respond(c, a, n)
       PROVE  WakeInv'
  <2>1. req'[c] = "ran"
    BY <1>0, <1>10 DEF Respond, TypeOK
  <2> QED
    BY <2>1 DEF WakeInv, KickComing
<1>11. CASE Acquire \/ Woken \/ TimerFires \/ ProbeReset \/ Exit \/ \E c \in Calls : Dispatch(c)
  BY <1>1, <1>11 DEF Acquire, Woken, TimerFires, ProbeReset, Exit, Dispatch
<1> QED
  BY <1>2, <1>3, <1>5, <1>6, <1>7, <1>8, <1>9, <1>10, <1>11
     DEF Next, Caller, Worker, Dispatcher

-----------------------------------------------------------------------------
\* Retry-After

\* Every step leaves a pool alone that GitHub asked to leave alone.
LEMMA NextQuiet == IInv /\ [Next]_vars => QuietInv'
<1> SUFFICES ASSUME IInv, [Next]_vars, NEW p \in Pools, silent'[p]
             PROVE  remaining'[p] = 0 /\ reset'[p] = "ahead"
  BY DEF QuietInv
<1>0. TypeOK /\ (silent[p] => remaining[p] = 0 /\ reset[p] = "ahead")
  BY DEF IInv, QuietInv
<1>1. CASE UNCHANGED poolVars
  BY <1>0, <1>1 DEF poolVars
<1>2. ASSUME NEW c \in Calls, NEW a \in Answers, NEW n \in Quotas, Respond(c, a, n)
      PROVE  remaining'[p] = 0 /\ reset'[p] = "ahead"
  <2>1. CASE p = PoolOf[c]
    BY <1>0, <1>1, <1>2, <2>1 DEF Respond, TypeOK
  <2>2. CASE p # PoolOf[c]
    BY <1>0, <1>1, <1>2, <2>2 DEF Respond, TypeOK
  <2> QED
    BY <2>1, <2>2
\* It is not the pool of a request that is dispatched, for it has no budget.
<1>3. ASSUME NEW c \in Calls, Dispatch(c) PROVE remaining'[p] = 0 /\ reset'[p] = "ahead"
  <2>1. silent[p] /\ HasBudget(PoolOf[c])
    BY <1>3 DEF Dispatch, Admissible
  <2>2. p # PoolOf[c]
    BY <1>0, <2>1 DEF HasBudget
  <2> QED
    BY <1>0, <1>3, <2>1, <2>2 DEF Dispatch, TypeOK
<1>4. CASE ProbeReset
  BY <1>0, <1>4 DEF ProbeReset, TypeOK
<1>5. ASSUME NEW q \in Pools, ResetPasses(q) PROVE remaining'[p] = 0 /\ reset'[p] = "ahead"
  BY <1>0, <1>5 DEF ResetPasses, TypeOK
<1> QED
  BY <1>1, <1>2, <1>3, <1>4, <1>5
     DEF Next, Arrive, Caller, Enqueue, Kick, Return, Cancel, Worker, FreeSlot, KickAfter,
         CloseDone, Dispatcher, Acquire, PickNothing, GiveBack, Woken, TimerFires, Exit, Stop,
         vars, poolVars

-----------------------------------------------------------------------------
\* The theorems

\* The inductive invariant.
LEMMA Invariance == Spec => []IInv
<1>1. IInv /\ [Next]_vars => IInv'
  BY NextType, NextSlot, NextFresh, NextWake, NextQuiet DEF IInv
<1> QED
  BY InitInv, <1>1, PTL DEF Spec

(***************************************************************************)
(* Every variable keeps its type; budgets and the number of slots taken    *)
(* never go below zero.                                                    *)
(***************************************************************************)
THEOREM TypeCorrect == Spec => []TypeOK
<1>1. IInv => TypeOK
  BY DEF IInv
<1> QED
  BY <1>1, Invariance, PTL

(***************************************************************************)
(* Never more than Concurrency requests are at GitHub.                     *)
(***************************************************************************)
THEOREM ConcurrencyBounded == Spec => []InFlightBounded
<1>1. IInv => InFlightBounded
  BY WorkingFinite, LimiterAssumption DEF IInv, SlotInv, Token, InFlightBounded
<1> QED
  BY <1>1, Invariance, PTL

(***************************************************************************)
(* The dispatcher never sleeps on work it could do with no kick coming.    *)
(***************************************************************************)
THEOREM NoWakeupLost == Spec => []NoLostWakeup
<1>1. IInv => NoLostWakeup
  BY DEF IInv, WakeInv, NoLostWakeup
<1> QED
  BY <1>1, Invariance, PTL

\* A queued request is started by the dispatcher alone.
LEMMA OnlyDispatchStarts ==
    ASSUME TypeOK, Next, NEW c \in Queue, req'[c] = "running" PROVE Dispatch(c)
<1>0. c \in Calls /\ req[c] = "queued"
  BY DEF Queue
<1>1. ASSUME NEW e \in Calls, Arrive(e) \/ Caller(e) \/ Cancel(e) \/ Worker(e) PROVE FALSE
  BY <1>0, <1>1
     DEF TypeOK, Arrive, Caller, Enqueue, Kick, Return, Cancel, Worker, Respond, FreeSlot,
         KickAfter, CloseDone
<1>2. ASSUME UNCHANGED req PROVE FALSE
  BY <1>0, <1>2
<1>3. ASSUME NEW e \in Calls, Dispatch(e) PROVE e = c
  BY <1>0, <1>3 DEF TypeOK, Dispatch
<1> QED
  BY <1>1, <1>2, <1>3
     DEF Next, Dispatcher, Acquire, PickNothing, GiveBack, Woken, TimerFires,
         ProbeReset, Exit, ResetPasses, Stop

(***************************************************************************)
(* No request overtakes a more urgent or older one of its pool.            *)
(***************************************************************************)
THEOREM PriorityOrder == Spec => InOrder
<1>1. ASSUME IInv, Next, NEW c \in Queue, NEW d \in Queue,
             req'[c] = "running", PoolOf[c] = PoolOf[d]
      PROVE  /\ Priority[c] <= Priority[d]
             /\ Priority[c] = Priority[d] => stamp[c] <= stamp[d]
  <2>0. /\ TypeOK /\ c \in Calls /\ d \in Calls /\ req[c] = "queued"
        /\ Priority[c] \in Nat /\ Priority[d] \in Nat
        /\ stamp[c] \in Nat /\ stamp[d] \in Nat
    BY <1>1, LimiterAssumption DEF IInv, TypeOK, Queue
  <2>1. Dispatch(c)
    BY <1>1, <2>0, OnlyDispatchStarts
  <2>2. d \in Admissible
    BY <1>1, <2>1 DEF Dispatch, Admissible
  <2>3. c = d \/ Before(c, d)
    BY <2>1, <2>2 DEF Dispatch
  <2> QED
    BY <2>0, <2>3 DEF Before
<1>2. IInv /\ [Next]_vars =>
        [\A c, d \in Queue :
           /\ req'[c] = "running"
           /\ PoolOf[c] = PoolOf[d]
           => Priority[c] <= Priority[d]
              /\ (Priority[c] = Priority[d] => stamp[c] <= stamp[d])]_vars
  BY <1>1
<1> QED
  BY <1>2, Invariance, PTL DEF Spec, InOrder

(***************************************************************************)
(* Nothing is sent to a pool under a Retry-After before that has passed.   *)
(***************************************************************************)
THEOREM RetryAfterIsHonoured == Spec => RetryAfterHonoured
<1>1. ASSUME IInv, Next, NEW c \in Queue, req'[c] = "running" PROVE ~silent[PoolOf[c]]
  <2>1. Dispatch(c) /\ PoolOf[c] \in Pools
    BY <1>1, OnlyDispatchStarts, LimiterAssumption DEF IInv, Queue
  <2>2. HasBudget(PoolOf[c])
    BY <2>1 DEF Dispatch, Admissible
  <2> QED
    BY <1>1, <2>1, <2>2 DEF IInv, QuietInv, HasBudget
<1>2. IInv /\ [Next]_vars =>
        [\A c \in Queue : req'[c] = "running" => ~silent[PoolOf[c]]]_vars
  BY <1>1
<1> QED
  BY <1>2, Invariance, PTL DEF Spec, RetryAfterHonoured
=============================================================================
