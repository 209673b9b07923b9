---------------------------- MODULE FanOutProofs ----------------------------
(***************************************************************************)
(* Safety of FanOut for every number of items and of workers.              *)
(***************************************************************************)
EXTENDS FanOut, TLAPS

Engaged(w) == worker[w] \in {"received", "mutating", "landed"}

(***************************************************************************)
(* A worker that is engaged owns its item: it was sent, nobody else has    *)
(* it, and neither of its slots is written.                                *)
(***************************************************************************)
WorkerInv ==
    \A w \in Workers : Engaged(w) =>
        /\ lane \in {"feeding", "closing", "joining"}
        /\ item[w] \in Items
        /\ item[w] < next
        /\ results[item[w]] = "zero"
        /\ errs[item[w]] = "nil"
        /\ effect[item[w]] <=> worker[w] = "landed"
        /\ \A v \in Workers \ {w} : Engaged(v) => item[v] # item[w]

(***************************************************************************)
(* An item that was sent is owned or has one outcome; one that was not is  *)
(* untouched until the drain fails it.                                     *)
(***************************************************************************)
ItemInv ==
    \A i \in Items :
        /\ i < next => \/ results[i] # "zero"
                       \/ errs[i] # "nil"
                       \/ \E w \in Workers : Engaged(w) /\ item[w] = i
        /\ i >= next => /\ results[i] = "zero"
                        /\ ~effect[i]
                        /\ errs[i] = "nil" <=> lane \in {"planning", "feeding", "failed"}
        /\ results[i] # "zero" => errs[i] = "nil"
        /\ results[i] = "success" => effect[i]
        /\ errs[i] = "ctx" => ~effect[i]

(***************************************************************************)
(* The order of the lane's stages.                                         *)
(***************************************************************************)
StageInv ==
    /\ closed => lane \in {"joining", "reporting", "done"}
    /\ lane \in {"reporting", "done"} => \A w \in Workers : worker[w] = "gone"
    /\ \A i \in Items : report[i] =
          IF lane # "done" THEN "none"
          ELSE IF errs[i] # "nil" /\ ~Discards THEN "dropped" ELSE results[i]

IInv == TypeOK /\ WorkerInv /\ ItemInv /\ StageInv

USE DEF Items, LaneStates, WorkerStates

\* The invariant holds at the start.
LEMMA InitInv == Init => IInv
<1> SUFFICES ASSUME Init PROVE IInv
  OBVIOUS
<1>1. TypeOK
  <2>1. 1 \in 1 .. Len + 1 /\ 0 \in 0 .. Len
    BY FanOutAssumption
  <2> QED
    BY <2>1 DEF Init, TypeOK
<1>2. WorkerInv /\ StageInv
  BY DEF Init, WorkerInv, StageInv, Engaged
<1>3. ItemInv
  BY FanOutAssumption DEF Init, ItemInv
<1> QED
  BY <1>1, <1>2, <1>3 DEF IInv

\* Every step keeps the types.
LEMMA NextType == IInv /\ [Next]_vars => TypeOK'
<1> SUFFICES ASSUME IInv, [Next]_vars PROVE TypeOK'
  OBVIOUS
<1> USE FanOutAssumption
<1>1. ASSUME Plan \/ LaneFails \/ Drain \/ Close \/ Join \/ Cancel \/ UNCHANGED vars
      PROVE  TypeOK'
  BY <1>1 DEF IInv, TypeOK, Plan, LaneFails, Drain, Close, Join, Cancel, mapVars, vars
<1>2. CASE Report
  <2>1. report' \in [Items -> {"none", "zero", "success", "failure", "dropped"}]
    BY <1>2 DEF Report, IInv, TypeOK
  <2> QED
    BY <1>2, <2>1 DEF IInv, TypeOK, Report, mapVars
<1>3. ASSUME NEW w \in Workers, Send(w) PROVE TypeOK'
  BY <1>3 DEF IInv, TypeOK, Send
<1>4. ASSUME NEW w \in Workers, Skip(w) \/ Run(w) \/ Land(w) \/ Return(w) \/ Leave(w) \/ Panic(w)
      PROVE  TypeOK'
  <2>1. Engaged(w) => item[w] \in Items
    BY DEF IInv, WorkerInv
  <2>2. CASE Skip(w) \/ Run(w)
    BY <2>1, <2>2 DEF IInv, TypeOK, Skip, Run, Engaged
  <2>3. CASE Land(w) \/ Return(w)
    BY <2>1, <2>3 DEF IInv, TypeOK, Land, Return, Engaged
  <2>4. CASE Leave(w) \/ Panic(w)
    BY <2>4 DEF IInv, TypeOK, Leave, Panic, mapVars
  <2> QED
    BY <1>4, <2>2, <2>3, <2>4
<1> QED
  BY <1>1, <1>2, <1>3, <1>4 DEF Next, Lane, Feed, Worker

\* Every step keeps what the stage of the fan-out says.
LEMMA NextStage == IInv /\ [Next]_vars => StageInv'
<1> SUFFICES ASSUME IInv, [Next]_vars PROVE StageInv'
  OBVIOUS
<1>0. TypeOK /\ StageInv /\ WorkerInv
  BY DEF IInv
<1>0a. ASSUME lane # "done", lane' # "done", UNCHANGED report
       PROVE  \A i \in Items : report'[i] =
                 IF lane' # "done" THEN "none"
                 ELSE IF errs'[i] # "nil" /\ ~Discards THEN "dropped" ELSE results'[i]
  BY <1>0, <1>0a DEF StageInv
<1>1. ASSUME Plan \/ LaneFails \/ Drain \/ Close \/ Join PROVE StageInv'
  <2>1. lane # "done" /\ lane' # "done" /\ UNCHANGED report
    BY <1>1 DEF Plan, LaneFails, Drain, Close, Join
  <2>2. closed' => lane' \in {"joining", "reporting", "done"}
    BY <1>0, <1>1 DEF StageInv, Plan, LaneFails, Drain, Close, Join, mapVars
  <2>3. lane' \in {"reporting", "done"} => \A w \in Workers : worker'[w] = "gone"
    BY <1>0, <1>1 DEF StageInv, Plan, LaneFails, Drain, Close, Join, mapVars
  <2> QED
    BY <1>0a, <2>1, <2>2, <2>3 DEF StageInv
<1>2. CASE Report
  BY <1>0, <1>2 DEF TypeOK, StageInv, Report, mapVars
<1>3. ASSUME NEW w \in Workers, Send(w) PROVE StageInv'
  BY <1>0, <1>3 DEF TypeOK, StageInv, Send
<1>4. ASSUME NEW w \in Workers, Skip(w) \/ Run(w) \/ Land(w) \/ Return(w) PROVE StageInv'
  <2>1. lane \notin {"reporting", "done"}
    BY <1>0, <1>4 DEF StageInv, Skip, Run, Land, Return
  <2>2. UNCHANGED <<lane, closed, report>>
    BY <1>4 DEF Skip, Run, Land, Return
  <2> QED
    BY <1>0, <1>0a, <2>1, <2>2 DEF StageInv
<1>5. ASSUME NEW w \in Workers, Leave(w) PROVE StageInv'
  BY <1>0, <1>5 DEF TypeOK, StageInv, Leave
<1>6. ASSUME UNCHANGED <<lane, mapVars, report>> PROVE StageInv'
  BY <1>0, <1>6 DEF StageInv, mapVars
<1> QED
  BY <1>1, <1>2, <1>3, <1>4, <1>5, <1>6
     DEF Next, Lane, Feed, Worker, Cancel, Panic, vars, mapVars

\* Every step keeps what is known of the workers.
LEMMA NextWorker == IInv /\ [Next]_vars => WorkerInv'
<1> SUFFICES ASSUME IInv, [Next]_vars PROVE WorkerInv'
  OBVIOUS
<1>0. TypeOK /\ StageInv /\ WorkerInv /\ ItemInv
  BY DEF IInv
<1>1. ASSUME UNCHANGED <<worker, item, next, results, effect>>,
             \A i \in Items : i < next => errs'[i] = errs[i],
             lane' \in {"feeding", "closing", "joining"} \/ \A w \in Workers : ~Engaged(w)
      PROVE  WorkerInv'
  BY <1>0, <1>1 DEF WorkerInv, Engaged
<1>2. CASE Plan \/ Close \/ Cancel \/ UNCHANGED vars
  BY <1>0, <1>1, <1>2 DEF Plan, Close, Cancel, vars, mapVars, WorkerInv
<1>3. CASE LaneFails \/ Join \/ Report
  <2>1. \A w \in Workers : ~Engaged(w)
    BY <1>0, <1>3 DEF LaneFails, Join, Report, WorkerInv, Engaged
  <2> QED
    BY <1>1, <1>3, <2>1 DEF LaneFails, Join, Report, mapVars
<1>4. CASE Drain
  <2>1. \A i \in Items : i < next => errs'[i] = errs[i]
    BY <1>0, <1>4 DEF Drain, TypeOK
  <2> QED
    BY <1>1, <1>4, <2>1 DEF Drain
<1>5. ASSUME NEW w \in Workers, Send(w) PROVE WorkerInv'
  <2>1. next \in Items /\ next' = next + 1 /\ item'[w] = next /\ worker'[w] = "received"
    BY <1>0, <1>5 DEF Send, TypeOK
  <2>2. results[next] = "zero" /\ errs[next] = "nil" /\ ~effect[next]
    BY <1>0, <1>5, <2>1, FanOutAssumption DEF ItemInv, Send
  <2>3. \A v \in Workers \ {w} : item'[v] = item[v] /\ worker'[v] = worker[v]
    BY <1>0, <1>5 DEF Send, TypeOK
  <2>4. next \in Nat /\ UNCHANGED <<lane, results, errs, effect>> /\ lane = "feeding"
    BY <1>0, <1>5 DEF TypeOK, Send
  <2> QED
    BY <1>0, <2>1, <2>2, <2>3, <2>4 DEF WorkerInv, Engaged
<1>6. ASSUME NEW w \in Workers, Engaged(w),
             ~Engaged(w)' \/ (Engaged(w)' /\ item'[w] = item[w]
                              /\ results'[item[w]] = "zero" /\ errs'[item[w]] = "nil"
                              /\ (effect'[item[w]] <=> worker'[w] = "landed")),
             UNCHANGED <<lane, next>>,
             \A v \in Workers \ {w} : worker'[v] = worker[v] /\ item'[v] = item[v],
             \A i \in Items \ {item[w]} :
                results'[i] = results[i] /\ errs'[i] = errs[i] /\ effect'[i] = effect[i]
      PROVE  WorkerInv'
  <2> SUFFICES ASSUME NEW v \in Workers, Engaged(v)'
               PROVE  /\ lane' \in {"feeding", "closing", "joining"}
                      /\ item'[v] \in Items
                      /\ item'[v] < next'
                      /\ results'[item'[v]] = "zero"
                      /\ errs'[item'[v]] = "nil"
                      /\ effect'[item'[v]] <=> worker'[v] = "landed"
                      /\ \A u \in Workers \ {v} : Engaged(u)' => item'[u] # item'[v]
    BY DEF WorkerInv, Engaged
  <2>1. CASE v = w
    BY <1>0, <1>6, <2>1 DEF WorkerInv, Engaged
  <2>2. CASE v # w
    <3>1. Engaged(v) /\ item[v] # item[w] /\ item'[v] = item[v] /\ worker'[v] = worker[v]
      BY <1>0, <1>6, <2>2 DEF WorkerInv, Engaged
    <3>2. item[v] \in Items \ {item[w]}
      BY <1>0, <3>1 DEF WorkerInv
    <3>3. \A u \in Workers \ {v} : Engaged(u)' => item'[u] # item'[v]
      BY <1>0, <1>6, <3>1 DEF WorkerInv, Engaged
    <3> QED
      BY <1>0, <1>6, <3>1, <3>2, <3>3 DEF WorkerInv
  <2> QED
    BY <2>1, <2>2
<1>7. ASSUME NEW w \in Workers, Skip(w) \/ Run(w) \/ Land(w) \/ Return(w) PROVE WorkerInv'
  <2>1. Engaged(w) /\ item[w] \in Items
    BY <1>0, <1>7 DEF Skip, Run, Land, Return, Engaged, WorkerInv
  <2>2. /\ results[item[w]] = "zero" /\ errs[item[w]] = "nil"
        /\ effect[item[w]] <=> worker[w] = "landed"
    BY <1>0, <2>1 DEF WorkerInv
  <2>3. /\ \A v \in Workers \ {w} : worker'[v] = worker[v] /\ item'[v] = item[v]
        /\ UNCHANGED <<lane, next, item>>
    BY <1>0, <1>7 DEF Skip, Run, Land, Return, TypeOK
  <2>4. CASE Skip(w) \/ Return(w)
    <3>1. ~Engaged(w)'
      BY <1>0, <2>4 DEF Skip, Return, Engaged, TypeOK
    <3>2. \A i \in Items \ {item[w]} :
            results'[i] = results[i] /\ errs'[i] = errs[i] /\ effect'[i] = effect[i]
      BY <1>0, <2>1, <2>4 DEF Skip, Return, TypeOK
    <3> QED
      BY <1>6, <2>1, <2>3, <3>1, <3>2
  <2>5. CASE Run(w)
    <3>1. worker'[w] = "mutating" /\ worker[w] = "received"
          /\ UNCHANGED <<results, errs, effect>>
      BY <1>0, <2>5 DEF Run, TypeOK
    <3> QED
      BY <1>6, <2>1, <2>2, <2>3, <3>1 DEF Engaged
  <2>6. CASE Land(w)
    <3>1. worker'[w] = "landed" /\ UNCHANGED <<results, errs>> /\ effect'[item[w]]
      BY <1>0, <2>1, <2>6 DEF Land, TypeOK
    <3>2. \A i \in Items \ {item[w]} : effect'[i] = effect[i]
      BY <1>0, <2>1, <2>6 DEF Land, TypeOK
    <3> QED
      BY <1>6, <2>1, <2>2, <2>3, <3>1, <3>2 DEF Engaged
  <2> QED
    BY <1>7, <2>4, <2>5, <2>6
<1>8. ASSUME NEW w \in Workers, Leave(w) PROVE WorkerInv'
  <2>1. \A v \in Workers : Engaged(v)' => Engaged(v) /\ worker'[v] = worker[v]
    BY <1>0, <1>8 DEF Leave, Engaged, TypeOK
  <2> QED
    BY <1>0, <1>8, <2>1 DEF Leave, WorkerInv
<1>9. ASSUME NEW w \in Workers, Panic(w) PROVE WorkerInv'
  BY <1>0, <1>9 DEF Panic, mapVars, WorkerInv, Engaged
<1> QED
  BY <1>2, <1>3, <1>4, <1>5, <1>7, <1>8, <1>9 DEF Next, Lane, Feed, Worker

\* Every step keeps what is known of the items.
LEMMA NextItem == IInv /\ [Next]_vars => ItemInv'
<1> SUFFICES ASSUME IInv, [Next]_vars PROVE ItemInv'
  OBVIOUS
<1>0. TypeOK /\ StageInv /\ WorkerInv /\ ItemInv
  BY DEF IInv
<1>1. ASSUME UNCHANGED <<next, results, errs, effect, worker, item>>,
             lane' \in {"planning", "feeding", "failed"} <=>
                lane \in {"planning", "feeding", "failed"}
      PROVE  ItemInv'
  BY <1>0, <1>1 DEF ItemInv, Engaged
<1>2. CASE Plan \/ LaneFails \/ Join \/ Report \/ Cancel \/ UNCHANGED vars
  BY <1>1, <1>2 DEF Plan, LaneFails, Join, Report, Cancel, vars, mapVars
<1>3. CASE Close
  <2>1. CASE lane = "closing"
    BY <1>1, <1>3, <2>1 DEF Close
  <2>2. CASE lane # "closing"
    <3>1. \A i \in Items : ~(i >= next)
      BY <1>0, <1>3, <2>2, FanOutAssumption DEF Close, TypeOK
    <3> QED
      BY <1>0, <1>3, <3>1 DEF Close, ItemInv, Engaged
  <2> QED
    BY <2>1, <2>2
<1>4. CASE Drain
  <2>1. \A i \in Items : errs'[i] = IF i >= next THEN "ctx" ELSE errs[i]
    BY <1>4 DEF Drain
  <2>2. \A i \in Items : i < next \/ i >= next
    BY <1>0, FanOutAssumption DEF TypeOK
  <2> QED
    BY <1>0, <1>4, <2>1, <2>2, FanOutAssumption DEF Drain, ItemInv, Engaged, TypeOK
<1>5. ASSUME NEW w \in Workers, Send(w) PROVE ItemInv'
  <2>1. /\ next' = next + 1 /\ item'[w] = next /\ worker'[w] = "received"
        /\ \A v \in Workers : Engaged(v) => worker'[v] = worker[v] /\ item'[v] = item[v]
        /\ UNCHANGED <<lane, results, errs, effect>>
    BY <1>0, <1>5 DEF Send, TypeOK, Engaged
  <2>2. \A i \in Items : i < next' => i < next \/ i = next
    BY <1>0, <2>1, FanOutAssumption DEF TypeOK
  <2>3. \A i \in Items : i >= next' => i >= next
    BY <1>0, <2>1, FanOutAssumption DEF TypeOK
  <2> QED
    BY <1>0, <2>1, <2>2, <2>3 DEF ItemInv, Engaged
\* A worker's step concerns its own item only.
<1>6. ASSUME NEW w \in Workers, Engaged(w),
             UNCHANGED <<lane, next, item>>,
             \A v \in Workers \ {w} : worker'[v] = worker[v],
             \A i \in Items \ {item[w]} :
                results'[i] = results[i] /\ errs'[i] = errs[i] /\ effect'[i] = effect[i],
             \/ results'[item[w]] # "zero"
             \/ errs'[item[w]] # "nil"
             \/ Engaged(w)',
             /\ results'[item[w]] # "zero" => errs'[item[w]] = "nil"
             /\ results'[item[w]] = "success" => effect'[item[w]]
             /\ errs'[item[w]] = "ctx" => ~effect'[item[w]]
      PROVE  ItemInv'
  <2>1. item[w] \in Items /\ item[w] < next /\ ~(item[w] >= next)
    BY <1>0, <1>6, FanOutAssumption DEF WorkerInv, TypeOK
  <2> SUFFICES ASSUME NEW i \in Items
               PROVE  /\ i < next' => \/ results'[i] # "zero"
                                      \/ errs'[i] # "nil"
                                      \/ \E v \in Workers : Engaged(v)' /\ item'[v] = i
                      /\ i >= next' => /\ results'[i] = "zero"
                                       /\ ~effect'[i]
                                       /\ errs'[i] = "nil" <=> lane' \in {"planning", "feeding", "failed"}
                      /\ results'[i] # "zero" => errs'[i] = "nil"
                      /\ results'[i] = "success" => effect'[i]
                      /\ errs'[i] = "ctx" => ~effect'[i]
    BY DEF ItemInv, Engaged
  <2>2. CASE i = item[w]
    BY <1>6, <2>1, <2>2
  <2>3. CASE i # item[w]
    <3>1. results'[i] = results[i] /\ errs'[i] = errs[i] /\ effect'[i] = effect[i]
      BY <1>6, <2>3
    <3>2. \A v \in Workers : Engaged(v) /\ item[v] = i => Engaged(v)' /\ item'[v] = i
      BY <1>6, <2>3 DEF Engaged
    <3> QED
      BY <1>0, <1>6, <3>1, <3>2 DEF ItemInv
  <2> QED
    BY <2>2, <2>3
<1>7. ASSUME NEW w \in Workers, Skip(w) \/ Run(w) \/ Land(w) \/ Return(w) PROVE ItemInv'
  <2>1. Engaged(w) /\ item[w] \in Items
    BY <1>0, <1>7 DEF Skip, Run, Land, Return, Engaged, WorkerInv
  <2>2. /\ results[item[w]] = "zero" /\ errs[item[w]] = "nil"
        /\ effect[item[w]] <=> worker[w] = "landed"
    BY <1>0, <2>1 DEF WorkerInv
  <2>3. /\ \A v \in Workers \ {w} : worker'[v] = worker[v]
        /\ UNCHANGED <<lane, next, item>>
    BY <1>0, <1>7 DEF Skip, Run, Land, Return, TypeOK
  <2>4. \A i \in Items \ {item[w]} :
           results'[i] = results[i] /\ errs'[i] = errs[i] /\ effect'[i] = effect[i]
    BY <1>0, <1>7, <2>1 DEF Skip, Run, Land, Return, TypeOK
  <2>5. CASE Skip(w)
    <3>1. errs'[item[w]] = "ctx" /\ UNCHANGED <<results, effect>> /\ worker[w] = "received"
      BY <1>0, <2>1, <2>5 DEF Skip, TypeOK
    <3> QED
      BY <1>6, <2>1, <2>2, <2>3, <2>4, <3>1
  <2>6. CASE Run(w) \/ Land(w)
    <3>1. Engaged(w)' /\ UNCHANGED <<results, errs>>
      BY <1>0, <2>6 DEF Run, Land, Engaged, TypeOK
    <3> QED
      BY <1>6, <2>1, <2>2, <2>3, <2>4, <3>1
  <2>7. CASE Return(w)
    <3>1. /\ results'[item[w]] = "failure" \/ (results'[item[w]] = "success" /\ worker[w] = "landed")
          /\ UNCHANGED <<errs, effect>>
      BY <1>0, <2>1, <2>7 DEF Return, TypeOK
    <3> QED
      BY <1>6, <2>1, <2>2, <2>3, <2>4, <3>1
  <2> QED
    BY <1>7, <2>5, <2>6, <2>7
<1>8. ASSUME NEW w \in Workers, Leave(w) PROVE ItemInv'
  <2>1. \A v \in Workers : Engaged(v) <=> Engaged(v)'
    BY <1>0, <1>8 DEF Leave, Engaged, TypeOK
  <2>2. UNCHANGED <<lane, next, item, results, errs, effect>>
    BY <1>8 DEF Leave
  <2> QED
    BY <1>0, <2>1, <2>2 DEF ItemInv
<1>9. ASSUME NEW w \in Workers, Panic(w) PROVE ItemInv'
  BY <1>1, <1>9 DEF Panic, mapVars
<1> QED
  BY <1>2, <1>3, <1>4, <1>5, <1>7, <1>8, <1>9 DEF Next, Lane, Feed, Worker

\* The inductive invariant.
LEMMA Invariance == Spec => []IInv
<1>1. IInv /\ [Next]_vars => IInv'
  BY NextType, NextStage, NextWorker, NextItem DEF IInv
<1> QED
  BY InitInv, <1>1, PTL DEF Spec

-----------------------------------------------------------------------------

(***************************************************************************)
(* Every variable keeps its type; no index leaves the slices.              *)
(***************************************************************************)
THEOREM TypeCorrect == Spec => []TypeOK
<1>1. IInv => TypeOK
  BY DEF IInv
<1> QED
  BY <1>1, Invariance, PTL

(***************************************************************************)
(* Map returns one outcome per item and leaves no worker behind.           *)
(***************************************************************************)
LEMMA OutcomeFromInv == IInv => OneOutcomeEach
<1> SUFFICES ASSUME IInv, lane \in {"reporting", "done"}
             PROVE  /\ \A i \in Items : results[i] = "zero" <=> errs[i] = "ctx"
                    /\ \A w \in Workers : worker[w] = "gone"
  BY DEF OneOutcomeEach
<1>1. \A w \in Workers : worker[w] = "gone"
  BY DEF IInv, StageInv
<1>2. ASSUME NEW i \in Items PROVE results[i] = "zero" <=> errs[i] = "ctx"
  <2>1. errs[i] \in {"nil", "ctx"}
    BY DEF IInv, TypeOK
  <2>2. CASE i < next
    BY <1>1, <2>1, <2>2 DEF IInv, ItemInv, Engaged
  <2>3. CASE i >= next
    BY <2>1, <2>3 DEF IInv, ItemInv
  <2> QED
    BY <2>2, <2>3, FanOutAssumption DEF IInv, TypeOK
<1> QED
  BY <1>1, <1>2

\* When Map has returned, each item has a result or an error and no worker is left.
THEOREM OneOutcomePerItem == Spec => []OneOutcomeEach
BY OutcomeFromInv, Invariance, PTL

(***************************************************************************)
(* A reported success was performed and a dropped mutation was not.        *)
(***************************************************************************)
THEOREM ReportsAreTrue == Spec => []ReportTruthful
<1>1. IInv => ReportTruthful
  <2> SUFFICES ASSUME IInv, NEW i \in Items
               PROVE  /\ report[i] = "success" => effect[i]
                      /\ report[i] \in {"dropped", "zero"} => ~effect[i]
    BY DEF ReportTruthful
  <2>1. /\ results[i] = "success" => effect[i]
        /\ errs[i] = "ctx" => ~effect[i]
        /\ errs[i] \in {"nil", "ctx"} /\ results[i] \in {"zero", "success", "failure"}
    BY DEF IInv, ItemInv, TypeOK
  <2>2. report[i] = IF lane # "done" THEN "none"
                    ELSE IF errs[i] # "nil" /\ ~Discards THEN "dropped" ELSE results[i]
    BY DEF IInv, StageInv
  <2>3. lane = "done" => (results[i] = "zero" <=> errs[i] = "ctx")
    BY OutcomeFromInv DEF OneOutcomeEach
  <2> QED
    BY <2>1, <2>2, <2>3
<1> QED
  BY <1>1, Invariance, PTL

(***************************************************************************)
(* A lane that looks at Map's errors names every item in its report.       *)
(***************************************************************************)
THEOREM NothingDropped ==
    ASSUME ~Discards
    PROVE  Spec => []EveryItemNamed
<1>1. IInv => EveryItemNamed
  <2> SUFFICES ASSUME IInv, lane = "done", NEW i \in Items
               PROVE  report[i] \notin {"none", "zero"}
    BY DEF EveryItemNamed
  <2>1. errs[i] \in {"nil", "ctx"} /\ results[i] \in {"zero", "success", "failure"}
    BY DEF IInv, TypeOK
  <2>2. results[i] = "zero" <=> errs[i] = "ctx"
    BY OutcomeFromInv DEF OneOutcomeEach
  <2>3. report[i] = IF errs[i] # "nil" THEN "dropped" ELSE results[i]
    BY DEF IInv, StageInv
  <2> QED
    BY <2>1, <2>2, <2>3
<1> QED
  BY <1>1, Invariance, PTL

(***************************************************************************)
(* No slot of the two shared slices is written twice.                      *)
(***************************************************************************)
THEOREM SlotsWrittenOnce == Spec => WrittenOnce
<1>1. ASSUME IInv, Next, NEW i \in Items, results[i] # "zero" \/ errs[i] # "nil"
      PROVE  results'[i] = results[i] /\ errs'[i] = errs[i]
  <2>0. TypeOK /\ WorkerInv /\ ItemInv
    BY <1>1 DEF IInv
  <2>1. CASE UNCHANGED <<results, errs>>
    BY <2>1
  <2>2. CASE Drain
    BY <1>1, <2>0, <2>2 DEF Drain, ItemInv
  <2>3. ASSUME NEW w \in Workers, Skip(w) \/ Return(w)
        PROVE  results'[i] = results[i] /\ errs'[i] = errs[i]
    <3>1. item[w] # i /\ item[w] \in Items
      BY <1>1, <2>0, <2>3 DEF WorkerInv, Engaged, Skip, Return
    <3> QED
      BY <2>0, <2>3, <3>1 DEF Skip, Return, TypeOK
  <2> QED
    BY <1>1, <2>1, <2>2, <2>3
       DEF Next, Lane, Feed, Worker, Plan, LaneFails, Close, Join, Report, Cancel,
           Send, Run, Land, Leave, Panic, mapVars
<1>2. IInv /\ [Next]_vars =>
        [\A i \in Items : results[i] # "zero" \/ errs[i] # "nil" =>
           results'[i] = results[i] /\ errs'[i] = errs[i]]_vars
  BY <1>1
<1> QED
  BY <1>2, Invariance, PTL DEF Spec, WrittenOnce
=============================================================================
