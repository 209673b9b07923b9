------------------------------- MODULE FanOut -------------------------------
(***************************************************************************)
(* One lane that has several mutations to send: conc.Map                   *)
(* (internal/conc/conc.go) with its feeder, its unbuffered jobs channel    *)
(* and its workers, inside a lane's Run (internal/applier/helpers.go,      *)
(* branches.go) inside runLane (internal/reconciler/reconciler.go).        *)
(*                                                                         *)
(* Item i is the i-th actionable diff.  Its mutation reaches GitHub or     *)
(* not, and then succeeds or fails for the worker that sent it.            *)
(***************************************************************************)
EXTENDS Integers, FiniteSets

CONSTANTS
    Len,          \* number of actionable diffs
    Requested,    \* workers asked for (DefaultApplierConcurrency = 5)
    Discards,     \* the lane ignores Map's errors (branches.go)
    Faults        \* which of "cancel", "mutation", "lane", "panic" may happen

ASSUME FanOutAssumption ==
    /\ Len \in Nat \ {0}
    /\ Requested \in Int
    /\ Discards \in BOOLEAN

Items == 1 .. Len

\* At least one worker, and no more than items.
Workers == 1 .. (IF Requested < 1 THEN 1 ELSE IF Requested > Len THEN Len ELSE Requested)

VARIABLES
    lane,       \* where the goroutine of the lane stands
    next,       \* the next item the feeder sends
    closed,     \* the jobs channel is closed
    worker,     \* worker[w]: where worker w stands
    item,       \* item[w]: what worker w received last, 0 at first
    results,    \* results[i]: Map's result slot, "zero" until it is written
    errs,       \* errs[i]: Map's error slot
    effect,     \* effect[i]: the mutation was performed by GitHub
    report,     \* report[i]: what the lane returns for item i
    cancelled,  \* the context is done
    process     \* "up", or "crashed" by a panic nobody recovers

mapVars == <<next, closed, worker, item, results, errs>>
vars == <<lane, next, closed, worker, item, results, errs, effect, report,
          cancelled, process>>

Init ==
    /\ lane = "planning"
    /\ next = 1
    /\ closed = FALSE
    /\ worker = [w \in Workers |-> "idle"]
    /\ item = [w \in Workers |-> 0]
    /\ results = [i \in Items |-> "zero"]
    /\ errs = [i \in Items |-> "nil"]
    /\ effect = [i \in Items |-> FALSE]
    /\ report = [i \in Items |-> "none"]
    /\ cancelled = FALSE
    /\ process = "up"

-----------------------------------------------------------------------------
\* The lane

\* Live state was read and compared; there is something to send.
Plan ==
    /\ lane = "planning"
    /\ lane' = "feeding"
    /\ UNCHANGED <<mapVars, effect, report, cancelled, process>>

\* runLane makes one failed result of an error or of a panic of the lane's
\* own goroutine.
LaneFails ==
    /\ lane = "planning"
    /\ "lane" \in Faults \/ cancelled
    /\ lane' = "failed"
    /\ UNCHANGED <<mapVars, effect, report, cancelled, process>>

ReportOnlyResults ==                 \* mutant: errors are always discarded
    /\ lane = "reporting"
    /\ report' = results
    /\ lane' = "done"
    /\ UNCHANGED <<mapVars, effect, cancelled, process>>

\* Slots with an error are named as failures, unless the errors are discarded.
Report ==
    /\ lane = "reporting"
    /\ report' = [i \in Items |->
          IF errs[i] # "nil" /\ ~Discards THEN "dropped" ELSE results[i]]
    /\ lane' = "done"
    /\ UNCHANGED <<mapVars, effect, cancelled, process>>

Cancel ==
    /\ "cancel" \in Faults
    /\ ~cancelled
    /\ cancelled' = TRUE
    /\ UNCHANGED <<lane, mapVars, effect, report, process>>

-----------------------------------------------------------------------------
\* The feeder, on the lane's goroutine

\* The channel is unbuffered: an item is sent when a worker receives it.
Send(w) ==
    /\ lane = "feeding"
    /\ next <= Len
    /\ worker[w] = "idle"
    /\ worker' = [worker EXCEPT ![w] = "received"]
    /\ item' = [item EXCEPT ![w] = next]
    /\ next' = next + 1
    /\ UNCHANGED <<lane, closed, results, errs, effect, report, cancelled, process>>

DrainWithoutClose ==                 \* mutant: the early exit leaves jobs open
    /\ lane = "feeding"
    /\ next <= Len
    /\ cancelled
    /\ errs' = [i \in Items |-> IF i >= next THEN "ctx" ELSE errs[i]]
    /\ lane' = "joining"
    /\ UNCHANGED <<next, closed, worker, item, results, effect, report, cancelled, process>>

DrainOneBack ==                      \* mutant: the drain starts one item early
    /\ lane = "feeding"
    /\ next <= Len
    /\ cancelled
    /\ errs' = [i \in Items |-> IF i >= next - 1 THEN "ctx" ELSE errs[i]]
    /\ lane' = "closing"
    /\ UNCHANGED <<next, closed, worker, item, results, effect, report, cancelled, process>>

\* When the context is done the select may take this branch instead, and the
\* items not sent yet all fail.
Drain ==
    /\ lane = "feeding"
    /\ next <= Len
    /\ cancelled
    /\ errs' = [i \in Items |-> IF i >= next THEN "ctx" ELSE errs[i]]
    /\ lane' = "closing"
    /\ UNCHANGED <<next, closed, worker, item, results, effect, report, cancelled, process>>

Close ==
    /\ lane = "closing" \/ (lane = "feeding" /\ next > Len)
    /\ closed' = TRUE
    /\ lane' = "joining"
    /\ UNCHANGED <<next, worker, item, results, errs, effect, report, cancelled, process>>

JoinFirst ==                         \* mutant: one worker is waited for
    /\ lane = "joining"
    /\ \E w \in Workers : worker[w] = "gone"
    /\ lane' = "reporting"
    /\ UNCHANGED <<mapVars, effect, report, cancelled, process>>

\* One receive from done per worker.
Join ==
    /\ lane = "joining"
    /\ \A w \in Workers : worker[w] = "gone"
    /\ lane' = "reporting"
    /\ UNCHANGED <<mapVars, effect, report, cancelled, process>>

-----------------------------------------------------------------------------
\* A worker

\* An item received after the context was done is not run ...
Skip(w) ==
    /\ worker[w] = "received"
    /\ cancelled
    /\ errs' = [errs EXCEPT ![item[w]] = "ctx"]
    /\ worker' = [worker EXCEPT ![w] = "idle"]
    /\ UNCHANGED <<lane, next, closed, item, results, effect, report, cancelled, process>>

Run(w) ==
    /\ worker[w] = "received"
    /\ ~cancelled
    /\ worker' = [worker EXCEPT ![w] = "mutating"]
    /\ UNCHANGED <<lane, next, closed, item, results, errs, effect, report, cancelled, process>>

\* ... and one that is running reaches GitHub or not.
Land(w) ==
    /\ worker[w] = "mutating"
    /\ effect' = [effect EXCEPT ![item[w]] = TRUE]
    /\ worker' = [worker EXCEPT ![w] = "landed"]
    /\ UNCHANGED <<lane, next, closed, item, results, errs, report, cancelled, process>>

ReturnEarly(w) ==                    \* mutant: success without the answer
    /\ worker[w] \in {"mutating", "landed"}
    /\ results' = [results EXCEPT ![item[w]] = "success"]
    /\ worker' = [worker EXCEPT ![w] = "idle"]
    /\ UNCHANGED <<lane, next, closed, item, errs, effect, report, cancelled, process>>

\* fn turns an error into a failed result, so its slot has no error.
Return(w) ==
    /\ \/ /\ worker[w] = "landed"
          /\ results' = [results EXCEPT ![item[w]] = "success"]
       \/ /\ worker[w] \in {"mutating", "landed"}
          /\ "mutation" \in Faults \/ cancelled
          /\ results' = [results EXCEPT ![item[w]] = "failure"]
    /\ worker' = [worker EXCEPT ![w] = "idle"]
    /\ UNCHANGED <<lane, next, closed, item, errs, effect, report, cancelled, process>>

\* The range over jobs ends, and the join receives from done.
Leave(w) ==
    /\ worker[w] = "idle"
    /\ closed
    /\ lane = "joining"
    /\ worker' = [worker EXCEPT ![w] = "gone"]
    /\ UNCHANGED <<lane, next, closed, item, results, errs, effect, report, cancelled, process>>

\* The recover of runLane is on another goroutine, so nothing recovers this.
Panic(w) ==
    /\ "panic" \in Faults
    /\ worker[w] = "mutating"
    /\ process' = "crashed"
    /\ UNCHANGED <<lane, mapVars, effect, report, cancelled>>

-----------------------------------------------------------------------------

Lane == Plan \/ LaneFails \/ Drain \/ Close \/ Join \/ Report

Feed == \E w \in Workers : Send(w)

Worker(w) == Skip(w) \/ Run(w) \/ Land(w) \/ Return(w) \/ Leave(w)

Next ==
    /\ process = "up"
    /\ \/ Lane
       \/ Feed
       \/ Cancel
       \/ \E w \in Workers : Worker(w) \/ Panic(w)

Spec == Init /\ [][Next]_vars

\* Goroutines are scheduled and GitHub answers.
FairSpec ==
    /\ Spec
    /\ WF_vars((Lane \/ Feed) /\ process = "up")
    /\ \A w \in Workers : WF_vars(Worker(w) /\ process = "up")

-----------------------------------------------------------------------------
\* Properties

LaneStates ==
    {"planning", "feeding", "closing", "joining", "reporting", "done", "failed"}
WorkerStates == {"idle", "received", "mutating", "landed", "gone"}

TypeOK ==
    /\ lane \in LaneStates
    /\ next \in 1 .. Len + 1
    /\ closed \in BOOLEAN
    /\ worker \in [Workers -> WorkerStates]
    /\ item \in [Workers -> 0 .. Len]
    /\ results \in [Items -> {"zero", "success", "failure"}]
    /\ errs \in [Items -> {"nil", "ctx"}]
    /\ effect \in [Items -> BOOLEAN]
    /\ report \in [Items -> {"none", "zero", "success", "failure", "dropped"}]
    /\ cancelled \in BOOLEAN
    /\ process \in {"up", "crashed"}

(***************************************************************************)
(* No slot is written twice: the feeder that drains on cancellation and    *)
(* the workers, which share the two slices without a lock, never write the *)
(* same index, and no two workers do (conc.go:41-66).                      *)
(***************************************************************************)
WrittenOnce ==
    [][\A i \in Items :
          results[i] # "zero" \/ errs[i] # "nil" =>
              results'[i] = results[i] /\ errs'[i] = errs[i]]_vars

(***************************************************************************)
(* When Map has returned, each item has a result or an error and not both, *)
(* and no worker will still write a slot or reach GitHub (conc.go:12-18).  *)
(***************************************************************************)
OneOutcomeEach ==
    lane \in {"reporting", "done"} =>
        /\ \A i \in Items : results[i] = "zero" <=> errs[i] = "ctx"
        /\ \A w \in Workers : worker[w] = "gone"

(***************************************************************************)
(* The lane's report tells what happened: a success was performed, and a   *)
(* dropped mutation never reached GitHub.                                  *)
(***************************************************************************)
ReportTruthful ==
    \A i \in Items :
        /\ report[i] = "success" => effect[i]
        /\ report[i] \in {"dropped", "zero"} => ~effect[i]

(***************************************************************************)
(* helpers.go:58-62: a slot left alone reports "an unnamed resource that   *)
(* neither succeeded nor failed, so the report loses the mutations that    *)
(* were dropped. Name them explicitly."                                    *)
(***************************************************************************)
EveryItemNamed ==
    lane = "done" => \A i \in Items : report[i] \notin {"none", "zero"}

(***************************************************************************)
(* The feeder, the workers and the join never wait on one another for      *)
(* ever, whenever the context is done (conc.go:51-72).  The one other way  *)
(* out is a panic on a worker's goroutine, which ends the process.         *)
(***************************************************************************)
LaneEnds == <>(lane \in {"done", "failed"} \/ process = "crashed")
=============================================================================
