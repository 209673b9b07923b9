----------------------------- MODULE Reconcile -----------------------------
(***************************************************************************)
(* The reconcile pipeline of one process: a delivery (webhook or API call) *)
(* loads the settings files, takes the per-repository lock, passes the     *)
(* policy gate, runs the repository lane (Phase A), then the other lanes   *)
(* in parallel (Phase B), and reports.                                     *)
(*                                                                         *)
(*   internal/server/{webhook,api,reconcile}.go   deliveries               *)
(*   internal/config/loader.go                    loading                  *)
(*   internal/ghclient/repo_lock.go               the lock                 *)
(*   internal/reconciler/reconciler.go            gate, phases, report     *)
(*                                                                         *)
(* A lane is one read of live state and, when that differs, one write that *)
(* travels to GitHub, lands or is rejected there, and is answered.  What a *)
(* lane writes is what it can: OneRun says how far one run of it gets.     *)
(* GitHub itself (head, live) is part of the state: it is what the lock    *)
(* protects.                                                               *)
(***************************************************************************)
EXTENDS Naturals

CONSTANTS
    Runs,        \* deliveries, each handled once
    Names,       \* spellings of "owner/name"
    Lower,       \* Lower[n]: the lower-case spelling of n
    Lanes,       \* lane keys
    RepoLane,    \* the "repository" lane, Phase A
    Values,      \* contents of a lane, in a settings file or on GitHub
    OneRun,      \* OneRun[l][v][w]: what one undisturbed run of lane l makes of
                 \* w when the files declare v (v itself for most lanes)
    Partial,     \* what a write that failed half way leaves behind
    Initially,   \* what GitHub may have for the lanes at the start
    Unmanaged,   \* the settings file is absent
    Unread,      \* the settings file has not been fetched yet
    Tree,        \* Tree[v][l]: lane l in version v of the settings directory
    MaxVersion,  \* bound on pushes to the default branch
    Selections,  \* the lane sets a caller's changed_files may select
    Disabled,    \* operator deny-set (DISABLED_RESOURCES)
    Forbidden,   \* values the org policy refuses with severity error
    Faults,      \* which of "load", "lane", "lost", "cancel", "crash" may happen
    NoRun,       \* the lock is free
    Head,        \* the empty ref and the branch name: the default branch
    NoJob        \* the delivery has not arrived

Versions == 0 .. MaxVersion

Repos == {Lower[n] : n \in Names}

ASSUME ReconcileAssumption ==
    /\ Lower \in [Names -> Names]
    /\ \A n \in Names : Lower[Lower[n]] = Lower[n]
    /\ RepoLane \in Lanes
    /\ OneRun \in [Lanes -> [Values -> [Values -> Values]]]
    /\ Partial \in Values
    /\ Initially \subseteq [Lanes -> Values]
    /\ Unmanaged \notin Values
    /\ Unread \notin Values \union {Unmanaged}
    /\ MaxVersion \in Nat
    /\ Tree \in [Versions -> [Lanes -> Values \union {Unmanaged}]]
    /\ Selections \subseteq SUBSET Lanes
    /\ Disabled \subseteq Lanes
    /\ Forbidden \subseteq Values
    /\ NoRun \notin Runs
    /\ Head \notin Versions

VARIABLES
    head,       \* head[repo]: version of the settings on the default branch
    live,       \* live[repo][l]: what GitHub has for lane l
    job,        \* job[r]: target, mode, ref and selection of delivery r
    pc,         \* pc[r]: where delivery r stands
    files,      \* files[r][l]: the settings file of lane l as run r read it
    cancelled,  \* cancelled[r]: the request context of r is done
    lock,       \* lock[key]: the run inside RepoLock.With for the key
    lane,       \* lane[r][l]: where the goroutine of lane l stands
    wire,       \* wire[r][l]: where the write of lane l stands at GitHub
    outcome,    \* outcome[r][l]: what the report of r says of lane l
    began       \* began[r]: live state of the target when r took the lock
                \* (history: no step depends on it)

vars == <<head, live, job, pc, files, cancelled, lock, lane, wire, outcome, began>>

-----------------------------------------------------------------------------

Jobs == [name : Names, dry : BOOLEAN, ref : Versions \union {Head},
         selected : SUBSET Lanes]

Target(r) == Lower[job[r].name]      \* GitHub resolves names case-insensitively

LockKeyAsSpelled(n) == n             \* mutant: the key is not lower-cased
LockKey(n) == Lower[n]

\* Resolution.Filtering: the selection narrows what is applied ...
Desired(r, l) == IF l \in job[r].selected THEN files[r][l] ELSE Unmanaged

Configured(r) == {l \in Lanes : Desired(r, l) # Unmanaged}

BlockingSelected(r) ==               \* mutant: policy judges the selection only
    {l \in job[r].selected : files[r][l] \in Forbidden}

\* ... and leaves Violations alone: policy judges every file that was read.
Blocking(r) == {l \in Lanes : files[r][l] \in Forbidden}

Holding(r) == pc[r] \in {"phaseA", "phaseB"}

Busy(r, l) == lane[r][l] \in {"running", "sent"}

Succeeded(r) ==
    /\ pc[r] = "done"
    /\ ~job[r].dry
    /\ \A l \in Lanes : outcome[r][l] \notin {"failed", "refused"}

Idle == [l \in Lanes |-> "idle"]
NotSent == [l \in Lanes |-> "none"]
Unreported == [l \in Lanes |-> "none"]

Init ==
    /\ head = [k \in Repos |-> 0]
    /\ live \in [Repos -> Initially]
    /\ job = [r \in Runs |-> NoJob]
    /\ pc = [r \in Runs |-> "idle"]
    /\ files = [r \in Runs |-> [l \in Lanes |-> Unread]]
    /\ cancelled = [r \in Runs |-> FALSE]
    /\ lock = [n \in Names |-> NoRun]
    /\ lane = [r \in Runs |-> Idle]
    /\ wire = [r \in Runs |-> NotSent]
    /\ outcome = [r \in Runs |-> Unreported]
    /\ began = [r \in Runs |-> [l \in Lanes |-> Unread]]

-----------------------------------------------------------------------------
\* Deliveries

Deliver(r, j) ==
    /\ pc[r] = "idle"
    /\ pc' = [pc EXCEPT ![r] = "loading"]
    /\ job' = [job EXCEPT ![r] = j]
    /\ UNCHANGED <<live, files, cancelled, lock, lane, wire, outcome, began>>

\* A push to the default branch moves the branch and is delivered.
Push(r, n) ==
    /\ head[Lower[n]] < MaxVersion
    /\ head' = [head EXCEPT ![Lower[n]] = @ + 1]
    /\ Deliver(r, [name |-> n, dry |-> FALSE, ref |-> Head, selected |-> Lanes])

\* A merged pull request, an "apply" comment or POST /api/reconcile: the
\* default branch again, whole or narrowed by changed_files, applied or not.
Request(r, n, dry, selected) ==
    /\ Deliver(r, [name |-> n, dry |-> dry, ref |-> Head, selected |-> selected])
    /\ UNCHANGED head

\* An opened or synchronized pull request, "recheck" or POST /api/check: a
\* dry run of the commit the request names.
Check(r, n, v) ==
    /\ Deliver(r, [name |-> n, dry |-> TRUE, ref |-> v, selected |-> Lanes])
    /\ UNCHANGED head

\* The caller hangs up, so the request context every step uses is done.
Cancel(r) ==
    /\ "cancel" \in Faults
    /\ pc[r] \in {"loading", "waiting", "phaseA", "phaseB"}
    /\ ~cancelled[r]
    /\ cancelled' = [cancelled EXCEPT ![r] = TRUE]
    /\ UNCHANGED <<head, live, job, pc, files, lock, lane, wire, outcome, began>>

-----------------------------------------------------------------------------
\* Loading, before the lock.  Each file is fetched by a goroutine of its own
\* at the ref: a commit never moves, the default branch may.

Version(r) == IF job[r].ref = Head THEN head[Target(r)] ELSE job[r].ref

LoadFile(r, l) ==
    /\ pc[r] = "loading"
    /\ ~cancelled[r]
    /\ files[r][l] = Unread
    /\ files' = [files EXCEPT ![r][l] = Tree[Version(r)][l]]
    /\ UNCHANGED <<head, live, job, pc, cancelled, lock, lane, wire, outcome, began>>

Loaded(r) ==
    /\ pc[r] = "loading"
    /\ \A l \in Lanes : files[r][l] # Unread
    /\ pc' = [pc EXCEPT ![r] = "waiting"]
    /\ UNCHANGED <<head, live, job, files, cancelled, lock, lane, wire, outcome, began>>

\* One unreadable file or an unreadable admin layer fails the whole load, and
\* with it the delivery.
LoadFails(r) ==
    /\ pc[r] = "loading"
    /\ "load" \in Faults \/ cancelled[r]
    /\ pc' = [pc EXCEPT ![r] = "failed"]
    /\ UNCHANGED <<head, live, job, files, cancelled, lock, lane, wire, outcome, began>>

-----------------------------------------------------------------------------
\* The lock and the phases

ReleaseForgotten(r) == UNCHANGED lock    \* mutant: the lock is kept

\* The deferred m.Unlock of RepoLock.With.
Release(r) == lock' = [lock EXCEPT ![LockKey(job[r].name)] = NoRun]

\* Mutant: disabled lanes are dropped without a word.
StartSilently(r, S) ==
    /\ lane' = [lane EXCEPT ![r] = [l \in Lanes |->
          IF l \in (S \intersect Configured(r)) \ Disabled THEN "running" ELSE lane[r][l]]]
    /\ UNCHANGED outcome

\* Start the goroutines of the configured lanes in S.  A lane the operator
\* disabled is reported as skipped and never started.
Start(r, S) ==
    LET due == S \intersect Configured(r)
    IN /\ lane' = [lane EXCEPT ![r] = [l \in Lanes |->
             IF l \in due \ Disabled THEN "running" ELSE lane[r][l]]]
       /\ outcome' = [outcome EXCEPT ![r] = [l \in Lanes |->
             IF l \in due \intersect Disabled THEN "skipped" ELSE outcome[r][l]]]

\* A blocking violation ends the run before anything is read or written.  The
\* lock is taken and given back with no other step in between.
Refuse(r) ==
    /\ pc[r] = "waiting"
    /\ lock[LockKey(job[r].name)] = NoRun
    /\ Blocking(r) # {}
    /\ pc' = [pc EXCEPT ![r] = "done"]
    /\ outcome' = [outcome EXCEPT ![r] = [l \in Lanes |->
          IF l \in Blocking(r) THEN "refused" ELSE outcome[r][l]]]
    /\ UNCHANGED <<head, live, job, files, cancelled, lock, lane, wire, began>>

\* Mutant: dry runs do not wait for the lock.
PhaseADryUnlocked(r) ==
    /\ pc[r] = "waiting"
    /\ lock[LockKey(job[r].name)] = NoRun \/ job[r].dry
    /\ Blocking(r) = {}
    /\ lock' = IF job[r].dry THEN lock ELSE [lock EXCEPT ![LockKey(job[r].name)] = r]
    /\ began' = [began EXCEPT ![r] = live[Target(r)]]
    /\ pc' = [pc EXCEPT ![r] = "phaseA"]
    /\ Start(r, {RepoLane})
    /\ UNCHANGED <<head, live, job, files, cancelled, wire>>

\* Lock, pass the gate, start Phase A.  The mutex does not watch the context:
\* a cancelled run still gets its turn.
PhaseA(r) ==
    /\ pc[r] = "waiting"
    /\ lock[LockKey(job[r].name)] = NoRun
    /\ Blocking(r) = {}
    /\ lock' = [lock EXCEPT ![LockKey(job[r].name)] = r]
    /\ began' = [began EXCEPT ![r] = live[Target(r)]]
    /\ pc' = [pc EXCEPT ![r] = "phaseA"]
    /\ Start(r, {RepoLane})
    /\ UNCHANGED <<head, live, job, files, cancelled, wire>>

\* Mutant: Phase B does not wait for Phase A.
PhaseBAtOnce(r) ==
    /\ pc[r] = "phaseA"
    /\ pc' = [pc EXCEPT ![r] = "phaseB"]
    /\ Start(r, Lanes \ {RepoLane})
    /\ UNCHANGED <<head, live, job, files, cancelled, lock, wire, began>>

\* Phase A is over, however it ended: start the other lanes.
PhaseB(r) ==
    /\ pc[r] = "phaseA"
    /\ ~Busy(r, RepoLane)
    /\ pc' = [pc EXCEPT ![r] = "phaseB"]
    /\ Start(r, Lanes \ {RepoLane})
    /\ UNCHANGED <<head, live, job, files, cancelled, lock, wire, began>>

\* Mutant: the report does not wait for the lanes.
FinishAtOnce(r) ==
    /\ pc[r] = "phaseB"
    /\ pc' = [pc EXCEPT ![r] = "done"]
    /\ Release(r)
    /\ UNCHANGED <<head, live, job, files, cancelled, lane, wire, outcome, began>>

\* wg.Wait returns when every lane is done; report and unlock.
Finish(r) ==
    /\ pc[r] = "phaseB"
    /\ \A l \in Lanes : ~Busy(r, l)
    /\ pc' = [pc EXCEPT ![r] = "done"]
    /\ Release(r)
    /\ UNCHANGED <<head, live, job, files, cancelled, lane, wire, outcome, began>>

-----------------------------------------------------------------------------
\* A lane

Settle(r, l, o) ==
    /\ lane' = [lane EXCEPT ![r][l] = "done"]
    /\ outcome' = [outcome EXCEPT ![r][l] = o]

\* What one run makes of the lane, given what GitHub has for it.
Made(r, l, w) == OneRun[l][Desired(r, l)][w]

\* The lane differs, but what it lacks is for another system to supply, as a
\* declared secret that was not uploaded: a success without a write.
Awaiting(r, l) == Made(r, l, live[Target(r)][l]) = live[Target(r)][l]

\* GetLive and Plan.  Only a real apply of a real difference goes on to write.
ReadLive(r, l) ==
    /\ lane[r][l] = "running"
    /\ ~cancelled[r]
    /\ IF live[Target(r)][l] = Desired(r, l)
       THEN Settle(r, l, "noop") /\ UNCHANGED wire
       ELSE IF job[r].dry
       THEN Settle(r, l, "planned") /\ UNCHANGED wire
       ELSE \/ /\ Awaiting(r, l)
               /\ Settle(r, l, "pending")
               /\ UNCHANGED wire
            \/ /\ lane' = [lane EXCEPT ![r][l] = "sent"]
               /\ wire' = [wire EXCEPT ![r][l] = "flying"]
               /\ UNCHANGED outcome
    /\ UNCHANGED <<head, live, job, pc, files, cancelled, lock, began>>

\* runLane turns an error or a panic into one failed result.  A lane whose
\* context is done fails even if its write is on the wire: Schedule returns
\* and revokes nothing.
LaneFails(r, l) ==
    /\ \/ lane[r][l] = "running" /\ ("lane" \in Faults \/ cancelled[r])
       \/ lane[r][l] = "sent" /\ cancelled[r]
       \/ lane[r][l] = "sent" /\ wire[r][l] = "rejected"
       \/ lane[r][l] = "sent" /\ wire[r][l] = "landed" /\ "lane" \in Faults
    /\ Settle(r, l, "failed")
    /\ UNCHANGED <<head, live, job, pc, files, cancelled, lock, wire, began>>

\* A broken connection or a gateway's 502 is an error too, and GitHub may still
\* be executing the write: it strays, and the run goes on without it.
LaneLosesWrite(r, l) ==
    /\ "lost" \in Faults
    /\ lane[r][l] = "sent"
    /\ wire[r][l] = "flying"
    /\ wire' = [wire EXCEPT ![r][l] = "stray"]
    /\ Settle(r, l, "failed")
    /\ UNCHANGED <<head, live, job, pc, files, cancelled, lock, began>>

\* The answer to the write comes back.
Answered(r, l) ==
    /\ lane[r][l] = "sent"
    /\ wire[r][l] = "landed"
    /\ Settle(r, l, "applied")
    /\ UNCHANGED <<head, live, job, pc, files, cancelled, lock, wire, began>>

AtGitHub(r, l) == wire[r][l] \in {"flying", "stray"}

\* GitHub performs the write ...
WriteLands(r, l) ==
    /\ AtGitHub(r, l)
    /\ live' = [live EXCEPT ![Target(r)][l] = Made(r, l, @)]
    /\ wire' = [wire EXCEPT ![r][l] = "landed"]
    /\ UNCHANGED <<head, job, pc, files, cancelled, lock, lane, outcome, began>>

\* ... or refuses it, or a lane of several writes stops at one GitHub refuses.
WriteRejected(r, l) ==
    /\ "lane" \in Faults
    /\ AtGitHub(r, l)
    /\ wire' = [wire EXCEPT ![r][l] = "rejected"]
    /\ \/ UNCHANGED live
       \/ live' = [live EXCEPT ![Target(r)][l] = Partial]
    /\ UNCHANGED <<head, job, pc, files, cancelled, lock, lane, outcome, began>>

\* The process dies and restarts: nothing is persisted, so every run and the
\* lock are gone.  Writes already on the wire are not.
Crash ==
    /\ "crash" \in Faults
    /\ \E r \in Runs : pc[r] \in {"loading", "waiting", "phaseA", "phaseB"}
    /\ pc' = [r \in Runs |-> IF pc[r] \in {"loading", "waiting", "phaseA", "phaseB"}
                             THEN "lost" ELSE pc[r]]
    /\ lane' = [r \in Runs |-> [l \in Lanes |->
                  IF Busy(r, l) THEN "done" ELSE lane[r][l]]]
    /\ lock' = [n \in Names |-> NoRun]
    /\ UNCHANGED <<head, live, job, files, cancelled, wire, outcome, began>>

-----------------------------------------------------------------------------

Environment(r) ==
    \/ \E n \in Names : Push(r, n)
    \/ \E n \in Names, dry \in BOOLEAN, s \in Selections : Request(r, n, dry, s)
    \/ \E n \in Names, v \in Versions : Check(r, n, v)
    \/ Cancel(r)

Loading(r) == (\E l \in Lanes : LoadFile(r, l)) \/ Loaded(r) \/ LoadFails(r)

Locking(r) == Refuse(r) \/ PhaseA(r)

Running(r) == PhaseB(r) \/ Finish(r)

LaneStep(r, l) ==
    ReadLive(r, l) \/ LaneFails(r, l) \/ LaneLosesWrite(r, l) \/ Answered(r, l)

Network(r, l) == WriteLands(r, l) \/ WriteRejected(r, l)

Next ==
    \/ \E r \in Runs :
          \/ Environment(r)
          \/ Loading(r)
          \/ Locking(r)
          \/ Running(r)
          \/ \E l \in Lanes : LaneStep(r, l) \/ Network(r, l)
    \/ Crash

Spec == Init /\ [][Next]_vars

\* Goroutines are scheduled and GitHub answers.  A Go mutex hands itself to a
\* waiter that has starved for a millisecond, hence the strong fairness.
Fairness ==
    \A r \in Runs :
        /\ WF_vars(Loading(r))
        /\ SF_vars(Locking(r))
        /\ WF_vars(Running(r))
        /\ \A l \in Lanes : WF_vars(LaneStep(r, l)) /\ WF_vars(Network(r, l))

FairSpec == Spec /\ Fairness

-----------------------------------------------------------------------------
\* Properties

FileValues == Values \union {Unmanaged, Unread}

Stages == {"idle", "loading", "waiting", "phaseA", "phaseB", "done", "failed", "lost"}
LaneStates == {"idle", "running", "sent", "done"}
WireStates == {"none", "flying", "stray", "landed", "rejected"}
Outcomes == {"none", "noop", "planned", "pending", "applied", "failed", "skipped",
             "refused"}

TypeOK ==
    /\ head \in [Repos -> Versions]
    /\ live \in [Repos -> [Lanes -> Values]]
    /\ job \in [Runs -> Jobs \union {NoJob}]
    /\ \A r \in Runs : pc[r] # "idle" => job[r] \in Jobs
    /\ pc \in [Runs -> Stages]
    /\ files \in [Runs -> [Lanes -> FileValues]]
    /\ cancelled \in [Runs -> BOOLEAN]
    /\ lock \in [Names -> Runs \union {NoRun}]
    /\ lane \in [Runs -> [Lanes -> LaneStates]]
    /\ wire \in [Runs -> [Lanes -> WireStates]]
    /\ outcome \in [Runs -> [Lanes -> Outcomes]]
    /\ began \in [Runs -> [Lanes -> FileValues]]

(***************************************************************************)
(* Two reconciles of one GitHub repository are never under the lock        *)
(* together, however its name is spelled (repo_lock.go:20-34).             *)
(***************************************************************************)
OneHolderPerRepo ==
    \A r, s \in Runs :
        Holding(r) /\ Holding(s) /\ Target(r) = Target(s) => r = s

(***************************************************************************)
(* Whatever may still change GitHub after its run is over was reported as  *)
(* failed, unless the process died and reported nothing; and what was      *)
(* reported as applied has landed.  So no success is followed by a change  *)
(* of its own, through lost answers, hang-ups and the early end of Phase A *)
(* (reconciler.go:149-221, 269-301).                                       *)
(***************************************************************************)
WritesAreReported ==
    \A r \in Runs, l \in Lanes :
        /\ AtGitHub(r, l) /\ ~Holding(r) => outcome[r][l] = "failed" \/ pc[r] = "lost"
        /\ outcome[r][l] = "applied" => wire[r][l] = "landed"

(***************************************************************************)
(* While the write of the repository lane is travelling no other lane of   *)
(* that run has read or written anything, even when the caller hangs up    *)
(* in the middle (reconciler.go:149-167, "gates archival / visibility").   *)
(* A write whose answer was lost no longer counts: the code knows nothing  *)
(* of it, and goes on.                                                     *)
(***************************************************************************)
PhaseOrder ==
    \A r \in Runs, l \in Lanes \ {RepoLane} :
        wire[r][RepoLane] = "flying" =>
            /\ wire[r][l] = "none"
            /\ outcome[r][l] \in {"none", "skipped", "failed"}

(***************************************************************************)
(* Nothing reaches GitHub but what the run was asked and allowed to apply: *)
(* no write of a dry run, of a run with a blocking violation anywhere in   *)
(* its files (selected or not), of a disabled lane, or of a lane that is   *)
(* unmanaged or outside the selection.                                     *)
(***************************************************************************)
OnlyAllowedWrites ==
    \A r \in Runs, l \in Lanes :
        wire[r][l] # "none" =>
            /\ ~job[r].dry
            /\ \A k \in Lanes : files[r][k] \notin Forbidden
            /\ l \in job[r].selected \ Disabled
            /\ files[r][l] \in Values

(***************************************************************************)
(* A finished report accounts for every configured lane, once and with a   *)
(* final word, and names no other: skipped lanes are not dropped, failed   *)
(* and cancelled ones are not silent (reconciler.go:132-147, 173-221).     *)
(***************************************************************************)
ReportComplete ==
    \A r \in Runs : pc[r] = "done" =>
        IF Blocking(r) # {}
        THEN \A l \in Lanes : outcome[r][l] = "refused" <=> l \in Blocking(r)
        ELSE \A l \in Lanes :
               /\ outcome[r][l] = "none" <=> l \notin Configured(r)
               /\ outcome[r][l] = "skipped" <=> l \in Configured(r) \intersect Disabled
               /\ outcome[r][l] # "refused"

(***************************************************************************)
(* When a real apply reports no failure, then at the moment the lock is    *)
(* given back every selected, managed and enabled lane is what one run of  *)
(* it makes of what GitHub had when the lock was taken: as declared, but   *)
(* for what a lane leaves to another system or to a second run             *)
(* (applier.go:22-31, a secret nobody has uploaded).  Nothing was lost,    *)
(* overtaken or left half way.                                             *)
(***************************************************************************)
SuccessMeansApplied ==
    [][\A r \in Runs : Holding(r) /\ Succeeded(r)' =>
          \A l \in Configured(r) \ Disabled :
              live[Target(r)][l] = IF began[r][l] = Desired(r, l) THEN Desired(r, l)
                                   ELSE Made(r, l, began[r][l])]_vars

(***************************************************************************)
(* A repository changes under a lock holder only by the holder's writes    *)
(* (repo_lock.go:8-10: "concurrent reconciles for the same (owner, repo)   *)
(* don't race against each other").                                        *)
(***************************************************************************)
WorkIsSerialized ==
    [][\A r \in Runs : Holding(r) /\ live'[Target(r)] # live[Target(r)] =>
          \E l \in Lanes : AtGitHub(r, l) /\ wire'[r][l] # wire[r][l]]_vars

(***************************************************************************)
(* Every delivery is finished, one way or another, and so the lock is      *)
(* always given back.                                                      *)
(***************************************************************************)
EveryRunEnds == \A r \in Runs : (pc[r] = "loading") ~> (pc[r] \in {"done", "failed"})

(***************************************************************************)
(* README.md:484, "The push to the default branch applies the              *)
(* configuration": when the settings were pushed to their last version,    *)
(* every delivery read one whole version of them and every one succeeded,  *)
(* each managed and enabled lane is as that last version says.             *)
(***************************************************************************)
Whole(r) == \E v \in Versions : files[r] = Tree[v]

InSync ==
    (\A r \in Runs : Succeeded(r) /\ Whole(r)) =>
        \A k \in Repos : head[k] = MaxVersion =>
            \A l \in Lanes \ Disabled :
                Tree[MaxVersion][l] # Unmanaged => live[k][l] = Tree[MaxVersion][l]

(***************************************************************************)
(* The pipeline implements SerialReconcile: the repository is, to the      *)
(* outside, as it was when the run took the lock until the run gives the   *)
(* lock back, a run is submitted when its settings are loaded and its      *)
(* report appears when it is finished.                                     *)
(***************************************************************************)
Submitted(r) == pc[r] \in {"waiting", "phaseA", "phaseB", "done"}

SerialLive == [k \in Repos |-> IF lock[k] = NoRun THEN live[k] ELSE began[lock[k]]]

SerialRequest == [r \in Runs |->
    IF Submitted(r)
    THEN [repo |-> Target(r), dry |-> job[r].dry, files |-> files[r],
          desired |-> [l \in Lanes |-> Desired(r, l)]]
    ELSE NoJob]

SerialOutcome == [r \in Runs |-> IF pc[r] = "done" THEN outcome[r] ELSE Unreported]

Serial == INSTANCE SerialReconcile WITH
    live <- SerialLive, request <- SerialRequest, outcome <- SerialOutcome,
    NoRequest <- NoJob

\* A delivery that has not been loaded is not mistaken for a request.
ASSUME NoJobAssumption == NoJob \notin Serial!Request

IsSerial == Serial!SSpec
=============================================================================
