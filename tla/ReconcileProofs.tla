-------------------------- MODULE ReconcileProofs --------------------------
(***************************************************************************)
(* Safety of Reconcile for every set of runs, names, lanes and faults.     *)
(***************************************************************************)
EXTENDS Reconcile, TLAPS

(***************************************************************************)
(* The lock table and the runs agree: a run is in a phase exactly when the *)
(* entry of its target names it.                                           *)
(***************************************************************************)
LockInv ==
    /\ \A r \in Runs : Holding(r) => lock[Target(r)] = r
    /\ \A n \in Names, r \in Runs : lock[n] = r => Holding(r) /\ Target(r) = n

(***************************************************************************)
(* How far the parts of run r may be, given where the run stands.          *)
(***************************************************************************)
StageOK(r) ==
    /\ pc[r] \in {"idle", "loading", "waiting", "failed"} =>
          lane[r] = Idle /\ wire[r] = NotSent /\ outcome[r] = Unreported
    /\ pc[r] \in {"waiting", "phaseA", "phaseB", "done"} =>
          \A l \in Lanes : files[r][l] # Unread
    /\ pc[r] \in {"done", "lost"} => \A l \in Lanes : ~Busy(r, l)
    /\ pc[r] = "phaseA" => \A l \in Lanes \ {RepoLane} :
          lane[r][l] = "idle" /\ wire[r][l] = "none" /\ outcome[r][l] = "none"
    /\ pc[r] = "phaseB" => ~Busy(r, RepoLane)
    /\ Holding(r) => Blocking(r) = {}

(***************************************************************************)
(* How lane l of run r, its write and the run go together.                 *)
(***************************************************************************)
LaneOK(r, l) ==
    /\ lane[r][l] \in {"idle", "running"} => wire[r][l] = "none"
    /\ lane[r][l] = "sent" => wire[r][l] # "none"
    /\ wire[r][l] = "flying" /\ lane[r][l] # "sent" => cancelled[r] \/ pc[r] = "lost"
    /\ wire[r][l] \in {"flying", "stray"} /\ lane[r][l] # "sent" =>
          outcome[r][l] = "failed" \/ pc[r] = "lost"
    /\ outcome[r][l] = "applied" => wire[r][l] = "landed"
    /\ lane[r][l] # "idle" => Blocking(r) = {} /\ l \in Configured(r) \ Disabled
    /\ lane[r][l] # "idle" => files[r][l] # Unread
    /\ wire[r][l] # "none" => ~job[r].dry
    /\ l # RepoLane /\ wire[r][RepoLane] = "flying" =>
          wire[r][l] = "none" /\ outcome[r][l] \in {"none", "skipped", "failed"}

(***************************************************************************)
(* What the report may say of lane l before it is finished.                *)
(***************************************************************************)
OutcomeOK(r, l) ==
    /\ Busy(r, l) => outcome[r][l] = "none"
    /\ outcome[r][l] = "skipped" => l \in Configured(r) \intersect Disabled
    /\ outcome[r][l] \notin {"none", "refused", "skipped"} =>
          l \in Configured(r) \ Disabled
    /\ Holding(r) => outcome[r][l] # "refused"
    /\ (pc[r] = "phaseA" /\ l = RepoLane) \/ pc[r] = "phaseB" =>
          (~Busy(r, l) => (outcome[r][l] = "none" <=> l \notin Configured(r)))

(***************************************************************************)
(* What the report says of lane l once it is finished.                     *)
(***************************************************************************)
ReportOK(r, l) ==
    pc[r] = "done" =>
        IF Blocking(r) # {}
        THEN outcome[r][l] = "refused" <=> l \in Blocking(r)
        ELSE /\ outcome[r][l] = "none" <=> l \notin Configured(r)
             /\ outcome[r][l] = "skipped" <=> l \in Configured(r) \intersect Disabled
             /\ outcome[r][l] # "refused"

RunOK(r) ==
    /\ StageOK(r)
    /\ \A l \in Lanes : LaneOK(r, l) /\ OutcomeOK(r, l) /\ ReportOK(r, l)

RunInv == \A r \in Runs : RunOK(r)

(***************************************************************************)
(* The inductive invariant.  Types alone are not inductive: that a write   *)
(* carries a value and not an absent file follows from LaneOK.             *)
(***************************************************************************)
IInv == TypeOK /\ LockInv /\ RunInv

-----------------------------------------------------------------------------
\* Type correctness

\* What is asked of the service is a job.
LEMMA RequestType ==
    ASSUME ReconcileAssumption, NEW n \in Names, NEW dry \in BOOLEAN,
           NEW ref \in Versions \union {Head}, NEW s \in SUBSET Lanes
    PROVE  /\ [name |-> n, dry |-> dry, ref |-> ref, selected |-> s] \in Jobs
           /\ Lower[n] \in Repos
           /\ Lower[n] \in Names
  BY DEF Jobs, Repos, ReconcileAssumption

\* A run that has been asked for has a repository.
LEMMA TargetType ==
    ASSUME TypeOK, NEW r \in Runs, pc[r] # "idle"
    PROVE  job[r] \in Jobs /\ Target(r) \in Repos /\ Target(r) \in Names
<1>1. job[r] \in Jobs
  BY DEF TypeOK
<1> QED
  BY <1>1, ReconcileAssumption DEF Jobs, Repos, Target, ReconcileAssumption

\* One entry of a two-level table may be replaced by another of its type.
LEMMA EntryType ==
    ASSUME NEW S, NEW T, NEW V, NEW f \in [S -> [T -> V]],
           NEW a \in S, NEW b \in T, NEW v \in V
    PROVE  [f EXCEPT ![a][b] = v] \in [S -> [T -> V]]
  OBVIOUS

\* One row of a two-level table may be replaced by another of its type.
LEMMA RowType ==
    ASSUME NEW S, NEW T, NEW V, NEW f \in [S -> [T -> V]],
           NEW a \in S, NEW row \in [T -> V]
    PROVE  [f EXCEPT ![a] = row] \in [S -> [T -> V]]
  OBVIOUS

\* The types hold at the start.
LEMMA InitType == Init => TypeOK
<1>1. Initially \subseteq [Lanes -> Values] /\ MaxVersion \in Nat
  BY ReconcileAssumption DEF ReconcileAssumption
<1> QED
  BY <1>1
     DEF Init, TypeOK, Versions, FileValues, Idle, NotSent, Unreported, Stages, LaneStates,
         WireStates, Outcomes

\* A delivery keeps the types.
LEMMA DeliverType ==
    ASSUME TypeOK, NEW r \in Runs, NEW j \in Jobs, Deliver(r, j),
           head' \in [Repos -> Versions]
    PROVE  TypeOK'
  BY DEF TypeOK, Deliver, Stages

\* A lane that settles has an outcome.
LEMMA SettleType ==
    ASSUME TypeOK, NEW r \in Runs, NEW l \in Lanes, NEW o \in Outcomes, Settle(r, l, o)
    PROVE  /\ lane' \in [Runs -> [Lanes -> LaneStates]]
           /\ outcome' \in [Runs -> [Lanes -> Outcomes]]
  BY EntryType DEF TypeOK, Settle, LaneStates

\* Lanes that are started have no outcome.
LEMMA StartType ==
    ASSUME TypeOK, NEW r \in Runs, NEW S \in SUBSET Lanes, Start(r, S)
    PROVE  /\ lane' \in [Runs -> [Lanes -> LaneStates]]
           /\ outcome' \in [Runs -> [Lanes -> Outcomes]]
  BY DEF TypeOK, Start, LaneStates, Outcomes

\* What is on the wire is the value of a settings file, so GitHub's state
\* keeps its type: that is where the lane invariant is needed.
LEMMA NextType == TypeOK /\ RunInv /\ [Next]_vars => TypeOK'
<1> SUFFICES ASSUME TypeOK, RunInv, [Next]_vars PROVE TypeOK'
  OBVIOUS
<1> USE ReconcileAssumption
<1>1. ASSUME NEW r \in Runs, NEW n \in Names, Push(r, n) PROVE TypeOK'
  <2>1. [name |-> n, dry |-> FALSE, ref |-> Head, selected |-> Lanes] \in Jobs
    BY RequestType
  <2>2. Lower[n] \in Repos /\ head[Lower[n]] \in 0 .. MaxVersion
    BY RequestType DEF TypeOK, Versions
  <2>3. head[Lower[n]] + 1 \in Versions
    BY <1>1, <2>2 DEF Push, Versions, ReconcileAssumption
  <2>4. head' \in [Repos -> Versions]
    BY <1>1, <2>2, <2>3 DEF Push, TypeOK
  <2> QED
    BY <1>1, <2>1, <2>4, DeliverType DEF Push
<1>2. ASSUME NEW r \in Runs, NEW n \in Names, NEW dry \in BOOLEAN,
             NEW s \in Selections, Request(r, n, dry, s)
      PROVE TypeOK'
  <2>1. [name |-> n, dry |-> dry, ref |-> Head, selected |-> s] \in Jobs
    BY RequestType DEF ReconcileAssumption
  <2> QED
    BY <1>2, <2>1, DeliverType DEF Request, TypeOK
<1>3. ASSUME NEW r \in Runs, NEW n \in Names, NEW v \in Versions, Check(r, n, v)
      PROVE TypeOK'
  <2>1. [name |-> n, dry |-> TRUE, ref |-> v, selected |-> Lanes] \in Jobs
    BY RequestType
  <2> QED
    BY <1>3, <2>1, DeliverType DEF Check, TypeOK
<1>4. ASSUME NEW r \in Runs, Cancel(r) PROVE TypeOK'
  BY <1>4 DEF Cancel, TypeOK
<1>5. ASSUME NEW r \in Runs, NEW l \in Lanes, LoadFile(r, l) PROVE TypeOK'
  <2>1. Version(r) \in Versions
    BY <1>5, TargetType DEF TypeOK, LoadFile, Version, Jobs
  <2>2. Tree[Version(r)][l] \in FileValues
    BY <2>1 DEF ReconcileAssumption, FileValues
  <2>3. files' \in [Runs -> [Lanes -> FileValues]]
    BY <1>5, <2>2, EntryType DEF LoadFile, TypeOK
  <2> QED
    BY <1>5, <2>3 DEF LoadFile, TypeOK
<1>6. ASSUME NEW r \in Runs, Loaded(r) PROVE TypeOK'
  BY <1>6 DEF Loaded, TypeOK, Stages
<1>7. ASSUME NEW r \in Runs, LoadFails(r) PROVE TypeOK'
  BY <1>7 DEF LoadFails, TypeOK, Stages
<1>8. ASSUME NEW r \in Runs, Refuse(r) PROVE TypeOK'
  BY <1>8 DEF Refuse, TypeOK, Stages, Outcomes
<1>9. ASSUME NEW r \in Runs, PhaseA(r) PROVE TypeOK'
  <2>1. Target(r) \in Repos
    BY <1>9, TargetType DEF PhaseA
  <2>2. began' \in [Runs -> [Lanes -> FileValues]]
    BY <1>9, <2>1 DEF PhaseA, TypeOK, FileValues
  <2>3. /\ lane' \in [Runs -> [Lanes -> LaneStates]]
        /\ outcome' \in [Runs -> [Lanes -> Outcomes]]
    BY <1>9, StartType DEF PhaseA, ReconcileAssumption
  <2> QED
    BY <1>9, <2>2, <2>3 DEF PhaseA, TypeOK, Stages
<1>10. ASSUME NEW r \in Runs, PhaseB(r) PROVE TypeOK'
  <2>1. /\ lane' \in [Runs -> [Lanes -> LaneStates]]
        /\ outcome' \in [Runs -> [Lanes -> Outcomes]]
    BY <1>10, StartType DEF PhaseB
  <2> QED
    BY <1>10, <2>1 DEF PhaseB, TypeOK, Stages
<1>11. ASSUME NEW r \in Runs, Finish(r) PROVE TypeOK'
  BY <1>11 DEF Finish, Release, TypeOK, Stages
<1>12. ASSUME NEW r \in Runs, NEW l \in Lanes, ReadLive(r, l) PROVE TypeOK'
  <2>1. CASE \E o \in Outcomes : Settle(r, l, o) /\ UNCHANGED wire
    BY <1>12, <2>1, SettleType DEF ReadLive, TypeOK
  <2>2. CASE /\ lane' = [lane EXCEPT ![r][l] = "sent"]
             /\ wire' = [wire EXCEPT ![r][l] = "flying"]
             /\ UNCHANGED outcome
    <3>1. "sent" \in LaneStates /\ "flying" \in WireStates
      BY DEF LaneStates, WireStates
    <3>2. lane' \in [Runs -> [Lanes -> LaneStates]]
      BY <2>2, <3>1, EntryType DEF TypeOK
    <3>3. wire' \in [Runs -> [Lanes -> WireStates]]
      BY <2>2, <3>1, EntryType DEF TypeOK
    <3> QED
      BY <1>12, <2>2, <3>2, <3>3 DEF ReadLive, TypeOK
  <2> QED
    BY <1>12, <2>1, <2>2 DEF ReadLive, Outcomes
<1>13. ASSUME NEW r \in Runs, NEW l \in Lanes, LaneFails(r, l) PROVE TypeOK'
  BY <1>13, SettleType DEF LaneFails, TypeOK, Outcomes
<1>18. ASSUME NEW r \in Runs, NEW l \in Lanes, LaneLosesWrite(r, l) PROVE TypeOK'
  <2>1. wire' \in [Runs -> [Lanes -> WireStates]]
    BY <1>18, EntryType DEF LaneLosesWrite, TypeOK, WireStates
  <2> QED
    BY <1>18, <2>1, SettleType DEF LaneLosesWrite, TypeOK, Outcomes
<1>14. ASSUME NEW r \in Runs, NEW l \in Lanes, Answered(r, l) PROVE TypeOK'
  BY <1>14, SettleType DEF Answered, TypeOK, Outcomes
<1>15. ASSUME NEW r \in Runs, NEW l \in Lanes, Network(r, l) PROVE TypeOK'
  <2>1. wire[r][l] # "none" /\ lane[r][l] # "idle" /\ pc[r] # "idle"
    BY <1>15 DEF Network, WriteLands, WriteRejected, AtGitHub, RunInv, RunOK, LaneOK,
        StageOK, NotSent
  <2>2. Target(r) \in Repos
    BY <2>1, TargetType
  <2>3. Desired(r, l) \in Values
    BY <2>1 DEF RunInv, RunOK, LaneOK, Configured, Desired, TypeOK, FileValues
  <2>4. live' \in [Repos -> [Lanes -> Values]]
    <3>0. live[Target(r)][l] \in Values
      BY <2>2 DEF TypeOK
    <3>4. Made(r, l, live[Target(r)][l]) \in Values
      BY <2>3, <3>0 DEF Made, ReconcileAssumption
    <3>5. CASE WriteLands(r, l)
      <4>1. live' = [live EXCEPT ![Target(r)][l] = Made(r, l, live[Target(r)][l])]
        BY <3>5 DEF WriteLands
      <4> QED
        BY <2>2, <3>4, <4>1, EntryType DEF TypeOK
    <3>1. CASE WriteRejected(r, l)
      <4>1. live' = live \/ live' = [live EXCEPT ![Target(r)][l] = Partial]
        BY <3>1 DEF WriteRejected
      <4>2. Partial \in Values /\ live \in [Repos -> [Lanes -> Values]]
        BY DEF TypeOK, ReconcileAssumption
      <4>3. [live EXCEPT ![Target(r)][l] = Partial] \in [Repos -> [Lanes -> Values]]
        BY <2>2, <4>2, EntryType
      <4> QED
        BY <4>1, <4>2, <4>3
    <3> QED
      BY <1>15, <3>1, <3>5 DEF Network
  <2>5. wire' \in [Runs -> [Lanes -> WireStates]]
    <3>1. \E w \in WireStates : wire' = [wire EXCEPT ![r][l] = w]
      BY <1>15 DEF Network, WriteLands, WriteRejected, AtGitHub, WireStates
    <3> QED
      BY <3>1, EntryType DEF TypeOK
  <2> QED
    BY <1>15, <2>4, <2>5 DEF Network, WriteLands, WriteRejected, AtGitHub, TypeOK
<1>16. CASE Crash
  BY <1>16 DEF Crash, TypeOK, Stages, LaneStates
<1>17. CASE UNCHANGED vars
  BY <1>17 DEF vars, TypeOK
<1> QED
  BY <1>1, <1>2, <1>3, <1>4, <1>5, <1>6, <1>7, <1>8, <1>9, <1>10, <1>11, <1>12,
     <1>13, <1>14, <1>15, <1>16, <1>17, <1>18
     DEF Next, Environment, Loading, Locking, Running, LaneStep

-----------------------------------------------------------------------------
\* The lock

\* Nobody holds a lock at the start.
LEMMA InitLock == Init => LockInv
  BY ReconcileAssumption DEF Init, LockInv, Holding, ReconcileAssumption

\* A run keeps its job from its delivery on, so its target is stable.
LEMMA TargetStable ==
    ASSUME TypeOK, [Next]_vars, NEW r \in Runs, pc[r] # "idle"
    PROVE  job'[r] = job[r]
<1>1. ASSUME NEW q \in Runs, NEW j, Deliver(q, j) PROVE job'[r] = job[r]
  BY <1>1 DEF Deliver, TypeOK
<1>2. ASSUME NEW q \in Runs, Environment(q) PROVE job'[r] = job[r]
  BY <1>1, <1>2 DEF Environment, Push, Request, Check, Cancel
<1>3. ASSUME NEW q \in Runs, Loading(q) \/ Locking(q) \/ Running(q) PROVE job' = job
  BY <1>3 DEF Loading, LoadFile, Loaded, LoadFails, Locking, Refuse, PhaseA, Running,
      PhaseB,
              Finish
<1>4. ASSUME NEW q \in Runs, NEW l \in Lanes, LaneStep(q, l) \/ Network(q, l)
      PROVE  job' = job
  BY <1>4 DEF LaneStep, ReadLive, LaneFails, LaneLosesWrite, Answered, Network, WriteLands,
              WriteRejected
<1>5. Crash \/ UNCHANGED vars => job' = job
  BY DEF Crash, vars
<1> QED
  BY <1>2, <1>3, <1>4, <1>5 DEF Next

\* Only the lock holder's own steps and a crash change the lock table.
LEMMA LockSteps ==
    ASSUME TypeOK, [Next]_vars
    PROVE  \/ lock' = lock /\ \A r \in Runs : Holding(r)' <=> Holding(r)
           \/ \E r \in Runs : PhaseA(r) \/ Finish(r)
           \/ Crash
  BY DEF TypeOK, Next, vars, Holding, Environment, Push, Request, Check, Deliver, Cancel,
      Loading,
      LoadFile, Loaded, LoadFails, Locking, Refuse, Running, PhaseB, LaneStep,
      ReadLive, LaneFails, LaneLosesWrite, Answered, Network, WriteLands, WriteRejected,
          AtGitHub

\* Every step keeps one holder per repository.
LEMMA NextLock == TypeOK /\ LockInv /\ [Next]_vars => LockInv'
<1> SUFFICES ASSUME TypeOK, LockInv, [Next]_vars PROVE LockInv'
  OBVIOUS
<1>1. \A r \in Runs : Holding(r) => Target(r)' = Target(r)
  BY TargetStable DEF Holding, Target
<1>2. CASE lock' = lock /\ \A r \in Runs : Holding(r)' <=> Holding(r)
  BY <1>1, <1>2, ReconcileAssumption DEF LockInv, ReconcileAssumption, TypeOK
<1>3. ASSUME NEW r \in Runs, PhaseA(r) PROVE LockInv'
  <2>1. Target(r) \in Names /\ Target(r)' = Target(r)
    BY <1>3, TargetType, TargetStable DEF PhaseA, Target
  <2>2. lock' = [lock EXCEPT ![Target(r)] = r] /\ lock[Target(r)] = NoRun
    BY <1>3 DEF PhaseA, LockKey, Target
  <2>3. \A q \in Runs : Holding(q)' <=> q = r \/ Holding(q)
    BY <1>3 DEF PhaseA, Holding, TypeOK
  <2>4. \A q \in Runs : Holding(q) => Target(q) # Target(r) /\ Target(q) \in Names
    BY <2>2, TargetType, ReconcileAssumption DEF LockInv, Holding, ReconcileAssumption
  <2>5. ASSUME NEW q \in Runs, Holding(q)' PROVE lock'[Target(q)'] = q
    <3>1. CASE q = r
      BY <2>1, <2>2, <3>1 DEF TypeOK
    <3>2. CASE q # r
      <4>1. Holding(q) /\ Target(q)' = Target(q) /\ lock[Target(q)] = q
        BY <1>1, <2>3, <2>5, <3>2 DEF LockInv
      <4> QED
        BY <2>2, <2>4, <4>1 DEF TypeOK
    <3> QED
      BY <3>1, <3>2
  <2>6. ASSUME NEW n \in Names, NEW q \in Runs, lock'[n] = q
        PROVE  Holding(q)' /\ Target(q)' = n
    <3>1. CASE n = Target(r)
      <4>1. q = r
        BY <2>2, <2>6, <3>1 DEF TypeOK
      <4> QED
        BY <2>1, <2>3, <3>1, <4>1
    <3>2. CASE n # Target(r)
      <4>1. lock[n] = q
        BY <2>2, <2>6, <3>2 DEF TypeOK
      <4> QED
        BY <1>1, <2>3, <4>1 DEF LockInv
    <3> QED
      BY <3>1, <3>2
  <2> QED
    BY <2>5, <2>6 DEF LockInv
<1>4. ASSUME NEW r \in Runs, Finish(r) PROVE LockInv'
  <2>1. Target(r) \in Names /\ Holding(r)
    BY <1>4, TargetType DEF Finish, Holding
  <2>2. lock' = [lock EXCEPT ![Target(r)] = NoRun]
    BY <1>4 DEF Finish, Release, LockKey, Target
  <2>3. \A q \in Runs : Holding(q)' <=> q # r /\ Holding(q)
    BY <1>4 DEF Finish, Holding, TypeOK
  <2> QED
    BY <1>1, <2>1, <2>2, <2>3, ReconcileAssumption DEF LockInv, TypeOK, ReconcileAssumption
<1>5. CASE Crash
  <2>1. \A n \in Names : lock'[n] = NoRun
    BY <1>5 DEF Crash
  <2>2. \A r \in Runs : ~Holding(r)'
    BY <1>5 DEF Crash, Holding
  <2> QED
    BY <2>1, <2>2, ReconcileAssumption DEF LockInv, ReconcileAssumption
<1> QED
  BY <1>2, <1>3, <1>4, <1>5, LockSteps

-----------------------------------------------------------------------------
\* Run by run

\* A run that is not asked for has nothing on the wire.
LEMMA InitRuns == Init => RunInv
<1> SUFFICES ASSUME Init, NEW r \in Runs PROVE RunOK(r)
  BY DEF RunInv
<1>1. /\ pc[r] = "idle" /\ ~Holding(r)
      /\ \A l \in Lanes : lane[r][l] = "idle" /\ wire[r][l] = "none" /\ outcome[r][l] = "none"
      /\ lane[r] = Idle /\ wire[r] = NotSent /\ outcome[r] = Unreported
  BY DEF Init, Holding, Idle, NotSent, Unreported
<1>2. StageOK(r)
  BY <1>1 DEF StageOK
<1>3. \A l \in Lanes : LaneOK(r, l) /\ OutcomeOK(r, l) /\ ReportOK(r, l)
  BY <1>1, ReconcileAssumption DEF LaneOK, OutcomeOK, ReportOK, Busy, ReconcileAssumption
<1> QED
  BY <1>2, <1>3 DEF RunOK

\* A step of another run leaves everything RunOK(r) speaks of alone.
LEMMA FrameRun ==
    ASSUME NEW r \in Runs, RunOK(r),
           job'[r] = job[r], pc'[r] = pc[r], files'[r] = files[r],
           cancelled'[r] = cancelled[r], lane'[r] = lane[r], wire'[r] = wire[r],
           outcome'[r] = outcome[r]
    PROVE  RunOK(r)'
  BY DEF RunOK, StageOK, LaneOK, OutcomeOK, ReportOK, Holding, Busy, Blocking, Configured,
         Desired

StepOf(r) ==
    \/ Environment(r)
    \/ Loading(r)
    \/ Locking(r)
    \/ Running(r)
    \/ \E l \in Lanes : LaneStep(r, l) \/ Network(r, l)

\* A step of one run leaves the others alone.
LEMMA OtherRuns ==
    ASSUME TypeOK, NEW q \in Runs, NEW r \in Runs, r # q, StepOf(q)
    PROVE  /\ job'[r] = job[r] /\ pc'[r] = pc[r] /\ files'[r] = files[r]
           /\ cancelled'[r] = cancelled[r] /\ lane'[r] = lane[r] /\ wire'[r] = wire[r]
           /\ outcome'[r] = outcome[r]
<1>1. CASE Environment(q)
  BY <1>1 DEF TypeOK, Environment, Push, Request, Check, Deliver, Cancel
<1>2. CASE Loading(q)
  BY <1>2 DEF TypeOK, Loading, LoadFile, Loaded, LoadFails
<1>3. CASE Locking(q) \/ Running(q)
  BY <1>3 DEF TypeOK, Locking, Refuse, PhaseA, Running, PhaseB, Finish, Start
<1>4. ASSUME NEW l \in Lanes, LaneStep(q, l)
      PROVE  /\ job'[r] = job[r] /\ pc'[r] = pc[r] /\ files'[r] = files[r]
             /\ cancelled'[r] = cancelled[r] /\ lane'[r] = lane[r] /\ wire'[r] = wire[r]
             /\ outcome'[r] = outcome[r]
  BY <1>4 DEF TypeOK, LaneStep, ReadLive, LaneFails, LaneLosesWrite, Answered, Settle
<1>5. ASSUME NEW l \in Lanes, Network(q, l)
      PROVE  /\ job'[r] = job[r] /\ pc'[r] = pc[r] /\ files'[r] = files[r]
             /\ cancelled'[r] = cancelled[r] /\ lane'[r] = lane[r] /\ wire'[r] = wire[r]
             /\ outcome'[r] = outcome[r]
  BY <1>5 DEF TypeOK, Network, WriteLands, WriteRejected, AtGitHub
<1> QED
  BY <1>1, <1>2, <1>3, <1>4, <1>5 DEF StepOf

\* What a run applies and what policy says of it depend on its job and files.
LEMMA SameSettings ==
    ASSUME NEW r \in Runs, job'[r] = job[r], files'[r] = files[r]
    PROVE  Blocking(r)' = Blocking(r) /\ Configured(r)' = Configured(r)
  BY DEF Blocking, Configured, Desired

\* Before the lock nothing has been started, sent or reported.
LEMMA BeforeLock ==
    ASSUME TypeOK, NEW r \in Runs, RunOK(r), pc[r] \in {"idle", "loading", "waiting"},
           pc'[r] \in {"loading", "waiting", "failed"},
           pc'[r] = "waiting" => \A l \in Lanes : files'[r][l] # Unread,
           lane' = lane, wire' = wire, outcome' = outcome
    PROVE  RunOK(r)'
<1>1. /\ lane[r] = Idle /\ wire[r] = NotSent /\ outcome[r] = Unreported
      /\ lane'[r] = Idle /\ wire'[r] = NotSent /\ outcome'[r] = Unreported
  BY DEF RunOK, StageOK
<1>2. StageOK(r)'
  BY <1>1 DEF StageOK, Holding, Idle, Busy
<1>3. \A l \in Lanes : LaneOK(r, l)' /\ OutcomeOK(r, l)' /\ ReportOK(r, l)'
  BY <1>1, ReconcileAssumption
     DEF LaneOK, OutcomeOK, ReportOK, Idle, NotSent, Unreported, Busy, Holding,
         ReconcileAssumption
<1> QED
  BY <1>2, <1>3 DEF RunOK

\* Before the lock: deliveries, hang-ups and loads.
LEMMA EarlySteps ==
    ASSUME TypeOK, NEW r \in Runs, RunOK(r),
           Environment(r) \/ Loading(r)
    PROVE  RunOK(r)'
<1>1. ASSUME NEW j, Deliver(r, j) PROVE RunOK(r)'
  BY <1>1, BeforeLock DEF Deliver, TypeOK
<1>2. CASE Cancel(r)
  <2>1. /\ job'[r] = job[r] /\ pc'[r] = pc[r] /\ files'[r] = files[r] /\ cancelled'[r]
        /\ lane'[r] = lane[r] /\ wire'[r] = wire[r] /\ outcome'[r] = outcome[r]
    BY <1>2 DEF Cancel, TypeOK
  <2> QED
    BY <2>1 DEF RunOK, StageOK, LaneOK, OutcomeOK, ReportOK, Holding, Busy, Blocking,
                Configured, Desired
<1>3. CASE Environment(r)
  BY <1>1, <1>2, <1>3 DEF Environment, Push, Request, Check
<1>4. CASE Loading(r)
  BY <1>4, BeforeLock DEF Loading, LoadFile, Loaded, LoadFails, TypeOK
<1> QED
  BY <1>3, <1>4

\* The policy gate refuses, and nothing is written.
LEMMA RefuseStep ==
    ASSUME TypeOK, NEW r \in Runs, RunOK(r), Refuse(r)
    PROVE  RunOK(r)'
<1>1. /\ lane'[r] = Idle /\ wire'[r] = NotSent /\ pc'[r] = "done"
      /\ job'[r] = job[r] /\ files'[r] = files[r]
      /\ \A l \in Lanes : outcome'[r][l] = IF l \in Blocking(r) THEN "refused" ELSE "none"
  BY DEF Refuse, TypeOK, RunOK, StageOK, Unreported
<1>2. Blocking(r)' = Blocking(r) /\ Configured(r)' = Configured(r)
  BY <1>1, SameSettings
<1>3. StageOK(r)'
  BY <1>1 DEF RunOK, StageOK, Refuse, Holding, Idle, Busy
<1>4. \A l \in Lanes : LaneOK(r, l)' /\ OutcomeOK(r, l)' /\ ReportOK(r, l)'
  BY <1>1, <1>2, ReconcileAssumption
     DEF LaneOK, OutcomeOK, ReportOK, Idle, NotSent, Busy, Holding, Refuse,
         ReconcileAssumption
<1> QED
  BY <1>3, <1>4 DEF RunOK

\* The first phase starts with the repository lane alone.
LEMMA PhaseAStep ==
    ASSUME TypeOK, NEW r \in Runs, RunOK(r), PhaseA(r)
    PROVE  RunOK(r)'
<1>1. /\ wire'[r] = NotSent /\ pc'[r] = "phaseA"
      /\ job'[r] = job[r] /\ files'[r] = files[r] /\ Blocking(r) = {}
      /\ \A l \in Lanes : files[r][l] # Unread
  BY DEF PhaseA, TypeOK, RunOK, StageOK
<1>2. Blocking(r)' = Blocking(r) /\ Configured(r)' = Configured(r)
  BY <1>1, SameSettings
<1>3. \A l \in Lanes :
        /\ lane'[r][l] = IF l = RepoLane /\ l \in Configured(r) \ Disabled
                         THEN "running" ELSE "idle"
        /\ outcome'[r][l] = IF l = RepoLane /\ l \in Configured(r) \intersect Disabled
                            THEN "skipped" ELSE "none"
  BY DEF PhaseA, Start, TypeOK, RunOK, StageOK, Idle, Unreported
<1>4. StageOK(r)'
  BY <1>1, <1>2, <1>3 DEF StageOK, NotSent
<1>5. \A l \in Lanes : LaneOK(r, l)' /\ OutcomeOK(r, l)' /\ ReportOK(r, l)'
  BY <1>1, <1>2, <1>3, ReconcileAssumption
     DEF LaneOK, OutcomeOK, ReportOK, NotSent, Busy, ReconcileAssumption
<1> QED
  BY <1>4, <1>5 DEF RunOK

\* The second phase starts when the first is over.
LEMMA PhaseBStep ==
    ASSUME TypeOK, NEW r \in Runs, RunOK(r), PhaseB(r)
    PROVE  RunOK(r)'
<1>1. /\ wire'[r] = wire[r] /\ pc'[r] = "phaseB" /\ cancelled'[r] = cancelled[r]
      /\ job'[r] = job[r] /\ files'[r] = files[r] /\ Blocking(r) = {}
      /\ \A l \in Lanes : files[r][l] # Unread
      /\ pc[r] = "phaseA" /\ ~Busy(r, RepoLane)
  BY DEF PhaseB, TypeOK, RunOK, StageOK, Holding
<1>2. Blocking(r)' = Blocking(r) /\ Configured(r)' = Configured(r)
  BY <1>1, SameSettings
<1>3. \A l \in Lanes \ {RepoLane} :
        /\ lane[r][l] = "idle" /\ wire[r][l] = "none" /\ outcome[r][l] = "none"
        /\ lane'[r][l] = IF l \in Configured(r) \ Disabled THEN "running" ELSE "idle"
        /\ outcome'[r][l] = IF l \in Configured(r) \intersect Disabled
                            THEN "skipped" ELSE "none"
  BY <1>1 DEF PhaseB, Start, TypeOK, RunOK, StageOK
<1>4. RepoLane \in Lanes /\ lane'[r][RepoLane] = lane[r][RepoLane]
                        /\ outcome'[r][RepoLane] = outcome[r][RepoLane]
  BY ReconcileAssumption DEF PhaseB, Start, TypeOK, ReconcileAssumption
<1>5. StageOK(r)'
  BY <1>1, <1>2, <1>4 DEF StageOK, Busy
<1>6. ASSUME NEW l \in Lanes \ {RepoLane}
      PROVE  LaneOK(r, l)' /\ OutcomeOK(r, l)' /\ ReportOK(r, l)'
  BY <1>1, <1>2, <1>3, <1>6 DEF LaneOK, OutcomeOK, ReportOK, Busy
<1>7. LaneOK(r, RepoLane)' /\ OutcomeOK(r, RepoLane)' /\ ReportOK(r, RepoLane)'
  BY <1>1, <1>2, <1>4 DEF RunOK, LaneOK, OutcomeOK, ReportOK, Busy, Holding
<1> QED
  BY <1>5, <1>6, <1>7 DEF RunOK

\* A run ends when all its lanes are settled.
LEMMA FinishStep ==
    ASSUME TypeOK, NEW r \in Runs, RunOK(r), Finish(r)
    PROVE  RunOK(r)'
<1>1. /\ wire'[r] = wire[r] /\ pc'[r] = "done" /\ cancelled'[r] = cancelled[r]
      /\ job'[r] = job[r] /\ files'[r] = files[r] /\ Blocking(r) = {}
      /\ lane'[r] = lane[r] /\ outcome'[r] = outcome[r]
      /\ \A l \in Lanes : ~Busy(r, l) /\ files[r][l] # Unread
      /\ pc[r] = "phaseB"
  BY DEF Finish, TypeOK, RunOK, StageOK, Holding
<1>2. Blocking(r)' = Blocking(r) /\ Configured(r)' = Configured(r)
  BY <1>1, SameSettings
<1>3. StageOK(r)'
  BY <1>1, <1>2 DEF StageOK, Busy, Holding
<1>4. \A l \in Lanes : LaneOK(r, l)' /\ OutcomeOK(r, l)'
  BY <1>1, <1>2 DEF RunOK, LaneOK, OutcomeOK, Busy, Holding
<1>5. \A l \in Lanes : ReportOK(r, l)'
  BY <1>1, <1>2 DEF RunOK, OutcomeOK, ReportOK, Holding
<1> QED
  BY <1>3, <1>4, <1>5 DEF RunOK

\* A lane at work belongs to a lock holder, in the phase the lane is run in.
LEMMA BusyLane ==
    ASSUME TypeOK, NEW r \in Runs, RunOK(r), NEW m \in Lanes, Busy(r, m)
    PROVE  /\ Holding(r)
           /\ pc[r] = "phaseA" => m = RepoLane
           /\ pc[r] = "phaseB" => m # RepoLane
           /\ m \in Configured(r) \ Disabled /\ Blocking(r) = {}
           /\ outcome[r][m] = "none"
  BY DEF TypeOK, Stages, RunOK, StageOK, LaneOK, OutcomeOK, Busy, Idle, Holding

\* A lane that settles with outcome o, and w becomes of its write.
LEMMA SettleStep ==
    ASSUME TypeOK, NEW r \in Runs, RunOK(r), NEW m \in Lanes, Busy(r, m),
           NEW o \in {"noop", "planned", "pending", "applied", "failed"}, Settle(r, m, o),
           NEW w, wire' = [wire EXCEPT ![r][m] = w],
           w = wire[r][m] \/ (wire[r][m] = "flying" /\ w = "stray" /\ o = "failed"),
           w \in {"flying", "stray"} => o = "failed",
           o = "applied" => w = "landed",
           lane[r][m] = "running" \/ w # "flying" \/ cancelled[r],
           m # RepoLane /\ wire[r][RepoLane] = "flying" => o = "failed",
           UNCHANGED <<job, pc, files, cancelled>>
    PROVE  RunOK(r)'
<1>1. /\ Holding(r) /\ m \in Configured(r) \ Disabled /\ Blocking(r) = {}
      /\ pc[r] = "phaseA" => m = RepoLane
      /\ pc[r] = "phaseB" => m # RepoLane
  BY BusyLane
<1>2. Blocking(r)' = Blocking(r) /\ Configured(r)' = Configured(r)
  BY SameSettings
<1>3. \A l \in Lanes :
        /\ lane'[r][l] = IF l = m THEN "done" ELSE lane[r][l]
        /\ outcome'[r][l] = IF l = m THEN o ELSE outcome[r][l]
        /\ wire'[r][l] = IF l = m THEN w ELSE wire[r][l]
  BY DEF Settle, TypeOK
<1>4. StageOK(r)'
  <2>1. CASE pc[r] = "phaseA"
    BY <1>1, <1>2, <1>3, <2>1 DEF RunOK, StageOK, Busy, Holding
  <2>2. CASE pc[r] = "phaseB"
    <3>1. RepoLane \in Lanes /\ ~Busy(r, RepoLane)'
      BY <1>1, <1>3, <2>2, ReconcileAssumption
         DEF RunOK, StageOK, Busy, ReconcileAssumption
    <3> QED
      BY <1>1, <1>2, <2>2, <3>1 DEF RunOK, StageOK, Holding
  <2> QED
    BY <1>1, <2>1, <2>2 DEF Holding
<1>5. ASSUME NEW l \in Lanes PROVE LaneOK(r, l)'
  <2>1. LaneOK(r, l) /\ LaneOK(r, m)
    BY DEF RunOK
  <2> QED
    BY <1>1, <1>2, <1>3, <2>1 DEF LaneOK, Busy
<1>6. ASSUME NEW l \in Lanes PROVE OutcomeOK(r, l)' /\ ReportOK(r, l)'
  <2>1. OutcomeOK(r, l) /\ ReportOK(r, l)
    BY DEF RunOK
  <2> QED
    BY <1>1, <1>2, <1>3, <2>1 DEF OutcomeOK, ReportOK, Busy, Holding
<1> QED
  BY <1>4, <1>5, <1>6 DEF RunOK

\* A lane sends what its settings file says.
LEMMA SendStep ==
    ASSUME TypeOK, NEW r \in Runs, RunOK(r), NEW m \in Lanes, ReadLive(r, m),
           ~job[r].dry, lane' = [lane EXCEPT ![r][m] = "sent"],
           wire' = [wire EXCEPT ![r][m] = "flying"], UNCHANGED outcome
    PROVE  RunOK(r)'
<1>1. /\ Busy(r, m) /\ ~cancelled[r]
      /\ UNCHANGED <<job, pc, files, cancelled, outcome>>
  BY DEF ReadLive, Busy
<1>2. /\ Holding(r) /\ m \in Configured(r) \ Disabled /\ Blocking(r) = {}
      /\ pc[r] = "phaseA" => m = RepoLane
      /\ pc[r] = "phaseB" => m # RepoLane
      /\ outcome[r][m] = "none"
  BY <1>1, BusyLane
<1>3. Blocking(r)' = Blocking(r) /\ Configured(r)' = Configured(r)
  BY <1>1, SameSettings
<1>4. \A l \in Lanes :
        /\ lane'[r][l] = IF l = m THEN "sent" ELSE lane[r][l]
        /\ wire'[r][l] = IF l = m THEN "flying" ELSE wire[r][l]
  BY <1>1 DEF TypeOK
<1>5. m # RepoLane => wire[r][RepoLane] # "flying"
  BY <1>1, <1>2, ReconcileAssumption
     DEF RunOK, StageOK, LaneOK, Busy, Holding, ReconcileAssumption
<1>6. StageOK(r)'
  BY <1>1, <1>2, <1>3, <1>4 DEF RunOK, StageOK, Busy, Holding
<1>7. ASSUME NEW l \in Lanes PROVE LaneOK(r, l)'
  <2>1. LaneOK(r, l) /\ LaneOK(r, m)
    BY DEF RunOK
  <2>2. CASE m = RepoLane /\ l # m
    <3>1. pc[r] = "phaseA"
      BY <1>2, <2>2 DEF Holding
    <3>2. wire[r][l] = "none" /\ outcome[r][l] = "none"
      BY <2>2, <3>1 DEF RunOK, StageOK
    <3> QED
      BY <1>1, <1>3, <1>4, <2>1, <2>2, <3>2 DEF LaneOK
  <2>3. CASE m # RepoLane \/ l = m
    BY <1>1, <1>2, <1>3, <1>4, <1>5, <2>1, <2>3, ReconcileAssumption
       DEF LaneOK, Busy, ReconcileAssumption
  <2> QED
    BY <2>2, <2>3
<1>8. ASSUME NEW l \in Lanes PROVE OutcomeOK(r, l)' /\ ReportOK(r, l)'
  <2>1. OutcomeOK(r, l) /\ ReportOK(r, l)
    BY DEF RunOK
  <2> QED
    BY <1>1, <1>2, <1>3, <1>4, <2>1 DEF OutcomeOK, ReportOK, Busy, Holding
<1> QED
  BY <1>6, <1>7, <1>8 DEF RunOK

\* What a lane does by itself.
LEMMA LaneStepOK ==
    ASSUME TypeOK, NEW r \in Runs, RunOK(r), NEW m \in Lanes, LaneStep(r, m)
    PROVE  RunOK(r)'
<1>1. Busy(r, m)
  BY DEF LaneStep, ReadLive, LaneFails, LaneLosesWrite, Answered, Busy
<1>2. m # RepoLane /\ wire[r][RepoLane] = "flying" =>
          cancelled[r] /\ wire[r][m] = "none"
  BY <1>1, BusyLane, ReconcileAssumption
     DEF RunOK, StageOK, LaneOK, Busy, Holding, ReconcileAssumption
<1>5. wire = [wire EXCEPT ![r][m] = wire[r][m]]
  BY DEF TypeOK
<1>6. lane[r][m] = "running" => wire[r][m] = "none"
  BY DEF RunOK, LaneOK
<1>3. CASE ReadLive(r, m)
  <2>2. CASE \E o \in {"noop", "planned", "pending"} : Settle(r, m, o) /\ wire' = wire
    <3>1. PICK o \in {"noop", "planned", "pending"} : Settle(r, m, o)
      BY <2>2
    <3>2. /\ lane[r][m] = "running" /\ wire' = [wire EXCEPT ![r][m] = wire[r][m]]
          /\ wire[r][m] = "none" /\ ~cancelled[r]
          /\ UNCHANGED <<job, pc, files, cancelled>>
      BY <1>3, <1>5, <1>6, <2>2 DEF ReadLive
    <3> QED
      BY <1>1, <1>2, <3>1, <3>2, SettleStep
  <2>3. CASE /\ lane' = [lane EXCEPT ![r][m] = "sent"]
             /\ wire' = [wire EXCEPT ![r][m] = "flying"] /\ UNCHANGED outcome
             /\ ~job[r].dry
    BY <1>3, <2>3, SendStep
  <2> QED
    BY <1>3, <2>2, <2>3 DEF ReadLive
<1>4. CASE LaneFails(r, m)
  <2>1. /\ lane[r][m] = "running" \/ wire[r][m] # "flying" \/ cancelled[r]
        /\ Settle(r, m, "failed") /\ wire' = [wire EXCEPT ![r][m] = wire[r][m]]
        /\ UNCHANGED <<job, pc, files, cancelled>>
    BY <1>4, <1>5 DEF LaneFails
  <2> QED
    BY <1>1, <2>1, SettleStep
<1>7. CASE LaneLosesWrite(r, m)
  <2>1. /\ wire[r][m] = "flying" /\ Settle(r, m, "failed")
        /\ wire' = [wire EXCEPT ![r][m] = "stray"]
        /\ UNCHANGED <<job, pc, files, cancelled>>
    BY <1>7 DEF LaneLosesWrite
  <2> QED
    BY <1>1, <2>1, SettleStep
<1>8. CASE Answered(r, m)
  <2>1. /\ wire[r][m] = "landed" /\ Settle(r, m, "applied")
        /\ wire' = [wire EXCEPT ![r][m] = wire[r][m]]
        /\ UNCHANGED <<job, pc, files, cancelled>>
    BY <1>5, <1>8 DEF Answered
  <2> QED
    BY <1>1, <1>2, <2>1, SettleStep
<1> QED
  BY <1>3, <1>4, <1>7, <1>8 DEF LaneStep

\* GitHub performs or refuses what is on the wire.
LEMMA NetworkStep ==
    ASSUME TypeOK, NEW r \in Runs, RunOK(r), NEW m \in Lanes, Network(r, m)
    PROVE  RunOK(r)'
<1>1. PICK w \in {"landed", "rejected"} : wire' = [wire EXCEPT ![r][m] = w]
  BY DEF Network, WriteLands, WriteRejected, AtGitHub
<1>2. /\ wire[r][m] \in {"flying", "stray"}
      /\ UNCHANGED <<job, pc, files, cancelled, lane, outcome>>
  BY DEF Network, WriteLands, WriteRejected, AtGitHub
<1>3. Blocking(r)' = Blocking(r) /\ Configured(r)' = Configured(r)
  BY <1>2, SameSettings
<1>4. \A l \in Lanes : wire'[r][l] = IF l = m THEN w ELSE wire[r][l]
  BY <1>1 DEF TypeOK
<1>5. wire[r] # NotSent /\ (pc[r] = "phaseA" => m = RepoLane)
  BY <1>2 DEF RunOK, StageOK, NotSent
<1>6. StageOK(r)'
  BY <1>2, <1>3, <1>4, <1>5 DEF RunOK, StageOK, Busy, Holding
<1>7. ASSUME NEW l \in Lanes PROVE LaneOK(r, l)' /\ OutcomeOK(r, l)' /\ ReportOK(r, l)'
  <2>1. LaneOK(r, l) /\ LaneOK(r, m) /\ OutcomeOK(r, l) /\ ReportOK(r, l)
    BY DEF RunOK
  <2>2. LaneOK(r, l)'
    BY <1>2, <1>3, <1>4, <2>1, ReconcileAssumption DEF LaneOK, ReconcileAssumption
  <2>3. OutcomeOK(r, l)' /\ ReportOK(r, l)'
    BY <1>2, <1>3, <2>1 DEF OutcomeOK, ReportOK, Busy, Holding
  <2> QED
    BY <2>2, <2>3
<1> QED
  BY <1>6, <1>7 DEF RunOK

\* A crash ends every run; what is on the wire stays there.
LEMMA CrashStep ==
    ASSUME TypeOK, NEW r \in Runs, RunOK(r), Crash
    PROVE  RunOK(r)'
<1>1. /\ UNCHANGED <<job, files, cancelled, wire, outcome>>
      /\ pc'[r] = IF pc[r] \in {"loading", "waiting", "phaseA", "phaseB"}
                  THEN "lost" ELSE pc[r]
      /\ \A l \in Lanes : lane'[r][l] = IF Busy(r, l) THEN "done" ELSE lane[r][l]
      /\ ~Holding(r)'
  BY DEF Crash, Holding
<1>2. Blocking(r)' = Blocking(r) /\ Configured(r)' = Configured(r)
  BY <1>1, SameSettings
<1>3. StageOK(r)'
  <2>1. ~(\E l \in Lanes : Busy(r, l)')
    BY <1>1 DEF Busy
  <2>2. CASE pc[r] \in {"idle", "failed"}
    <3>1. lane'[r] = lane[r]
      BY <2>2 DEF Crash, TypeOK, RunOK, StageOK, Idle, Busy
    <3> QED
      BY <1>1, <2>2, <3>1 DEF RunOK, StageOK
  <2>3. CASE pc[r] \notin {"idle", "failed"}
    BY <1>1, <1>2, <2>1, <2>3 DEF RunOK, StageOK, Holding, TypeOK, Stages
  <2> QED
    BY <2>2, <2>3
<1>4. ASSUME NEW l \in Lanes PROVE LaneOK(r, l)' /\ OutcomeOK(r, l)' /\ ReportOK(r, l)'
  <2>1. LaneOK(r, l) /\ OutcomeOK(r, l) /\ ReportOK(r, l) /\ StageOK(r)
    BY DEF RunOK
  <2>2. CASE pc[r] \in {"loading", "waiting", "phaseA", "phaseB"}
    BY <1>1, <1>2, <2>1, <2>2 DEF LaneOK, OutcomeOK, ReportOK, Busy, Holding
  <2>3. CASE pc[r] \notin {"loading", "waiting", "phaseA", "phaseB"}
    <3>1. ~Busy(r, l)
      BY <2>1, <2>3 DEF StageOK, Busy, Idle, TypeOK, Stages
    <3> QED
      BY <1>1, <1>2, <2>1, <2>3, <3>1 DEF LaneOK, OutcomeOK, ReportOK, Busy, Holding
  <2> QED
    BY <2>2, <2>3
<1> QED
  BY <1>3, <1>4 DEF RunOK

\* Every step keeps what is known of every run.
LEMMA NextRuns == TypeOK /\ RunInv /\ [Next]_vars => RunInv'
<1> SUFFICES ASSUME TypeOK, RunInv, [Next]_vars, NEW r \in Runs PROVE RunOK(r)'
  BY DEF RunInv
<1>1. RunOK(r)
  BY DEF RunInv
<1>2. ASSUME NEW q \in Runs, StepOf(q), q # r PROVE RunOK(r)'
  BY <1>1, <1>2, OtherRuns, FrameRun
<1>3. CASE StepOf(r)
  BY <1>1, <1>3, EarlySteps, RefuseStep, PhaseAStep, PhaseBStep, FinishStep, LaneStepOK,
     NetworkStep
     DEF StepOf, Locking, Running
<1>4. CASE Crash
  BY <1>1, <1>4, CrashStep
<1>5. CASE UNCHANGED vars
  BY <1>1, <1>5, FrameRun DEF vars
<1> QED
  BY <1>2, <1>3, <1>4, <1>5 DEF Next, StepOf

-----------------------------------------------------------------------------
\* Theorems

\* The inductive invariant.
LEMMA Invariance == Spec => []IInv
<1>1. Init => IInv
  BY InitType, InitLock, InitRuns DEF IInv
<1>2. IInv /\ [Next]_vars => IInv'
  BY NextType, NextLock, NextRuns DEF IInv
<1> QED
  BY <1>1, <1>2, PTL DEF Spec

(***************************************************************************)
(* Every variable of the pipeline keeps its type; in particular no lane    *)
(* ever writes "absent" or "not fetched" to GitHub.                        *)
(***************************************************************************)
THEOREM TypeCorrect == Spec => []TypeOK
  BY Invariance, PTL DEF IInv

(***************************************************************************)
(* RepoLock.With gives a repository to one reconcile at a time, for every  *)
(* set of deliveries and spellings, hang-ups and crashes included.         *)
(***************************************************************************)
THEOREM MutualExclusion == Spec => []OneHolderPerRepo
<1>1. IInv => OneHolderPerRepo
  BY TargetType DEF IInv, LockInv, OneHolderPerRepo, Holding
<1> QED
  BY <1>1, Invariance, PTL

(***************************************************************************)
(* Through lost answers, hang-ups and crashes, what may still change       *)
(* GitHub after its run is over was reported as failed or died with the    *)
(* process, and what was reported as applied has landed.                   *)
(***************************************************************************)
THEOREM LateWritesAreReported == Spec => []WritesAreReported
<1>1. IInv => WritesAreReported
  <2> SUFFICES ASSUME IInv, NEW r \in Runs, NEW l \in Lanes
               PROVE  /\ AtGitHub(r, l) /\ ~Holding(r) =>
                            outcome[r][l] = "failed" \/ pc[r] = "lost"
                      /\ outcome[r][l] = "applied" => wire[r][l] = "landed"
    BY DEF WritesAreReported
  <2>1. LaneOK(r, l)
    BY DEF IInv, RunInv, RunOK
  <2>2. lane[r][l] = "sent" => Holding(r)
    BY BusyLane DEF IInv, RunInv, Busy
  <2> QED
    BY <2>1, <2>2 DEF LaneOK, AtGitHub
<1> QED
  BY <1>1, Invariance, PTL

(***************************************************************************)
(* Phase B reads and writes nothing while a Phase A write is travelling.   *)
(***************************************************************************)
THEOREM PhasesInOrder == Spec => []PhaseOrder
<1>1. IInv => PhaseOrder
  BY DEF IInv, RunInv, RunOK, LaneOK, PhaseOrder
<1> QED
  BY <1>1, Invariance, PTL

(***************************************************************************)
(* Dry runs, refused runs, disabled, unmanaged and unselected lanes write  *)
(* nothing.                                                                *)
(***************************************************************************)
THEOREM WritesAreAllowed == Spec => []OnlyAllowedWrites
<1>1. IInv => OnlyAllowedWrites
  <2> SUFFICES ASSUME IInv, NEW r \in Runs, NEW l \in Lanes, wire[r][l] # "none"
               PROVE  /\ ~job[r].dry
                      /\ \A k \in Lanes : files[r][k] \notin Forbidden
                      /\ l \in job[r].selected \ Disabled
                      /\ files[r][l] \in Values
    BY DEF OnlyAllowedWrites
  <2>1. lane[r][l] # "idle" /\ LaneOK(r, l) /\ files[r][l] \in FileValues
    BY DEF IInv, RunInv, RunOK, LaneOK, TypeOK
  <2> QED
    BY <2>1 DEF LaneOK, Configured, Desired, FileValues, Blocking
<1> QED
  BY <1>1, Invariance, PTL

(***************************************************************************)
(* A finished report accounts for every configured lane and no other.      *)
(***************************************************************************)
THEOREM ReportsAreComplete == Spec => []ReportComplete
<1>1. IInv => ReportComplete
  BY DEF IInv, RunInv, RunOK, ReportOK, ReportComplete
<1> QED
  BY <1>1, Invariance, PTL
-----------------------------------------------------------------------------
\* The serial specification

(***************************************************************************)
(* No caller hangs up, no answer to a write is lost while the write is     *)
(* still on its way and the process does not die.  Otherwise a write whose *)
(* run is over may land under another holder of the lock, and what follows *)
(* is false (WorkIsSerialized).                                            *)
(***************************************************************************)
NobodyLeaves == Faults \intersect {"lost", "cancel", "crash"} = {}

Calm == \A r \in Runs :
           ~cancelled[r] /\ pc[r] # "lost" /\ \A l \in Lanes : wire[r][l] # "stray"

(***************************************************************************)
(* What run r has made of lane l since it took the lock: GitHub has what   *)
(* it had then until the lane's write lands, only a difference is written, *)
(* and the report agrees with what was found and done.                     *)
(***************************************************************************)
EffectOK(r, l) ==
    LET was == began[r][l]  now == live[Target(r)][l]
    IN  /\ was \in Values
        /\ wire[r][l] \in {"none", "flying"} => now = was
        /\ wire[r][l] # "none" => was # Desired(r, l)
        /\ wire[r][l] = "landed" => now = Made(r, l, was)
        /\ outcome[r][l] = "noop" => wire[r][l] = "none" /\ was = Desired(r, l)
        /\ outcome[r][l] = "planned" =>
              wire[r][l] = "none" /\ was # Desired(r, l) /\ job[r].dry
        /\ outcome[r][l] = "pending" =>
              wire[r][l] = "none" /\ was # Desired(r, l) /\ Made(r, l, was) = was /\ ~job[r].dry
        /\ outcome[r][l] = "applied" => wire[r][l] = "landed"

EffectInv == \A r \in Runs : Holding(r) => \A l \in Lanes : EffectOK(r, l)

SerialInv == Calm /\ EffectInv

\* While nobody leaves, a write on the wire is of the holder of the lock.
LEMMA FlyingIsOwned ==
    ASSUME IInv, Calm, NEW r \in Runs, NEW l \in Lanes, AtGitHub(r, l)
    PROVE  Holding(r) /\ wire[r][l] = "flying"
<1>1. Busy(r, l) /\ wire[r][l] = "flying"
  BY DEF IInv, RunInv, RunOK, LaneOK, Calm, Busy, AtGitHub
<1> QED
  BY <1>1, BusyLane DEF IInv, RunInv

\* Calls of nobody fail, and no run is lost.
LEMMA NextCalm == ASSUME NobodyLeaves, TypeOK, Calm, [Next]_vars PROVE Calm'
<1>1. ~Crash /\ \A r \in Runs : ~Cancel(r)
  BY DEF NobodyLeaves, Crash, Cancel
<1>2. ASSUME NEW r \in Runs, Environment(r) PROVE Calm'
  BY <1>1, <1>2 DEF Environment, Push, Request, Check, Deliver, Calm, TypeOK
<1>3. ASSUME NEW r \in Runs, Loading(r) PROVE Calm'
  BY <1>3 DEF Loading, LoadFile, Loaded, LoadFails, Calm, TypeOK
<1>4. ASSUME NEW r \in Runs, Locking(r) \/ Running(r) PROVE Calm'
  BY <1>4 DEF Locking, Refuse, PhaseA, Running, PhaseB, Finish, Calm, TypeOK
<1>5. ASSUME NEW r \in Runs, NEW l \in Lanes, LaneStep(r, l) \/ Network(r, l) PROVE Calm'
  <2>1. UNCHANGED <<pc, cancelled>> /\ ~LaneLosesWrite(r, l)
    BY <1>5 DEF NobodyLeaves, LaneStep, ReadLive, LaneFails, LaneLosesWrite, Answered,
        Network, WriteLands, WriteRejected
  <2>2. wire' = wire \/ \E w \in {"flying", "landed", "rejected"} :
                          wire' = [wire EXCEPT ![r][l] = w]
    BY <1>5, <2>1 DEF LaneStep, ReadLive, LaneFails, Answered, Network, WriteLands,
        WriteRejected
  <2>3. wire \in [Runs -> [Lanes -> WireStates]]
    BY DEF TypeOK
  <2>4. ASSUME NEW q \in Runs, NEW k \in Lanes PROVE wire'[q][k] # "stray"
    <3>1. wire[q][k] # "stray"
      BY DEF Calm
    <3> QED
      BY <2>2, <2>3, <3>1
  <2> QED
    BY <2>1, <2>4 DEF Calm
<1>6. CASE UNCHANGED vars
  BY <1>6 DEF vars, Calm
<1> QED
  BY <1>1, <1>2, <1>3, <1>4, <1>5, <1>6 DEF Next

\* A step of another run leaves a lock holder's repository alone.
LEMMA OthersKeepOut ==
    ASSUME IInv, Calm, NEW q \in Runs, NEW r \in Runs, r # q, StepOf(q), Holding(r)
    PROVE  began'[r] = began[r] /\ live'[Target(r)] = live[Target(r)]
<1>1. CASE Environment(q) \/ Loading(q)
  BY <1>1 DEF Environment, Push, Request, Check, Deliver, Cancel, Loading, LoadFile, Loaded,
              LoadFails
<1>2. CASE Locking(q) \/ Running(q)
  BY <1>2 DEF IInv, TypeOK, Locking, Refuse, PhaseA, Running, PhaseB, Finish
<1>3. ASSUME NEW l \in Lanes, LaneStep(q, l) \/ Network(q, l)
      PROVE  began'[r] = began[r] /\ live'[Target(r)] = live[Target(r)]
  <2>1. CASE LaneStep(q, l)
    BY <2>1 DEF LaneStep, ReadLive, LaneFails, LaneLosesWrite, Answered
  <2>2. CASE Network(q, l)
    <3>1. AtGitHub(q, l) /\ began' = began
      BY <2>2 DEF Network, WriteLands, WriteRejected
    <3>2. Holding(q)
      BY <3>1, FlyingIsOwned
    <3>3. Target(q) # Target(r)
      BY <3>2, TargetType DEF IInv, LockInv, Holding
    <3>4. live' = live \/ \E v : live' = [live EXCEPT ![Target(q)][l] = v]
      BY <2>2 DEF Network, WriteLands, WriteRejected, AtGitHub
    <3>5. Target(r) \in Repos
      BY TargetType DEF IInv, Holding
    <3> QED
      BY <3>1, <3>3, <3>4, <3>5 DEF IInv, TypeOK
  <2> QED
    BY <1>3, <2>1, <2>2
<1> QED
  BY <1>1, <1>2, <1>3 DEF StepOf

\* What a step does to the effects of a lane depends on the lane alone.
LEMMA SameEffect ==
    ASSUME NEW r \in Runs, NEW l \in Lanes, EffectOK(r, l),
           job'[r] = job[r], files'[r] = files[r], began'[r] = began[r],
           live'[Target(r)][l] = live[Target(r)][l],
           wire'[r][l] = wire[r][l], outcome'[r][l] = outcome[r][l]
    PROVE  EffectOK(r, l)'
<1>1. /\ Target(r)' = Target(r) /\ Desired(r, l)' = Desired(r, l)
      /\ Made(r, l, began[r][l])' = Made(r, l, began[r][l])
  BY DEF Target, Desired, Made
<1> QED
  BY <1>1 DEF EffectOK

\* A run that takes the lock has done nothing yet.
LEMMA PhaseAEffect ==
    ASSUME IInv, NEW r \in Runs, PhaseA(r), NEW l \in Lanes
    PROVE  EffectOK(r, l)'
<1>1. /\ wire'[r][l] = "none" /\ outcome'[r][l] \in {"none", "skipped"}
      /\ job' = job /\ live' = live /\ began'[r] = live[Target(r)]
  BY DEF PhaseA, Start, IInv, TypeOK, RunInv, RunOK, StageOK, NotSent, Unreported
<1>2. Target(r)' = Target(r) /\ live[Target(r)][l] \in Values
  BY <1>1, TargetType DEF Target, PhaseA, IInv, TypeOK
<1> QED
  BY <1>1, <1>2 DEF EffectOK

\* The lanes of the second phase start, or are skipped.
LEMMA PhaseBEffect ==
    ASSUME IInv, NEW r \in Runs, PhaseB(r), NEW l \in Lanes, EffectOK(r, l)
    PROVE  EffectOK(r, l)'
<1>1. UNCHANGED <<job, files, began, live, wire>>
  BY DEF PhaseB
<1>2. CASE outcome'[r][l] = outcome[r][l]
  BY <1>1, <1>2, SameEffect
<1>3. CASE outcome'[r][l] # outcome[r][l]
  <2>1. outcome'[r][l] = "skipped"
    BY <1>3 DEF PhaseB, Start, IInv, TypeOK
  <2>2. /\ Target(r)' = Target(r) /\ Desired(r, l)' = Desired(r, l)
        /\ Made(r, l, began[r][l])' = Made(r, l, began[r][l])
    BY <1>1 DEF Target, Desired, Made
  <2> QED
    BY <1>1, <2>1, <2>2 DEF EffectOK
<1> QED
  BY <1>2, <1>3

\* A lane finds what it finds, fails, or has its answer.
LEMMA LaneEffect ==
    ASSUME IInv, NEW r \in Runs, NEW m \in Lanes, LaneStep(r, m),
           NEW l \in Lanes, EffectOK(r, l)
    PROVE  EffectOK(r, l)'
<1>1. UNCHANGED <<job, files, began, live>>
  BY DEF LaneStep, ReadLive, LaneFails, LaneLosesWrite, Answered
<1>2. CASE l # m
  <2>1. wire'[r][l] = wire[r][l] /\ outcome'[r][l] = outcome[r][l]
    BY <1>2 DEF LaneStep, ReadLive, LaneFails, LaneLosesWrite, Answered, Settle, IInv,
        TypeOK
  <2> QED
    BY <1>1, <2>1, SameEffect
<1>3. CASE l = m
  <2>1. /\ Target(r)' = Target(r) /\ Desired(r, l)' = Desired(r, l)
        /\ Made(r, l, began[r][l])' = Made(r, l, began[r][l])
    BY <1>1 DEF Target, Desired, Made
  <2>2. lane[r][l] = "running" => wire[r][l] = "none" /\ outcome[r][l] = "none"
    BY DEF IInv, RunInv, RunOK, LaneOK, OutcomeOK, Busy
  <2>3. CASE ReadLive(r, l)
    <3>1. \/ /\ wire'[r][l] = wire[r][l] /\ outcome'[r][l] = "noop"
             /\ live[Target(r)][l] = Desired(r, l)
          \/ /\ wire'[r][l] = wire[r][l] /\ outcome'[r][l] = "planned"
             /\ live[Target(r)][l] # Desired(r, l) /\ job[r].dry
          \/ /\ wire'[r][l] = wire[r][l] /\ outcome'[r][l] = "pending"
             /\ live[Target(r)][l] # Desired(r, l) /\ ~job[r].dry /\ Awaiting(r, l)
          \/ /\ wire'[r][l] = "flying" /\ outcome'[r][l] = outcome[r][l]
             /\ live[Target(r)][l] # Desired(r, l)
      BY <2>3 DEF ReadLive, Settle, IInv, TypeOK
    <3>2. lane[r][l] = "running"
      BY <2>3 DEF ReadLive
    <3>3. live[Target(r)][l] = began[r][l]
      BY <2>2, <3>2 DEF EffectOK
    <3>4. Awaiting(r, l) => Made(r, l, began[r][l]) = began[r][l]
      BY <3>3 DEF Awaiting
    <3> QED
      BY <1>1, <2>1, <2>2, <3>1, <3>2, <3>3, <3>4 DEF EffectOK
  <2>4. CASE LaneFails(r, l) \/ Answered(r, l)
    <3>1. /\ wire'[r][l] = wire[r][l]
          /\ \/ outcome'[r][l] = "failed"
             \/ outcome'[r][l] = "applied" /\ wire[r][l] = "landed"
      BY <2>4 DEF LaneFails, Answered, Settle, IInv, TypeOK
    <3> QED
      BY <1>1, <2>1, <3>1 DEF EffectOK
  <2>5. CASE LaneLosesWrite(r, l)
    <3>1. wire'[r][l] = "stray" /\ outcome'[r][l] = "failed" /\ wire[r][l] = "flying"
      BY <2>5 DEF LaneLosesWrite, Settle, IInv, TypeOK
    <3> QED
      BY <1>1, <2>1, <3>1 DEF EffectOK
  <2> QED
    BY <1>3, <2>3, <2>4, <2>5 DEF LaneStep
<1> QED
  BY <1>2, <1>3

\* A write lands, or is refused there.
LEMMA NetworkEffect ==
    ASSUME IInv, Calm, NEW r \in Runs, Holding(r), NEW m \in Lanes, Network(r, m),
           NEW l \in Lanes, EffectOK(r, l)
    PROVE  EffectOK(r, l)'
<1>6. AtGitHub(r, m)
  BY DEF Network, WriteLands, WriteRejected
<1>1. /\ wire[r][m] = "flying"
      /\ UNCHANGED <<job, files, began, outcome>>
      /\ \/ /\ wire' = [wire EXCEPT ![r][m] = "landed"]
            /\ live' = [live EXCEPT ![Target(r)][m] = Made(r, m, live[Target(r)][m])]
         \/ /\ wire' = [wire EXCEPT ![r][m] = "rejected"]
            /\ \/ live' = live
               \/ live' = [live EXCEPT ![Target(r)][m] = Partial]
  BY <1>6, FlyingIsOwned DEF Network, WriteLands, WriteRejected
<1>2. Target(r) \in Repos
  BY TargetType DEF IInv, Holding
<1>5. live \in [Repos -> [Lanes -> Values]] /\ wire \in [Runs -> [Lanes -> WireStates]]
  BY DEF IInv, TypeOK
<1>3. CASE l # m
  <2>1. wire'[r][l] = wire[r][l]
    BY <1>1, <1>3, <1>5
  <2>2. live'[Target(r)][l] = live[Target(r)][l]
    <3>1. live' = live \/ \E v : live' = [live EXCEPT ![Target(r)][m] = v]
      BY <1>1 DEF Made
    <3> QED
      BY <1>2, <1>3, <1>5, <3>1
  <2> QED
    BY <1>1, <2>1, <2>2, SameEffect
<1>4. CASE l = m
  <2>1. /\ Target(r)' = Target(r) /\ Desired(r, l)' = Desired(r, l)
        /\ Made(r, l, began[r][l])' = Made(r, l, began[r][l])
    BY <1>1 DEF Target, Desired, Made
  <2>2. CASE /\ wire' = [wire EXCEPT ![r][m] = "landed"]
             /\ live' = [live EXCEPT ![Target(r)][m] = Made(r, m, live[Target(r)][m])]
    <3>1. wire'[r][l] = "landed" /\ live'[Target(r)][l] = Made(r, l, live[Target(r)][l])
      BY <1>2, <1>4, <1>5, <2>2
    <3>2. live[Target(r)][l] = began[r][l]
      BY <1>1, <1>4 DEF EffectOK
    <3> QED
      BY <1>1, <1>4, <2>1, <3>1, <3>2 DEF EffectOK
  <2>3. CASE wire' = [wire EXCEPT ![r][m] = "rejected"]
    <3>1. wire'[r][l] = "rejected"
      BY <1>4, <1>5, <2>3
    <3> QED
      BY <1>1, <1>4, <2>1, <3>1 DEF EffectOK
  <2> QED
    BY <1>1, <2>2, <2>3
<1> QED
  BY <1>3, <1>4

\* Every step of a run keeps what is known of its own effects.
LEMMA OwnEffect ==
    ASSUME NobodyLeaves, IInv, Calm, NEW r \in Runs, StepOf(r), Holding(r)',
           Holding(r) => \A l \in Lanes : EffectOK(r, l),
           NEW l \in Lanes
    PROVE  EffectOK(r, l)'
<1>1. CASE Environment(r) \/ Loading(r)
  <2>1. pc'[r] \in {"loading", "waiting", "failed"}
    BY <1>1 DEF NobodyLeaves, Environment, Push, Request, Check, Deliver, Cancel, Loading,
       LoadFile, Loaded, LoadFails, IInv, TypeOK
  <2> QED
    BY <2>1 DEF Holding
<1>2. CASE Locking(r)
  <2>1. ~Refuse(r)
    BY DEF Refuse, Holding, IInv, TypeOK
  <2> QED
    BY <1>2, <2>1, PhaseAEffect DEF Locking
<1>3. CASE Running(r)
  <2>1. ~Finish(r)
    BY DEF Finish, Holding, IInv, TypeOK
  <2> QED
    BY <1>3, <2>1, PhaseBEffect DEF Running, PhaseB, Holding
<1>4. ASSUME NEW m \in Lanes, LaneStep(r, m) \/ Network(r, m) PROVE EffectOK(r, l)'
  <2>1. Holding(r)
    BY <1>4 DEF LaneStep, ReadLive, LaneFails, LaneLosesWrite, Answered, Network,
        WriteLands, WriteRejected, AtGitHub,
                Holding
  <2> QED
    BY <1>4, <2>1, LaneEffect, NetworkEffect
<1> QED
  BY <1>1, <1>2, <1>3, <1>4 DEF StepOf

\* Every step keeps the effects of every holder.
LEMMA NextSerial == ASSUME NobodyLeaves, IInv, SerialInv, [Next]_vars PROVE SerialInv'
<1>1. Calm'
  BY NextCalm DEF SerialInv, IInv
<1>2. ASSUME NEW r \in Runs, Holding(r)', NEW l \in Lanes PROVE EffectOK(r, l)'
  <2>1. CASE StepOf(r)
    BY <1>2, <2>1, OwnEffect DEF SerialInv, EffectInv
  <2>2. ASSUME NEW q \in Runs, q # r, StepOf(q) PROVE EffectOK(r, l)'
    <3>1. /\ job'[r] = job[r] /\ pc'[r] = pc[r] /\ files'[r] = files[r]
          /\ wire'[r] = wire[r] /\ outcome'[r] = outcome[r]
      BY <2>2, OtherRuns DEF IInv
    <3>2. Holding(r)
      BY <1>2, <3>1 DEF Holding
    <3>3. began'[r] = began[r] /\ live'[Target(r)] = live[Target(r)]
      BY <2>2, <3>2, OthersKeepOut DEF SerialInv
    <3> QED
      BY <3>1, <3>2, <3>3, SameEffect DEF SerialInv, EffectInv
  <2>3. CASE UNCHANGED vars
    BY <1>2, <2>3, SameEffect DEF vars, Holding, SerialInv, EffectInv
  <2>4. ~Crash
    BY DEF NobodyLeaves, Crash
  <2> QED
    BY <2>1, <2>2, <2>3, <2>4 DEF Next, StepOf
<1> QED
  BY <1>1, <1>2 DEF SerialInv, EffectInv

\* The effects of the holders are known all along.
LEMMA SerialInvariance == ASSUME NobodyLeaves PROVE Spec => []SerialInv
<1>1. Init => SerialInv
  BY DEF Init, SerialInv, Calm, EffectInv, Holding, NotSent
<1>2. IInv /\ SerialInv /\ [Next]_vars => SerialInv'
  BY NextSerial
<1> QED
  BY <1>1, <1>2, Invariance, PTL DEF Spec

(***************************************************************************)
(* While nobody leaves, a repository changes under a lock holder by the    *)
(* holder's own writes alone: what repo_lock.go:8-10 promises.             *)
(***************************************************************************)
THEOREM LockSerializesWork == ASSUME NobodyLeaves PROVE Spec => WorkIsSerialized
<1> DEFINE Own(r) == \E l \in Lanes : AtGitHub(r, l) /\ wire'[r][l] # wire[r][l]
           Kept(r) == Holding(r) /\ live'[Target(r)] # live[Target(r)] => Own(r)
<1>1. ASSUME IInv, Calm, [Next]_vars, NEW r \in Runs PROVE Kept(r)
  <2>1. ASSUME NEW q \in Runs, q # r, StepOf(q) PROVE Kept(r)
    BY <1>1, <2>1, OthersKeepOut
  <2>2. CASE StepOf(r)
    <3>1. ASSUME NEW l \in Lanes, Network(r, l) PROVE Own(r)
      BY <1>1, <3>1 DEF Network, WriteLands, WriteRejected, AtGitHub, IInv, TypeOK
    <3>2. CASE ~\E l \in Lanes : Network(r, l)
      BY <2>2, <3>2 DEF StepOf, Environment, Push, Request, Check, Deliver, Cancel, Loading,
         LoadFile, Loaded, LoadFails, Locking, Refuse, PhaseA, Running, PhaseB, Finish,
         LaneStep, ReadLive, LaneFails, LaneLosesWrite, Answered
    <3> QED
      BY <3>1, <3>2
  <2>3. CASE UNCHANGED vars
    BY <2>3 DEF vars
  <2>4. ~Crash
    BY DEF NobodyLeaves, Crash
  <2> QED
    BY <1>1, <2>1, <2>2, <2>3, <2>4 DEF Next, StepOf
<1>2. IInv /\ SerialInv /\ [Next]_vars =>
        [\A r \in Runs : Holding(r) /\ live'[Target(r)] # live[Target(r)] =>
            \E l \in Lanes : AtGitHub(r, l) /\ wire'[r][l] # wire[r][l]]_vars
  BY <1>1 DEF SerialInv
<1> QED
  BY <1>2, Invariance, SerialInvariance, PTL DEF Spec, WorkIsSerialized

(***************************************************************************)
(* A real apply that reports no failure leaves every managed and enabled   *)
(* lane of its selection as one run makes it of what GitHub had when the   *)
(* lock was taken: nothing was lost, overtaken or left half way.           *)
(***************************************************************************)
THEOREM SuccessIsApplied == ASSUME NobodyLeaves PROVE Spec => SuccessMeansApplied
<1> DEFINE AsMade(r, l) == live[Target(r)][l] =
                 IF began[r][l] = Desired(r, l) THEN Desired(r, l) ELSE Made(r, l, began[r][l])
           Applied(r) == \A l \in Configured(r) \ Disabled : AsMade(r, l)
<1>1. ASSUME IInv, SerialInv, [Next]_vars, NEW r \in Runs, Holding(r), Succeeded(r)'
      PROVE  Applied(r)
  <2>1. Finish(r)
    <3>1. pc[r] # "done" /\ pc'[r] = "done"
      BY <1>1 DEF Holding, Succeeded
    <3>2. ASSUME NEW q \in Runs, q # r PROVE ~StepOf(q)
      BY <1>1, <3>1, <3>2, OtherRuns DEF IInv
    <3>3. StepOf(r)
      BY <1>1, <3>1, <3>2 DEF Next, StepOf, NobodyLeaves, Crash, vars
    <3> QED
      BY <1>1, <3>1, <3>3 DEF IInv, TypeOK, Holding, StepOf, Environment, Push, Request,
          Check,
         Deliver, Cancel, Loading, LoadFile, Loaded, LoadFails, Locking, Refuse, PhaseA,
             Running,
         PhaseB, LaneStep, ReadLive, LaneFails, LaneLosesWrite, Answered, Network,
             WriteLands, WriteRejected, AtGitHub
  <2>2. UNCHANGED <<job, outcome, files>>
    BY <2>1 DEF Finish
  <2>3. ASSUME NEW l \in Configured(r) \ Disabled PROVE AsMade(r, l)
    <3>1. l \in Lanes /\ outcome[r][l] # "failed" /\ ~job[r].dry /\ ~Busy(r, l) /\ pc[r] = "phaseB"
      BY <1>1, <2>1, <2>2 DEF Configured, Succeeded, Finish
    <3>2. outcome[r][l] \in {"noop", "planned", "pending", "applied"}
      BY <1>1, <3>1 DEF IInv, TypeOK, Outcomes, RunInv, RunOK, OutcomeOK, Holding
    <3>3. EffectOK(r, l)
      BY <1>1, <3>1 DEF SerialInv, EffectInv
    <3> QED
      BY <3>1, <3>2, <3>3 DEF EffectOK
  <2> QED
    BY <2>3
<1>2. IInv /\ SerialInv /\ [Next]_vars =>
        [\A r \in Runs : Holding(r) /\ Succeeded(r)' => Applied(r)]_vars
  BY <1>1
<1> QED
  BY <1>2, Invariance, SerialInvariance, PTL DEF Spec, SuccessMeansApplied

-----------------------------------------------------------------------------
\* The refinement of SerialReconcile

\* A repository's name is spelled as the lock is keyed.
LEMMA RepoIsKey == ASSUME NEW k \in Repos PROVE k \in Names /\ Lower[k] = k
  BY ReconcileAssumption DEF Repos, ReconcileAssumption

\* Nothing shows while the lock table, the free repositories and what the
\* holders found are as they were.
LEMMA SameLive ==
    ASSUME lock' = lock,
           \A k \in Repos : IF lock[k] = NoRun THEN live'[k] = live[k]
                                               ELSE began'[lock[k]] = began[lock[k]]
    PROVE  SerialLive' = SerialLive
  BY DEF SerialLive

\* What run r asks for.
Asks(r) == [repo |-> Target(r), dry |-> job[r].dry, files |-> files[r],
            desired |-> [l \in Lanes |-> Desired(r, l)]]

\* It stays what it is while the job and the files do.
LEMMA SameAsks ==
    ASSUME NEW r, job'[r] = job[r], files'[r] = files[r]
    PROVE  Asks(r)' = Asks(r)
  BY DEF Asks, Target, Desired

\* A step that submits no run, finishes none and moves no lock is a stutter.
LEMMA Stutters ==
    ASSUME SerialLive' = SerialLive,
           \A r \in Runs : Submitted(r)' <=> Submitted(r),
           \A r \in Runs : Submitted(r) => job'[r] = job[r] /\ files'[r] = files[r],
           \A r \in Runs : pc'[r] = "done" <=> pc[r] = "done",
           \A r \in Runs : pc[r] = "done" => outcome'[r] = outcome[r]
    PROVE  UNCHANGED Serial!serialVars
<1>1. SerialRequest' = SerialRequest
  <2>1. \A r \in Runs : Submitted(r) => Asks(r)' = Asks(r)
    BY SameAsks
  <2> QED
    BY <2>1 DEF SerialRequest, Asks
<1>2. SerialOutcome' = SerialOutcome
  BY DEF SerialOutcome, Unreported
<1> QED
  BY <1>1, <1>2 DEF Serial!serialVars

\* The serial specification starts as the pipeline does.
LEMMA InitRefines == Init => Serial!SInit
<1> SUFFICES ASSUME Init PROVE Serial!SInit
  OBVIOUS
<1>1. SerialLive \in [Repos -> [Lanes -> Values]]
  BY RepoIsKey, ReconcileAssumption DEF Init, SerialLive, ReconcileAssumption
<1>2. SerialRequest = [r \in Runs |-> NoJob]
  BY DEF Init, SerialRequest, Submitted
<1>3. SerialOutcome = [r \in Runs |-> Serial!Unreported]
  BY DEF Init, SerialOutcome, Unreported, Serial!Unreported
<1> QED
  BY <1>1, <1>2, <1>3 DEF Serial!SInit

\* A run whose files are read asks for something the serial specification
\* knows.
LEMMA AsksType ==
    ASSUME IInv, NEW r \in Runs, pc[r] # "idle", \A l \in Lanes : files[r][l] # Unread
    PROVE  Asks(r) \in Serial!Request /\ Asks(r) # NoJob
<1>1. job[r] \in Jobs /\ Target(r) \in Repos
  BY TargetType DEF IInv
<1>2. files[r] \in Serial!Settings
  BY DEF IInv, TypeOK, FileValues, Serial!Settings
<1>3. [l \in Lanes |-> Desired(r, l)] \in Serial!Settings
  BY <1>2 DEF Desired, Serial!Settings
<1>4. Asks(r) \in Serial!Request
  BY <1>1, <1>2, <1>3 DEF Asks, Serial!Request, Jobs
<1> QED
  BY <1>4, NoJobAssumption

\* A submitted run has asked.
LEMMA RequestOf ==
    ASSUME IInv, NEW r \in Runs, Submitted(r)
    PROVE  SerialRequest[r] = Asks(r) /\ Asks(r) # NoJob
<1>1. pc[r] # "idle" /\ \A l \in Lanes : files[r][l] # Unread
  BY DEF Submitted, IInv, RunInv, RunOK, StageOK
<1> QED
  BY <1>1, AsksType DEF SerialRequest, Asks

\* Deliveries and loading do not show ...
LEMMA EarlyStutters ==
    ASSUME NobodyLeaves, IInv, NEW r \in Runs,
           Environment(r) \/ (\E l \in Lanes : LoadFile(r, l)) \/ LoadFails(r)
    PROVE  UNCHANGED Serial!serialVars
<1>1. /\ UNCHANGED <<live, lock, began, outcome>>
      /\ pc[r] \in {"idle", "loading"} /\ pc'[r] \in {"loading", "failed"}
  BY DEF NobodyLeaves, Environment, Push, Request, Check, Deliver, Cancel, LoadFile,
      LoadFails,
         IInv, TypeOK
<1>2. \A q \in Runs \ {r} : job'[q] = job[q] /\ pc'[q] = pc[q] /\ files'[q] = files[q]
  BY OtherRuns DEF IInv, StepOf, Loading
<1>3. SerialLive' = SerialLive
  BY <1>1, SameLive
<1> QED
  BY <1>1, <1>2, <1>3, Stutters DEF Submitted

\* ... until the files are read.
LEMMA LoadedRefines ==
    ASSUME IInv, NEW r \in Runs, Loaded(r) PROVE Serial!SSubmit(r)
<1>1. /\ UNCHANGED <<live, lock, began, outcome, job, files>>
      /\ pc[r] = "loading" /\ pc' = [pc EXCEPT ![r] = "waiting"]
  BY DEF Loaded
<1>2. pc \in [Runs -> Stages]
  BY DEF IInv, TypeOK
<1>3. SerialLive' = SerialLive /\ SerialOutcome' = SerialOutcome
  BY <1>1, <1>2, SameLive DEF SerialOutcome, Unreported
<1>4. SerialRequest[r] = NoJob
  BY <1>1 DEF SerialRequest, Submitted
<1>5. \A q \in Runs : Asks(q)' = Asks(q)
  BY <1>1, SameAsks
<1>6. SerialRequest' = [SerialRequest EXCEPT ![r] = Asks(r)]
  <2>1. SerialRequest = [q \in Runs |-> IF Submitted(q) THEN Asks(q) ELSE NoJob]
    BY DEF SerialRequest, Asks
  <2>2. SerialRequest' = [q \in Runs |-> IF Submitted(q)' THEN Asks(q)' ELSE NoJob]
    BY DEF SerialRequest, Asks
  <2>3. \A q \in Runs : Submitted(q)' <=> q = r \/ Submitted(q)
    BY <1>1, <1>2 DEF Submitted
  <2> QED
    BY <1>5, <2>1, <2>2, <2>3
<1>7. SerialRequest'[r] = Asks(r)
  BY <1>6 DEF SerialRequest
<1>8. Asks(r) \in Serial!Request
  BY <1>1, AsksType DEF Loaded
<1> QED
  BY <1>3, <1>4, <1>6, <1>7, <1>8 DEF Serial!SSubmit

\* A refused run changes nothing and reports what is forbidden.
LEMMA RefuseRefines ==
    ASSUME IInv, NEW r \in Runs, Refuse(r) PROVE Serial!SRefuse(r)
<1>1. /\ UNCHANGED <<live, lock, began, job, files>>
      /\ pc[r] = "waiting" /\ pc' = [pc EXCEPT ![r] = "done"]
      /\ Blocking(r) # {}
      /\ outcome' = [outcome EXCEPT ![r] = [l \in Lanes |->
            IF l \in Blocking(r) THEN "refused" ELSE outcome[r][l]]]
  BY DEF Refuse
<1>2. /\ pc \in [Runs -> Stages] /\ outcome \in [Runs -> [Lanes -> Outcomes]]
      /\ outcome[r] = Unreported
  BY <1>1 DEF IInv, TypeOK, RunInv, RunOK, StageOK
<1>3. SerialLive' = SerialLive
  BY <1>1, SameLive
<1>4. SerialRequest' = SerialRequest
  <2>1. \A q \in Runs : Asks(q)' = Asks(q) /\ (Submitted(q)' <=> Submitted(q))
    BY <1>1, <1>2, SameAsks DEF Submitted
  <2> QED
    BY <2>1 DEF SerialRequest, Asks
<1>5. SerialRequest[r] = Asks(r) /\ Asks(r) # NoJob /\ Asks(r).files = files[r]
  BY <1>1, RequestOf DEF Submitted, Asks
<1>6. SerialOutcome[r] = Serial!Unreported
  BY <1>1 DEF SerialOutcome, Unreported, Serial!Unreported
<1>7. SerialOutcome' = [SerialOutcome EXCEPT ![r] =
          [l \in Lanes |-> IF files[r][l] \in Forbidden THEN "refused" ELSE "none"]]
  <2>1. outcome'[r] = [l \in Lanes |-> IF files[r][l] \in Forbidden THEN "refused" ELSE "none"]
    BY <1>1, <1>2 DEF Blocking, Unreported
  <2> QED
    BY <1>1, <1>2, <2>1 DEF SerialOutcome, Unreported
<1>8. Serial!Refused(SerialRequest[r])
  BY <1>1, <1>5 DEF Blocking, Serial!Refused
<1> QED
  BY <1>3, <1>4, <1>5, <1>6, <1>7, <1>8 DEF Serial!SRefuse

\* Taking the lock and starting lanes do not show: GitHub has what the run
\* found, to those who look from outside.
LEMMA PhasesStutter ==
    ASSUME IInv, NEW r \in Runs, PhaseA(r) \/ PhaseB(r) PROVE UNCHANGED Serial!serialVars
<1>1. /\ UNCHANGED <<live, job, files>>
      /\ pc[r] \in {"waiting", "phaseA"} /\ pc'[r] \in {"phaseA", "phaseB"}
  BY DEF PhaseA, PhaseB, IInv, TypeOK
<1>2. \A q \in Runs \ {r} : pc'[q] = pc[q] /\ outcome'[q] = outcome[q]
  BY OtherRuns DEF IInv, StepOf, Locking, Running
<1>3. SerialLive' = SerialLive
  <2>1. CASE PhaseA(r)
    <3>1. Target(r) \in Names /\ Target(r) \in Repos
      BY <1>1, TargetType DEF IInv
    <3>2. /\ lock' = [lock EXCEPT ![Target(r)] = r] /\ lock[Target(r)] = NoRun
          /\ began' = [began EXCEPT ![r] = live[Target(r)]]
      BY <2>1 DEF PhaseA, LockKey, Target
    <3>3. lock \in [Names -> Runs \union {NoRun}] /\ began \in [Runs -> [Lanes -> FileValues]]
      BY DEF IInv, TypeOK
    <3>4. \A k \in Repos : k \in Names /\ lock[k] # r
      BY <2>1, RepoIsKey DEF IInv, LockInv, Holding, PhaseA
    <3>5. ASSUME NEW k \in Repos
          PROVE  (IF lock'[k] = NoRun THEN live'[k] ELSE began'[lock'[k]])
               = (IF lock[k] = NoRun THEN live[k] ELSE began[lock[k]])
      <4>1. CASE k = Target(r)
        BY <1>1, <3>1, <3>2, <3>3, <4>1, ReconcileAssumption DEF ReconcileAssumption
      <4>2. CASE k # Target(r)
        BY <1>1, <3>1, <3>2, <3>3, <3>4, <4>2
      <4> QED
        BY <4>1, <4>2
    <3> QED
      BY <3>5 DEF SerialLive
  <2>2. CASE PhaseB(r)
    BY <2>2, SameLive DEF PhaseB
  <2> QED
    BY <2>1, <2>2
<1> QED
  BY <1>1, <1>2, <1>3, Stutters DEF Submitted

\* What lanes do under the lock does not show.
LEMMA LanesStutter ==
    ASSUME IInv, Calm, NEW r \in Runs, NEW l \in Lanes, LaneStep(r, l) \/ Network(r, l)
    PROVE  UNCHANGED Serial!serialVars
<1>1. UNCHANGED <<job, files, pc, lock, began>>
  BY DEF LaneStep, ReadLive, LaneFails, LaneLosesWrite, Answered, Network, WriteLands,
      WriteRejected, AtGitHub
<1>2. Holding(r)
  <2>1. CASE LaneStep(r, l)
    BY <2>1, BusyLane
       DEF LaneStep, ReadLive, LaneFails, LaneLosesWrite, Answered, Busy, IInv, RunInv
  <2>2. CASE Network(r, l)
    BY <2>2, FlyingIsOwned DEF Network, WriteLands, WriteRejected, AtGitHub
  <2> QED
    BY <2>1, <2>2
<1>3. \A q \in Runs : pc[q] = "done" => outcome'[q] = outcome[q]
  BY <1>2, OtherRuns DEF Holding, IInv, StepOf
<1>4. SerialLive' = SerialLive
  <2>1. Target(r) \in Repos /\ lock[Target(r)] = r
    BY <1>2, TargetType DEF IInv, LockInv, Holding
  <2>2. live' = live \/ \E v : live' = [live EXCEPT ![Target(r)][l] = v]
    BY DEF LaneStep, ReadLive, LaneFails, LaneLosesWrite, Answered, Network, WriteLands,
        WriteRejected, AtGitHub
  <2>3. \A k \in Repos : k # Target(r) => live'[k] = live[k]
    BY <2>1, <2>2 DEF IInv, TypeOK
  <2> QED
    BY <1>1, <2>1, <2>3, SameLive, ReconcileAssumption DEF ReconcileAssumption
<1> QED
  BY <1>1, <1>3, <1>4, Stutters DEF Submitted

\* What a finished run has to say of a lane, and what it leaves there.
LEMMA LaneVerdict ==
    ASSUME IInv, SerialInv, NEW r \in Runs, Finish(r), NEW l \in Lanes
    PROVE  /\ outcome[r][l] \in Serial!LaneOutcomes(Asks(r), began[r], l)
           /\ Serial!LaneAfter(Asks(r), began[r], l, outcome[r][l], live[Target(r)][l])
<1>1. pc[r] = "phaseB" /\ Holding(r) /\ ~Busy(r, l)
  BY DEF Finish, Holding
<1>2. EffectOK(r, l)
  BY <1>1 DEF SerialInv, EffectInv
<1>3. LaneOK(r, l) /\ OutcomeOK(r, l)
  BY DEF IInv, RunInv, RunOK
<1>4. Asks(r).desired[l] = Desired(r, l) /\ Asks(r).dry = job[r].dry
  BY DEF Asks
<1>5. /\ lane[r][l] \in LaneStates /\ wire[r][l] \in WireStates /\ outcome[r][l] \in Outcomes
      /\ job[r].dry \in BOOLEAN
  BY <1>1, TargetType DEF IInv, TypeOK, Jobs
<1>6. outcome[r][l] = "none" <=> Desired(r, l) = Unmanaged
  BY <1>1, <1>3 DEF OutcomeOK, Configured
<1>7. wire[r][l] # "none" => Desired(r, l) # Unmanaged /\ l \notin Disabled /\ ~job[r].dry
  BY <1>3, <1>5 DEF LaneOK, Configured, LaneStates
<1>8. CASE Desired(r, l) = Unmanaged \/ l \in Disabled
  <2>1. outcome[r][l] = IF Desired(r, l) = Unmanaged THEN "none" ELSE "skipped"
    BY <1>1, <1>3, <1>6, <1>8 DEF OutcomeOK
  <2>2. live[Target(r)][l] = began[r][l]
    BY <1>2, <1>7, <1>8 DEF EffectOK
  <2> QED
    BY <1>4, <1>8, <2>1, <2>2 DEF Serial!LaneOutcomes, Serial!LaneAfter
<1>9. CASE Desired(r, l) # Unmanaged /\ l \notin Disabled
  <2>1. outcome[r][l] \in {"noop", "planned", "pending", "applied", "failed"}
    BY <1>1, <1>3, <1>5, <1>6, <1>9 DEF OutcomeOK, Outcomes
  <2>2. outcome[r][l] \in IF began[r][l] = Desired(r, l) THEN {"noop", "failed"}
                          ELSE IF job[r].dry THEN {"planned", "failed"}
                          ELSE {"applied", "failed"} \union
                               (IF Made(r, l, began[r][l]) = began[r][l] THEN {"pending"} ELSE {})
    BY <1>2, <1>5, <1>7, <2>1 DEF EffectOK
  <2>3. \/ outcome[r][l] = "applied" /\ live[Target(r)][l] = Made(r, l, began[r][l])
        \/ outcome[r][l] = "failed" /\ ~job[r].dry
        \/ /\ outcome[r][l] # "applied" /\ ~(outcome[r][l] = "failed" /\ ~job[r].dry)
           /\ live[Target(r)][l] = began[r][l]
    BY <1>2, <1>5, <1>7, <2>1 DEF EffectOK
  <2>4. outcome[r][l] \in Serial!LaneOutcomes(Asks(r), began[r], l)
    BY <1>4, <1>9, <2>2 DEF Serial!LaneOutcomes, Made
  <2>5. Serial!LaneAfter(Asks(r), began[r], l, outcome[r][l], live[Target(r)][l])
    BY <1>4, <1>9, <2>3 DEF Serial!LaneAfter, Made
  <2> QED
    BY <2>4, <2>5
<1> QED
  BY <1>8, <1>9

\* A finished run is the one step of the serial specification.
LEMMA FinishRefines ==
    ASSUME IInv, SerialInv, NEW r \in Runs, Finish(r) PROVE Serial!SReconcile(r)
<1>1. /\ UNCHANGED <<live, began, job, files, outcome>>
      /\ pc[r] = "phaseB" /\ pc' = [pc EXCEPT ![r] = "done"]
      /\ lock' = [lock EXCEPT ![Target(r)] = NoRun]
  BY DEF Finish, Release, LockKey, Target
<1>2. /\ pc \in [Runs -> Stages] /\ outcome \in [Runs -> [Lanes -> Outcomes]]
      /\ lock \in [Names -> Runs \union {NoRun}] /\ live \in [Repos -> [Lanes -> Values]]
  BY DEF IInv, TypeOK
<1>3. Target(r) \in Repos /\ Target(r) \in Names /\ lock[Target(r)] = r
  BY <1>1, TargetType DEF IInv, LockInv, Holding
<1>4. SerialRequest[r] = Asks(r) /\ Asks(r) # NoJob
      /\ Asks(r).files = files[r] /\ Asks(r).repo = Target(r)
  BY <1>1, RequestOf DEF Submitted, Asks
<1>5. SerialOutcome[r] = Serial!Unreported
  BY <1>1 DEF SerialOutcome, Unreported, Serial!Unreported
<1>6. ~Serial!Refused(SerialRequest[r])
  BY <1>1, <1>4 DEF IInv, RunInv, RunOK, StageOK, Holding, Blocking, Serial!Refused
<1>7. SerialRequest' = SerialRequest
  <2>1. \A q \in Runs : Asks(q)' = Asks(q) /\ (Submitted(q)' <=> Submitted(q))
    BY <1>1, <1>2, SameAsks DEF Submitted
  <2> QED
    BY <2>1 DEF SerialRequest, Asks
<1>8. SerialOutcome' = [SerialOutcome EXCEPT ![r] = outcome[r]]
  BY <1>1, <1>2 DEF SerialOutcome
<1>9. SerialOutcome'[r] = outcome[r]
  BY <1>8 DEF SerialOutcome
<1>10. SerialLive[Target(r)] = began[r]
  BY <1>3, ReconcileAssumption DEF SerialLive, ReconcileAssumption
<1>11. SerialLive' = [SerialLive EXCEPT ![Target(r)] = live[Target(r)]]
  <2>1. \A k \in Repos : k \in Names
    BY RepoIsKey
  <2>2. \A k \in Repos : lock'[k] = IF k = Target(r) THEN NoRun ELSE lock[k]
    BY <1>1, <1>2, <2>1
  <2>3. SerialLive = [k \in Repos |-> IF lock[k] = NoRun THEN live[k] ELSE began[lock[k]]]
    BY DEF SerialLive
  <2>4. SerialLive' = [k \in Repos |-> IF lock'[k] = NoRun THEN live[k] ELSE began[lock'[k]]]
    BY <1>1 DEF SerialLive
  <2> QED
    BY <2>2, <2>3, <2>4
<1>12. SerialLive'[Target(r)] = live[Target(r)]
  BY <1>3, <1>11 DEF SerialLive
<1>13. outcome[r] \in [Lanes -> Serial!Outcomes]
  BY <1>2 DEF Outcomes, Serial!Outcomes
<1> QED
  BY <1>2, <1>3, <1>4, <1>5, <1>6, <1>7, <1>8, <1>9, <1>10, <1>11, <1>12, <1>13, LaneVerdict
     DEF Serial!SReconcile

\* Every step of the pipeline is a step of the serial specification or a
\* stutter.
LEMMA NextRefines ==
    ASSUME NobodyLeaves, IInv, SerialInv, [Next]_vars
    PROVE  [Serial!SNext]_(Serial!serialVars)
<1>1. ASSUME NEW r \in Runs, StepOf(r) PROVE [Serial!SNext]_(Serial!serialVars)
  <2>1. CASE Environment(r) \/ Loading(r)
    BY <2>1, EarlyStutters, LoadedRefines DEF Loading, Serial!SNext
  <2>2. CASE Locking(r)
    BY <2>2, PhasesStutter, RefuseRefines DEF Locking, Serial!SNext
  <2>3. CASE Running(r)
    BY <2>3, PhasesStutter, FinishRefines DEF Running, Serial!SNext
  <2>4. ASSUME NEW l \in Lanes, LaneStep(r, l) \/ Network(r, l)
        PROVE  UNCHANGED Serial!serialVars
    BY <2>4, LanesStutter DEF SerialInv
  <2> QED
    BY <1>1, <2>1, <2>2, <2>3, <2>4 DEF StepOf
<1>2. CASE UNCHANGED vars
  BY <1>2 DEF vars, Serial!serialVars, SerialLive, SerialRequest, SerialOutcome, Submitted,
              Target, Desired
<1>3. ~Crash
  BY DEF NobodyLeaves, Crash
<1> QED
  BY <1>1, <1>2, <1>3 DEF Next, StepOf

(***************************************************************************)
(* While nobody leaves, a reconcile is ONE step: whatever the interleaving *)
(* of deliveries, goroutines and GitHub, what is reported and what is on   *)
(* GitHub is as if each run had had the repository to itself.              *)
(***************************************************************************)
THEOREM Serializable == ASSUME NobodyLeaves PROVE Spec => IsSerial
<1>1. IInv /\ SerialInv /\ [Next]_vars => [Serial!SNext]_(Serial!serialVars)
  BY NextRefines
<1> QED
  BY <1>1, InitRefines, Invariance, SerialInvariance, PTL DEF Spec, IsSerial, Serial!SSpec
=============================================================================
