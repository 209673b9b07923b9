--------------------------- MODULE OrgLayerProofs ---------------------------
(***************************************************************************)
(* Safety of OrgLayer for every set of runs, every history of the admin    *)
(* repository and of the repositories, and every TTL.                      *)
(***************************************************************************)
EXTENDS OrgLayer, WellFoundedInduction, TLAPS

EntryType == [fetched : Nat, state : Stages, settings : Nat, policy : Nat,
              suborgs : Nat, policyAt : Nat]

Places == {"idle", "alone", "waiting", "loading", "refused", "applied"}

Types ==
    /\ now \in Nat /\ access \in BOOLEAN
    /\ org \in 1..Len(OrgVersions)
    /\ since \in Seq(Nat) /\ Len(since) = org
    /\ entries \in Seq(EntryType) /\ cached \in 0..Len(entries)
    /\ pc \in [Runs -> Places] /\ asked \in [Runs -> Nat]
    /\ entryOf \in [Runs -> Nat]
    /\ DOMAIN mine = Runs /\ DOMAIN basis = Runs

\* What a run has behind it where it is.
RunInv ==
    \A r \in Runs :
        /\ asked[r] <= now /\ entryOf[r] <= Len(entries)
        /\ pc[r] = "idle" => entryOf[r] = 0
        /\ pc[r] \in {"waiting", "loading"} => entryOf[r] # 0
        /\ entryOf[r] # 0 => entries[entryOf[r]].fetched + TTL >= asked[r]

\* Nothing lies in an entry from the future, and its policy was read after
\* the entry was made.
ClockInv ==
    \A i \in DOMAIN entries :
        /\ entries[i].fetched <= now /\ entries[i].policyAt <= now
        /\ {entries[i].settings, entries[i].policy, entries[i].suborgs} \subseteq 0..org
        /\ entries[i].state \in {"suborgs", "done"} => entries[i].policyAt >= entries[i].fetched

\* The cached entry is the newest and has not failed; where none is cached the
\* newest has.
CacheInv ==
    /\ cached # 0 => cached = Len(entries) /\ entries[cached].state # "failed"
    /\ cached = 0 /\ Len(entries) # 0 => entries[Len(entries)].state = "failed"

IInv == Types /\ RunInv /\ ClockInv /\ CacheInv /\ OneLoadPerTTL

-----------------------------------------------------------------------------
\* The steps of a load change one entry, keep when it was made, and never
\* bring a failed one back.

Rewrites(r, next) ==
    /\ entryOf[r] \in DOMAIN entries /\ next \in EntryType
    /\ entries' = [entries EXCEPT ![entryOf[r]] = next]
    /\ next.fetched = entries[entryOf[r]].fetched
    /\ entries[entryOf[r]].state \notin {"failed", "done"}

\* A read of a load rewrites the entry it is for, and no other.
LEMMA LoadsRewrites ==
    ASSUME Types, RunInv, NEW r \in Runs, NEW state \in Stages \ {"failed", "done"},
           NEW next \in EntryType, Loads(r, state, next),
           next.fetched = entries[entryOf[r]].fetched
    PROVE  Rewrites(r, next)
<1>1. entryOf[r] \in DOMAIN entries
  BY DEF Loads, RunInv, Types
<1> QED
  BY <1>1 DEF Rewrites, Loads, Types

\* The version read is one that was pushed.
LEMMA HeadType == Types => AdminHead \in 0..org /\ org \in Nat
BY OrgLayerAssumption DEF Types, AdminHead

-----------------------------------------------------------------------------
\* The invariant holds at the start, and every step keeps it.

\* The cache is empty at the start.
LEMMA InitInv == Init => IInv
<1> SUFFICES ASSUME Init PROVE IInv
  OBVIOUS
<1>1. Types
  BY OrgLayerAssumption DEF Init, Types, Places
<1> QED
  BY <1>1, OrgLayerAssumption
     DEF IInv, Init, RunInv, ClockInv, CacheInv, OneLoadPerTTL, Types


\* A load's step, a failed one included, keeps the invariant.
LEMMA RewriteInv ==
    ASSUME IInv, NEW r \in Runs, NEW next, Rewrites(r, next),
           next.policyAt <= now,
           {next.settings, next.policy, next.suborgs} \subseteq 0..org,
           next.state \in {"suborgs", "done"} => next.policyAt >= next.fetched,
           cached' = IF next.state = "failed" /\ cached = entryOf[r] THEN 0 ELSE cached,
           pc' \in [Runs -> Places],
           \A q \in Runs : /\ pc'[q] = "idle" => pc[q] = "idle"
                           /\ pc'[q] \in {"waiting", "loading"} =>
                                 pc[q] \in {"waiting", "loading"},
           UNCHANGED <<now, org, access, since, entryOf, asked, mine, basis>>
    PROVE  IInv'
<1> USE DEF IInv
<1>1. /\ entryOf[r] \in DOMAIN entries /\ DOMAIN entries' = DOMAIN entries
      /\ DOMAIN entries = 1..Len(entries) /\ Len(entries') = Len(entries)
      /\ entries' \in Seq(EntryType)
      /\ \A i \in DOMAIN entries :
            entries'[i] = IF i = entryOf[r] THEN next ELSE entries[i]
  BY DEF Rewrites, Types
<1>2. \A i \in DOMAIN entries : /\ entries'[i].fetched = entries[i].fetched
                                /\ entries[i].state = "failed" => entries'[i].state = "failed"
  BY <1>1 DEF Rewrites
<1>3. Types'
  BY <1>1 DEF Types
<1>4. RunInv'
  BY <1>1, <1>2 DEF RunInv, Types
<1>5. ClockInv'
  BY <1>1, <1>2 DEF ClockInv, Types, Rewrites
<1>6. CacheInv'
  <2>1. /\ Len(entries) \in Nat /\ cached \in 0..Len(entries)
        /\ entryOf[r] \in 1..Len(entries) /\ entries[entryOf[r]].state # "failed"
    BY <1>1 DEF Types, Rewrites
  <2>2. CASE next.state = "failed" /\ cached = entryOf[r]
    BY <2>1, <2>2, <1>1 DEF CacheInv
  <2>3. CASE ~(next.state = "failed" /\ cached = entryOf[r])
    <3>1. cached' = cached
      BY <2>3
    <3>2. CASE cached = 0
      BY <3>1, <3>2, <2>1, <1>1 DEF CacheInv
    <3>3. CASE cached # 0
      BY <3>1, <3>3, <2>1, <2>3, <1>1 DEF CacheInv
    <3> QED
      BY <3>2, <3>3
  <2> QED
    BY <2>2, <2>3
<1>7. OneLoadPerTTL'
  BY <1>1, <1>2 DEF OneLoadPerTTL
<1> QED
  BY <1>3, <1>4, <1>5, <1>6, <1>7

\* A new entry, made only when the newest has failed or is older than TTL.
LEMMA LookupInv ==
    ASSUME IInv, NEW r \in Runs, Lookup(r), asked' = [asked EXCEPT ![r] = now],
           pc' = [pc EXCEPT ![r] = "waiting"], DOMAIN mine' = Runs,
           UNCHANGED <<now, org, access, since, basis>>
    PROVE  IInv'
<1> USE DEF IInv
<1>1. /\ TTL \in Nat /\ now \in Nat /\ DOMAIN entries = 1..Len(entries) /\ Len(entries) \in Nat
      /\ \A i \in DOMAIN entries : entries[i].fetched \in Nat /\ entries[i].fetched <= now
  <2>1. \A i \in DOMAIN entries : entries[i] \in EntryType
    BY DEF Types
  <2> QED
    BY <2>1, OrgLayerAssumption DEF Types, EntryType, ClockInv
<1>2. CASE cached = 0 \/ Expired
  <2>1. /\ entries' = Append(entries, NewEntry) /\ cached' = Len(entries')
        /\ entryOf' = [entryOf EXCEPT ![r] = cached']
    BY <1>2 DEF Lookup
  <2>2. NewEntry \in EntryType
    BY <1>1 DEF NewEntry, EntryType, Stages
  <2>3. /\ entries' \in Seq(EntryType) /\ Len(entries') = Len(entries) + 1
        /\ entries'[Len(entries) + 1] = NewEntry
        /\ DOMAIN entries' = 1..(Len(entries) + 1)
        /\ \A i \in 1..Len(entries) : entries'[i] = entries[i]
    BY <2>1, <2>2 DEF Types
  <2>4. Types'
    BY <2>1, <2>3 DEF Types, Places
  <2>5. RunInv'
    <3> SUFFICES ASSUME NEW q \in Runs
                 PROVE  /\ asked'[q] <= now' /\ entryOf'[q] <= Len(entries')
                        /\ pc'[q] = "idle" => entryOf'[q] = 0
                        /\ pc'[q] \in {"waiting", "loading"} => entryOf'[q] # 0
                        /\ entryOf'[q] # 0 =>
                              entries'[entryOf'[q]].fetched + TTL >= asked'[q]
      BY DEF RunInv
    <3>1. CASE q = r
      BY <3>1, <1>1, <2>1, <2>3 DEF Types, NewEntry
    <3>2. CASE q # r
      BY <3>2, <1>1, <2>1, <2>3 DEF Types, RunInv
    <3> QED
      BY <3>1, <3>2
  <2>6. ClockInv'
    BY <1>1, <2>1, <2>3 DEF ClockInv, Types, NewEntry
  <2>7. CacheInv'
    BY <1>1, <2>1, <2>3 DEF CacheInv, NewEntry
  <2>8. ASSUME NEW i \in 1..Len(entries)
        PROVE  entries[i].state = "failed" \/ now - entries[i].fetched > TTL
    <3>1. \/ entries[Len(entries)].state = "failed"
          \/ now - entries[Len(entries)].fetched > TTL
      BY <1>1, <1>2 DEF CacheInv, Expired
    <3>2. CASE i = Len(entries)
      BY <3>1, <3>2
    <3>3. CASE i < Len(entries)
      <4>1. \/ entries[i].state = "failed"
            \/ entries[Len(entries)].fetched - entries[i].fetched > TTL
        BY <1>1, <3>3 DEF OneLoadPerTTL
      <4>2. entries[Len(entries)].fetched \in Nat /\ entries[Len(entries)].fetched <= now
        BY <1>1
      <4> QED
        BY <4>1, <4>2, <1>1
    <3>4. i = Len(entries) \/ i < Len(entries)
      <4> HIDE DEF IInv
      <4>1. Len(entries) \in Nat /\ i \in 1..Len(entries)
        BY <1>1
      <4> QED
        BY <4>1
    <3> QED
      BY <3>2, <3>3, <3>4
  <2>9. OneLoadPerTTL'
    <3> SUFFICES ASSUME NEW i \in 1..(Len(entries) + 1), NEW j \in 1..(Len(entries) + 1), i < j
                 PROVE  \/ entries'[i].state = "failed"
                        \/ entries'[j].fetched - entries'[i].fetched > TTL
      BY <2>3 DEF OneLoadPerTTL
    <3>1. CASE j = Len(entries) + 1
      BY <3>1, <2>8, <2>3, <1>1 DEF NewEntry
    <3>2. CASE j # Len(entries) + 1
      BY <3>2, <2>3, <1>1 DEF OneLoadPerTTL
    <3> QED
      BY <3>1, <3>2
  <2> QED
    BY <2>4, <2>5, <2>6, <2>7, <2>9
<1>3. CASE ~(cached = 0 \/ Expired)
  <2>1. UNCHANGED cache /\ entryOf' = [entryOf EXCEPT ![r] = cached]
    BY <1>3 DEF Lookup, cache
  <2>2. /\ cached \in 1..Len(entries)
        /\ entries[cached].fetched + TTL >= now
    <3>1. cached \in 1..Len(entries) /\ ~(now - entries[cached].fetched > TTL)
      BY <1>3 DEF Expired, Types
    <3>2. entries[cached].fetched \in Nat
      BY <3>1, <1>1
    <3> QED
      BY <3>1, <3>2, <1>1
  <2>3. Types'
    BY <2>1, <2>2 DEF Types, Places, cache
  <2>4. RunInv'
    <3> SUFFICES ASSUME NEW q \in Runs
                 PROVE  /\ asked'[q] <= now' /\ entryOf'[q] <= Len(entries')
                        /\ pc'[q] = "idle" => entryOf'[q] = 0
                        /\ pc'[q] \in {"waiting", "loading"} => entryOf'[q] # 0
                        /\ entryOf'[q] # 0 =>
                              entries'[entryOf'[q]].fetched + TTL >= asked'[q]
      BY DEF RunInv
    <3>1. CASE q = r
      BY <3>1, <1>1, <2>1, <2>2 DEF Types, cache
    <3>2. CASE q # r
      BY <3>2, <1>1, <2>1 DEF Types, RunInv, cache
    <3> QED
      BY <3>1, <3>2
  <2>5. ClockInv' /\ CacheInv' /\ OneLoadPerTTL'
    BY <2>1 DEF ClockInv, CacheInv, OneLoadPerTTL, cache
  <2> QED
    BY <2>3, <2>4, <2>5
<1> QED
  BY <1>2, <1>3

\* A run that starts finds an entry or adds one.
LEMMA StartInv == ASSUME IInv, NEW r \in Runs, Start(r) PROVE IInv'
<1> USE DEF IInv
<1>1. DOMAIN mine' = Runs
  BY DEF Start, Types
<1>2. CASE pc' = [pc EXCEPT ![r] = "waiting"] /\ Lookup(r)
  BY <1>1, <1>2, LookupInv DEF Start
<1>3. CASE /\ pc' = [pc EXCEPT ![r] = "refused"] \/ pc' = [pc EXCEPT ![r] = "alone"]
           /\ UNCHANGED <<cache, entryOf>>
  <2>1. Types'
    BY <1>1, <1>3 DEF Start, Types, Places, cache
  <2>2. entryOf[r] = 0
    BY DEF Start, RunInv
  <2>3. RunInv'
    BY <1>3, <2>2 DEF Start, RunInv, Types, cache
  <2>4. ClockInv' /\ CacheInv' /\ OneLoadPerTTL'
    BY <1>3 DEF Start, ClockInv, CacheInv, OneLoadPerTTL, cache
  <2> QED
    BY <2>1, <2>3, <2>4
<1> QED
  BY <1>2, <1>3 DEF Start

\* A run that begins a load stamps its own entry.
LEMMA BeginInv == ASSUME IInv, NEW r \in Runs, Begin(r) PROVE IInv'
<1>1. entryOf[r] \in DOMAIN entries /\ entries[entryOf[r]] \in EntryType
  BY DEF Begin, IInv, RunInv, Types
<1> DEFINE next == [entries[entryOf[r]] EXCEPT !.state = "check"]
<1>2. /\ next \in EntryType /\ next.state = "check" /\ next.policyAt = entries[entryOf[r]].policyAt
      /\ next.fetched = entries[entryOf[r]].fetched
      /\ next.settings = entries[entryOf[r]].settings
      /\ next.policy = entries[entryOf[r]].policy /\ next.suborgs = entries[entryOf[r]].suborgs
  BY <1>1 DEF EntryType, Stages
<1>3. Rewrites(r, next)
  BY <1>1, <1>2 DEF Begin, Rewrites
<1>4. /\ next.policyAt <= now /\ {next.settings, next.policy, next.suborgs} \subseteq 0..org
  BY <1>1, <1>2 DEF IInv, ClockInv
<1>5. /\ pc' \in [Runs -> Places]
      /\ \A q \in Runs : /\ pc'[q] = "idle" => pc[q] = "idle"
                         /\ pc'[q] \in {"waiting", "loading"} =>
                               pc[q] \in {"waiting", "loading"}
  BY DEF Begin, IInv, Types, Places
<1> HIDE DEF next
<1> QED
  BY <1>2, <1>3, <1>4, <1>5, RewriteInv DEF Begin

\* The reads of a load.
LEMMA LoadsInv ==
    ASSUME IInv, NEW r \in Runs, CheckRepository(r) \/ ReadSettings(r)
                                 \/ ReadPolicy(r) \/ ReadSuborgs(r)
    PROVE  IInv'
<1>1. /\ entryOf[r] \in DOMAIN entries /\ entries[entryOf[r]] \in EntryType
      /\ entries[entryOf[r]].fetched <= now /\ entries[entryOf[r]].policyAt <= now
      /\ {entries[entryOf[r]].settings, entries[entryOf[r]].policy,
          entries[entryOf[r]].suborgs} \subseteq 0..org
      /\ entries[entryOf[r]].state \in {"suborgs", "done"} =>
            entries[entryOf[r]].policyAt >= entries[entryOf[r]].fetched
  BY DEF CheckRepository, ReadSettings, ReadPolicy, ReadSuborgs, Loads, IInv, RunInv,
         ClockInv, Types
<1>2. AdminHead \in 0..org /\ org \in Nat /\ now \in Nat
  BY HeadType DEF IInv, Types
<1>8. entries[entryOf[r]] \in EntryType /\ AdminHead \in Nat /\ now \in Nat
  BY <1>1, <1>2
<1> DEFINE fits(next) ==
             /\ next \in EntryType /\ next.fetched = entries[entryOf[r]].fetched
             /\ next.policyAt <= now /\ next.state # "failed"
             /\ {next.settings, next.policy, next.suborgs} \subseteq 0..org
             /\ next.state \in {"suborgs", "done"} => next.policyAt >= next.fetched
<1>3. ASSUME NEW state \in Stages \ {"failed", "done"}, NEW next, Loads(r, state, next), fits(next)
      PROVE  IInv'
  <2>1. Rewrites(r, next)
    BY <1>3, LoadsRewrites DEF IInv
  <2>2. UNCHANGED <<now, org, access, since, cached, runs, faults>>
    BY <1>3 DEF Loads
  <2>3. /\ pc' \in [Runs -> Places] /\ pc' = pc
        /\ UNCHANGED <<now, org, access, since, entryOf, asked, mine, basis>>
    BY <2>2 DEF runs, IInv, Types
  <2> QED
    BY <1>3, <2>1, <2>2, <2>3, RewriteInv
<1>4. CASE CheckRepository(r)
  <2> DEFINE next == [entries[entryOf[r]] EXCEPT !.state = "settings"]
  <2>1. fits(next)
    BY <1>1 DEF EntryType, Stages
  <2>2. Loads(r, "check", next)
    BY <1>4 DEF CheckRepository
  <2> QED
    BY <2>1, <2>2, <1>3 DEF Stages
<1>5. CASE ReadSettings(r)
  <2> DEFINE next == [entries[entryOf[r]] EXCEPT !.state = "policy", !.settings = AdminHead]
  <2>3. /\ next \in EntryType /\ next.state = "policy"
        /\ next.fetched = entries[entryOf[r]].fetched /\ next.settings = AdminHead
        /\ next.policy = entries[entryOf[r]].policy
        /\ next.suborgs = entries[entryOf[r]].suborgs
        /\ next.policyAt = entries[entryOf[r]].policyAt
    BY <1>8 DEF EntryType, Stages
  <2>1. fits(next)
    BY <1>1, <1>2, <2>3
  <2>2. Loads(r, "settings", next)
    BY <1>5 DEF ReadSettings
  <2> QED
    BY <2>1, <2>2, <1>3 DEF Stages
<1>6. CASE ReadPolicy(r)
  <2> DEFINE next == [entries[entryOf[r]] EXCEPT !.state = "suborgs", !.policy = AdminHead,
                                                 !.policyAt = now]
  <2>3. /\ next \in EntryType /\ next.state = "suborgs"
        /\ next.fetched = entries[entryOf[r]].fetched /\ next.policy = AdminHead
        /\ next.settings = entries[entryOf[r]].settings
        /\ next.suborgs = entries[entryOf[r]].suborgs
        /\ next.policyAt = now
    BY <1>8 DEF EntryType, Stages
  <2>1. fits(next)
    BY <1>1, <1>2, <2>3
  <2>2. Loads(r, "policy", next)
    BY <1>6 DEF ReadPolicy
  <2> QED
    BY <2>1, <2>2, <1>3 DEF Stages
<1>7. CASE ReadSuborgs(r)
  <2> DEFINE next == [entries[entryOf[r]] EXCEPT !.state = "done", !.suborgs = AdminHead]
  <2>1. Loads(r, "suborgs", next) /\ entries[entryOf[r]].state = "suborgs"
    BY <1>7 DEF ReadSuborgs, Loads
  <2>3. /\ next \in EntryType /\ next.state = "done"
        /\ next.fetched = entries[entryOf[r]].fetched /\ next.suborgs = AdminHead
        /\ next.settings = entries[entryOf[r]].settings
        /\ next.policy = entries[entryOf[r]].policy
        /\ next.policyAt = entries[entryOf[r]].policyAt
    BY <1>8 DEF EntryType, Stages
  <2>2. fits(next)
    BY <1>1, <1>2, <2>1, <2>3
  <2> QED
    BY <2>1, <2>2, <1>3 DEF Stages
<1> QED
  BY <1>4, <1>5, <1>6, <1>7

\* A load that fails takes its entry out.
LEMMA LoadFailsInv == ASSUME IInv, NEW r \in Runs, LoadFails(r) PROVE IInv'
<1>1. /\ entryOf[r] \in DOMAIN entries /\ entries[entryOf[r]] \in EntryType
      /\ entries[entryOf[r]].state \notin {"failed", "done"}
  BY DEF LoadFails, IInv, RunInv, Types
<1> DEFINE next == [NewEntry EXCEPT !.fetched = entries[entryOf[r]].fetched, !.state = "failed"]
<1>2. /\ next \in EntryType /\ next.state = "failed" /\ next.policyAt = 0
      /\ next.fetched = entries[entryOf[r]].fetched
      /\ next.settings = 0 /\ next.policy = 0 /\ next.suborgs = 0
  BY <1>1 DEF EntryType, Stages, NewEntry
<1>3. /\ Rewrites(r, next) /\ cached' = IF cached = entryOf[r] THEN 0 ELSE cached
  BY <1>1, <1>2 DEF LoadFails, Drop, Rewrites
<1>4. org \in Nat /\ now \in Nat
  BY HeadType DEF IInv, Types
<1>5. /\ pc' \in [Runs -> Places] /\ pc' = pc
      /\ UNCHANGED <<now, org, access, since, entryOf, asked, mine, basis>>
  BY DEF LoadFails, runs, IInv, Types
<1> HIDE DEF next
<1> QED
  BY <1>2, <1>3, <1>4, <1>5, RewriteInv

\* A run that ends leaves the cache alone.
LEMMA EndInv == ASSUME IInv, NEW r \in Runs, Refuse(r) \/ Apply(r) PROVE IInv'
<1> USE DEF IInv
<1>1. /\ pc' = [pc EXCEPT ![r] = "refused"] \/ pc' = [pc EXCEPT ![r] = "applied"]
      /\ UNCHANGED <<now, org, access, since, cached, entries, entryOf, asked, mine>>
      /\ DOMAIN basis' = DOMAIN basis
  BY DEF Refuse, Apply, cache
<1>2. Types'
  BY <1>1 DEF Types, Places
<1>3. RunInv' /\ ClockInv' /\ CacheInv' /\ OneLoadPerTTL'
  BY <1>1 DEF Types, RunInv, ClockInv, CacheInv, OneLoadPerTTL
<1> QED
  BY <1>2, <1>3

\* A push, a change of access and the clock.
LEMMA EnvironmentInv == ASSUME IInv, PushOrg \/ AccessChanges \/ Tick PROVE IInv'
<1> USE DEF IInv
<1>1. /\ UNCHANGED <<cached, entries, pc, entryOf, asked, mine, basis>>
      /\ now' \in Nat /\ now <= now' /\ org' \in 1..Len(OrgVersions) /\ org <= org'
      /\ access' \in BOOLEAN /\ since' \in Seq(Nat) /\ Len(since') = org'
  <2>1. CASE PushOrg
    BY <2>1, OrgLayerAssumption DEF PushOrg, cache, runs, Types
  <2>2. org \in Nat /\ now \in Nat
    BY OrgLayerAssumption DEF Types
  <2>3. CASE AccessChanges
    BY <2>2, <2>3 DEF AccessChanges, cache, runs, Types
  <2>4. CASE Tick
    BY <2>2, <2>4 DEF Tick, cache, runs, Types
  <2> QED
    BY <2>1, <2>3, <2>4
<1>2. Types'
  BY <1>1 DEF Types
<1>3. RunInv'
  BY <1>1 DEF Types, RunInv
<1>4. ClockInv'
  <2>1. org \in Nat /\ org' \in Nat /\ now \in Nat
    BY <1>1, OrgLayerAssumption DEF Types
  <2>2. 0..org \subseteq 0..org'
    BY <1>1, <2>1
  <2>3. \A i \in DOMAIN entries : /\ entries[i].fetched \in Nat /\ entries[i].policyAt \in Nat
                                  /\ entries[i].fetched <= now /\ entries[i].policyAt <= now
    <3>1. \A i \in DOMAIN entries : entries[i] \in EntryType
      BY DEF Types
    <3> QED
      BY <3>1 DEF ClockInv, EntryType
  <2>4. \A i \in DOMAIN entries' : entries'[i].fetched <= now' /\ entries'[i].policyAt <= now'
    BY <1>1, <2>1, <2>3
  <2>5. \A i \in DOMAIN entries' :
            /\ {entries'[i].settings, entries'[i].policy, entries'[i].suborgs} \subseteq 0..org'
            /\ entries'[i].state \in {"suborgs", "done"} =>
                  entries'[i].policyAt >= entries'[i].fetched
    BY <1>1, <2>2 DEF ClockInv
  <2> QED
    BY <2>4, <2>5 DEF ClockInv
<1>5. CacheInv' /\ OneLoadPerTTL'
  BY <1>1 DEF CacheInv, OneLoadPerTTL
<1> QED
  BY <1>2, <1>3, <1>4, <1>5

\* Every step keeps the invariant.
LEMMA StepInv == IInv /\ [Next]_vars => IInv'
<1> SUFFICES ASSUME IInv, [Next]_vars PROVE IInv'
  OBVIOUS
<1>1. CASE UNCHANGED vars
  BY <1>1 DEF vars, cache, runs, IInv, Types, RunInv, ClockInv, CacheInv, OneLoadPerTTL
<1>2. ASSUME NEW r \in Runs, RunStep(r) PROVE IInv'
  BY <1>2, StartInv, BeginInv, LoadsInv, LoadFailsInv, EndInv DEF RunStep
<1> QED
  BY <1>1, <1>2, EnvironmentInv DEF Next

\* The inductive invariant: the types, and how the clock, the cache and the
\* runs that share an entry hang together.
THEOREM Invariant == Spec => []IInv
BY InitInv, StepInv, PTL DEF Spec

\* While reads succeed the admin repository is read once per TTL.
THEOREM LoadsAreApart == Spec => []OneLoadPerTTL
<1>1. IInv => OneLoadPerTTL
  BY DEF IInv
<1> QED
  BY <1>1, Invariant, PTL

\* A run is judged by a policy that was read at most TTL before it asked.
THEOREM PolicyIsFresh == Spec => []FreshPolicy
<1>1. IInv => FreshPolicy
  <2> SUFFICES ASSUME IInv, NEW r \in Runs, EntryIs(r, "done")
               PROVE  entries[entryOf[r]].policyAt + TTL >= asked[r]
    BY DEF FreshPolicy
  <2>1. entryOf[r] \in DOMAIN entries
    BY DEF IInv, Types, RunInv, EntryIs
  <2>2. /\ entries[entryOf[r]].policyAt \in Nat /\ entries[entryOf[r]].fetched \in Nat
        /\ entries[entryOf[r]].policyAt >= entries[entryOf[r]].fetched
        /\ entries[entryOf[r]].fetched + TTL >= asked[r]
        /\ TTL \in Nat /\ asked[r] \in Nat
    <3>1. entries[entryOf[r]] \in EntryType /\ TTL \in Nat /\ asked[r] \in Nat
      BY <2>1, OrgLayerAssumption DEF IInv, Types
    <3>2. /\ entries[entryOf[r]].policyAt >= entries[entryOf[r]].fetched
          /\ entries[entryOf[r]].fetched + TTL >= asked[r]
      BY <2>1 DEF IInv, RunInv, ClockInv, EntryIs
    <3> QED
      BY <3>1, <3>2 DEF EntryType
  <2> QED
    BY <2>2
<1> QED
  BY <1>1, Invariant, PTL

\* A run that asks after a load failed is not given that failure.
THEOREM FailuresAreNotGiven == Spec => ErrorsNotCached
<1>1. ASSUME IInv, IInv', [Next]_vars, NEW r \in Runs, entryOf'[r] # entryOf[r]
      PROVE  entries'[entryOf'[r]].state # "failed"
  <2>1. CASE UNCHANGED vars
    BY <1>1, <2>1 DEF vars, runs
  <2>2. ASSUME NEW q \in Runs, RunStep(q) PROVE Lookup(q) /\ q = r
    <3>1. CASE Start(q)
      <4>1. Lookup(q) \/ UNCHANGED entryOf
        BY <3>1 DEF Start
      <4>2. Lookup(q) => q = r
        BY <1>1 DEF Lookup, IInv, Types
      <4> QED
        BY <1>1, <4>1, <4>2
    <3>2. CASE Begin(q) \/ LoadFails(q) \/ Refuse(q) \/ Apply(q)
      BY <1>1, <3>2 DEF Begin, LoadFails, Refuse, Apply, runs
    <3>3. CASE CheckRepository(q) \/ ReadSettings(q) \/ ReadPolicy(q) \/ ReadSuborgs(q)
      BY <1>1, <3>3 DEF CheckRepository, ReadSettings, ReadPolicy, ReadSuborgs, Loads, runs
    <3> QED
      BY <2>2, <3>1, <3>2, <3>3 DEF RunStep
  <2>3. CASE PushOrg \/ AccessChanges \/ Tick
    BY <1>1, <2>3 DEF PushOrg, AccessChanges, Tick, runs
  <2>4. Lookup(r) => entries'[entryOf'[r]].state # "failed"
    <3> SUFFICES ASSUME Lookup(r) PROVE entries'[entryOf'[r]].state # "failed"
      OBVIOUS
    <3>1. entryOf'[r] = cached'
      BY <1>1 DEF Lookup, IInv, Types
    <3>2. cached' # 0
      <4>1. CASE cached = 0 \/ Expired
        BY <1>1, <4>1 DEF Lookup, IInv, Types
      <4>2. CASE ~(cached = 0 \/ Expired)
        BY <4>2 DEF Lookup, cache
      <4> QED
        BY <4>1, <4>2
    <3> QED
      BY <1>1, <3>1, <3>2 DEF IInv, CacheInv
  <2> QED
    BY <1>1, <2>1, <2>2, <2>3, <2>4 DEF Next
<1>2. IInv /\ IInv' /\ [Next]_vars =>
        [\A r \in Runs : entryOf'[r] # entryOf[r] =>
            entries'[entryOf'[r]].state # "failed"]_vars
  BY <1>1
<1> QED
  BY <1>2, Invariant, PTL DEF Spec, ErrorsNotCached

-----------------------------------------------------------------------------
\* What is applied is allowed by a policy that was recently in force, where
\* access to the admin repository lasts through a load once it was checked.

\* A policy that has been read was at the head when it was.
ReadInv ==
    \A i \in DOMAIN entries : entries[i].state \in {"suborgs", "done"} =>
        /\ entries[i].policy \in 1..org /\ loadAdminPolicy(entries[i].policy).ok
        /\ entries[i].policy < org => since[entries[i].policy + 1] >= entries[i].policyAt

\* A load that is past its check has access.
AccessInv ==
    \A i \in DOMAIN entries : entries[i].state \in {"settings", "policy", "suborgs"} => access

\* A run of a governed repository has an entry; once it has applied, the entry
\* is loaded and the resolution breaks no rule.
JudgedInv ==
    \A r \in Runs : pc[r] # "idle" =>
        /\ mine[r].repo \in Repos /\ mine[r].version \in DOMAIN RepoVersions[mine[r].repo]
        /\ pc[r] = "alone" => mine[r].repo = Admin
        /\ pc[r] \in {"waiting", "loading"} => mine[r].repo # Admin
        /\ pc[r] = "applied" /\ mine[r].repo # Admin =>
              EntryIs(r, "done") /\ Resolution(r).violations = {}

PInv == ReadInv /\ AccessInv /\ JudgedInv

\* A run that has a loaded layer is judged by the policy of that layer, and
\* narrowing it changes nothing about the judgement.
LEMMA Judged ==
    ASSUME IInv, PInv, NEW r \in Runs, pc[r] # "idle", EntryIs(r, "done")
    PROVE  /\ Resolution(r).violations =
                 ValidatePolicy(Resolution(r).settings, Own(mine[r].repo, mine[r].version),
                                loadAdminPolicy(entries[entryOf[r]].policy).policy)
           /\ \A w : Narrowed(r, w).violations = Resolution(r).violations
<1> DEFINE e == entries[entryOf[r]]
           t == mine[r].repo
           layer == [settings |-> loadSettingsDir(OrgAt(e.settings).files).sets,
                     policy   |-> loadAdminPolicy(e.policy).policy,
                     suborgs  |-> loadSuborgs(e.suborgs).sub]
<1>1. /\ t \in Repos /\ mine[r].version \in DOMAIN RepoVersions[t]
      /\ entryOf[r] \in DOMAIN entries /\ entryOf[r] # 0
  BY DEF PInv, JudgedInv, EntryIs, IInv, Types, RunInv
<1>2. e.settings \in Versions /\ e.policy \in Versions /\ e.suborgs \in Versions
  <2>1. {e.settings, e.policy, e.suborgs} \subseteq 0..org
    BY <1>1 DEF IInv, ClockInv
  <2>2. 0..org \subseteq Versions
    BY OrgLayerAssumption DEF IInv, Types, Versions
  <2> QED
    BY <2>1, <2>2
<1>3. Resolution(r) = ResolveFor({layer}, Own(t, mine[r].version), Context(t))
  BY <1>1, <1>2 DEF Resolution, ResolutionOf, Resolved
<1>4. ASSUME NEW repo, NEW rc
      PROVE  \E merged : ResolveFor({layer}, repo, rc) =
                [settings |-> merged.settings, provenance |-> merged.provenance,
                 violations |-> ValidatePolicy(merged.settings, repo, layer.policy)]
  <2>1. {layer} # {} /\ (CHOOSE l \in {layer} : TRUE) = layer
    OBVIOUS
  <2> HIDE DEF layer
  <2> QED
    BY <2>1, Zenon DEF ResolveFor
<1>5. PICK merged : Resolution(r) =
                [settings |-> merged.settings, provenance |-> merged.provenance,
                 violations |-> ValidatePolicy(merged.settings, Own(t, mine[r].version),
                                               layer.policy)]
  BY <1>3, <1>4
<1>6. \A w : Narrowed(r, w).violations = Resolution(r).violations
  BY <1>5 DEF Narrowed, Filtering
<1> QED
  BY <1>5, <1>6

\* Nothing is read or judged at the start.
LEMMA InitPInv == Init => PInv
BY DEF Init, PInv, ReadInv, AccessInv, JudgedInv

\* What a step does to the entries: a loaded one stays as it is, a new one is
\* unread, and each read goes one stage further.
EntryStep(i) ==
    \/ i \in DOMAIN entries /\ entries'[i] = entries[i]
    \/ entries'[i].state \in {"new", "check", "failed"}
    \/ /\ i \in DOMAIN entries /\ entries[i].state = "check" /\ access
       /\ entries'[i].state = "settings"
    \/ /\ i \in DOMAIN entries /\ entries[i].state = "settings"
       /\ entries'[i].state = "policy"
    \/ /\ i \in DOMAIN entries /\ entries[i].state = "policy"
       /\ entries'[i].state = "suborgs" /\ entries'[i].policy = AdminHead
       /\ entries'[i].policyAt = now /\ loadAdminPolicy(AdminHead).ok
    \/ /\ i \in DOMAIN entries /\ entries[i].state = "suborgs"
       /\ entries'[i].state = "done" /\ entries'[i].policy = entries[i].policy
       /\ entries'[i].policyAt = entries[i].policyAt

\* What a step of a run may do to an entry.
LEMMA RunEntryStep ==
    ASSUME IInv, NEW r \in Runs, RunStep(r)
    PROVE  /\ \A i \in DOMAIN entries' : EntryStep(i)
           /\ UNCHANGED <<now, org, since, access>>
           /\ \A i \in DOMAIN entries : entries[i].state = "done" =>
                 i \in DOMAIN entries' /\ entries'[i] = entries[i]
<1>1. CASE Start(r)
  <2>1. entries' = entries \/ entries' = Append(entries, NewEntry)
    BY <1>1 DEF Start, Lookup, cache
  <2>2. CASE entries' = Append(entries, NewEntry)
    <3>1. /\ DOMAIN entries = 1..Len(entries) /\ DOMAIN entries' = 1..(Len(entries) + 1)
          /\ \A i \in DOMAIN entries : entries'[i] = entries[i]
          /\ entries'[Len(entries) + 1] = NewEntry
      BY <2>2 DEF IInv, Types
    <3>2. NewEntry.state = "new"
      BY DEF NewEntry
    <3>3. \A i \in DOMAIN entries' : i \in DOMAIN entries \/ i = Len(entries) + 1
      BY <3>1
    <3> QED
      BY <1>1, <3>1, <3>2, <3>3 DEF EntryStep, Start
  <2>3. CASE entries' = entries
    BY <1>1, <2>3 DEF EntryStep, Start
  <2> QED
    BY <2>1, <2>2, <2>3
<1>2. CASE Refuse(r) \/ Apply(r)
  BY <1>2 DEF Refuse, Apply, cache, EntryStep
<1>3. entryOf[r] # 0 => entryOf[r] \in DOMAIN entries /\ entries[entryOf[r]] \in EntryType
  BY DEF IInv, Types, RunInv
<1>4. CASE Begin(r)
  <2>1. entryOf[r] \in DOMAIN entries /\ entries[entryOf[r]] \in EntryType
    BY <1>3, <1>4 DEF Begin, IInv, RunInv
  <2>2. [entries[entryOf[r]] EXCEPT !.state = "check"].state = "check"
    BY <2>1 DEF EntryType
  <2> QED
    BY <1>4, <2>1, <2>2 DEF Begin, EntryStep
<1>5. CASE LoadFails(r)
  <2>1. entryOf[r] \in DOMAIN entries /\ entries[entryOf[r]].state # "done"
    BY <1>3, <1>5 DEF LoadFails, IInv, RunInv
  <2>2. [NewEntry EXCEPT !.fetched = entries[entryOf[r]].fetched, !.state = "failed"].state
           = "failed"
    BY DEF NewEntry
  <2> QED
    BY <1>5, <2>1, <2>2 DEF LoadFails, Drop, EntryStep
<1>6. CASE CheckRepository(r) \/ ReadSettings(r) \/ ReadPolicy(r) \/ ReadSuborgs(r)
  <2>1. entryOf[r] \in DOMAIN entries /\ entries[entryOf[r]] \in EntryType
    BY <1>3, <1>6 DEF CheckRepository, ReadSettings, ReadPolicy, ReadSuborgs, Loads, IInv, RunInv
  <2>2. UNCHANGED <<now, org, access, since>>
    BY <1>6 DEF CheckRepository, ReadSettings, ReadPolicy, ReadSuborgs, Loads
  <2>3. CASE CheckRepository(r)
    <3>1. [entries[entryOf[r]] EXCEPT !.state = "settings"].state = "settings"
      BY <2>1 DEF EntryType
    <3> QED
      BY <2>1, <2>2, <2>3, <3>1 DEF CheckRepository, Loads, EntryStep
  <2>4. CASE ReadSettings(r)
    <3>1. [entries[entryOf[r]] EXCEPT !.state = "policy", !.settings = AdminHead].state = "policy"
      BY <2>1 DEF EntryType
    <3> QED
      BY <2>1, <2>2, <2>4, <3>1 DEF ReadSettings, Loads, EntryStep
  <2>5. CASE ReadPolicy(r)
    <3> DEFINE next == [entries[entryOf[r]] EXCEPT !.state = "suborgs", !.policy = AdminHead,
                                                   !.policyAt = now]
    <3>1. next.state = "suborgs" /\ next.policy = AdminHead /\ next.policyAt = now
      BY <2>1 DEF EntryType
    <3>2. Loads(r, "policy", next) /\ loadAdminPolicy(AdminHead).ok
      BY <2>5 DEF ReadPolicy
    <3> HIDE DEF next
    <3> QED
      BY <2>1, <2>2, <3>1, <3>2 DEF Loads, EntryStep
  <2>6. CASE ReadSuborgs(r)
    <3> DEFINE next == [entries[entryOf[r]] EXCEPT !.state = "done", !.suborgs = AdminHead]
    <3>1. /\ next.state = "done" /\ next.policy = entries[entryOf[r]].policy
          /\ next.policyAt = entries[entryOf[r]].policyAt
      BY <2>1 DEF EntryType
    <3>2. Loads(r, "suborgs", next)
      BY <2>6 DEF ReadSuborgs
    <3> HIDE DEF next
    <3> QED
      BY <2>1, <2>2, <3>1, <3>2 DEF Loads, EntryStep
  <2> QED
    BY <1>6, <2>3, <2>4, <2>5, <2>6
<1> QED
  BY <1>1, <1>2, <1>4, <1>5, <1>6 DEF RunStep

\* What is read in a step is what the head says, and the head is no older.
LEMMA RunReadInv ==
    ASSUME IInv, PInv, IInv', NEW r \in Runs, RunStep(r)
    PROVE  ReadInv' /\ AccessInv'
<1>1. /\ \A i \in DOMAIN entries' : EntryStep(i)
      /\ UNCHANGED <<now, org, since, access>>
  BY RunEntryStep
<1>2. AccessInv'
  BY <1>1 DEF EntryStep, AccessInv, PInv
<1>3. org \in Nat /\ 1 <= org
  BY OrgLayerAssumption DEF IInv, Types
<1>4. ReadInv'
  <2> SUFFICES ASSUME NEW i \in DOMAIN entries', entries'[i].state \in {"suborgs", "done"}
               PROVE  /\ entries'[i].policy \in 1..org /\ loadAdminPolicy(entries'[i].policy).ok
                      /\ entries'[i].policy < org =>
                            since[entries'[i].policy + 1] >= entries'[i].policyAt
    BY <1>1 DEF ReadInv, loadAdminPolicy, OrgAt
  <2>1. CASE i \in DOMAIN entries /\ entries'[i] = entries[i]
    BY <2>1 DEF PInv, ReadInv
  <2>2. CASE /\ i \in DOMAIN entries /\ entries[i].state = "policy"
             /\ entries'[i].state = "suborgs" /\ entries'[i].policy = AdminHead
             /\ entries'[i].policyAt = now /\ loadAdminPolicy(AdminHead).ok
    BY <1>3, <2>2 DEF PInv, AccessInv, AdminHead
  <2>3. CASE /\ i \in DOMAIN entries /\ entries[i].state = "suborgs"
             /\ entries'[i].state = "done" /\ entries'[i].policy = entries[i].policy
             /\ entries'[i].policyAt = entries[i].policyAt
    BY <2>3 DEF PInv, ReadInv
  <2> QED
    BY <1>1, <2>1, <2>2, <2>3 DEF EntryStep
<1> QED
  BY <1>2, <1>4

\* The resolution of a run changes with its repository, its version and its
\* entry alone.
LEMMA SameResolution ==
    ASSUME NEW r \in Runs, mine'[r] = mine[r], entryOf'[r] = entryOf[r],
           entryOf[r] # 0, entries'[entryOf[r]] = entries[entryOf[r]]
    PROVE  Resolution(r)' = Resolution(r)
BY DEF Resolution, ResolutionOf, Resolved, Versions, Repos, Own, Context, Files, OrgAt,
       loadAdminPolicy, loadSuborgs

\* A run that stays where it is keeps what it has.
LEMMA OthersJudged ==
    ASSUME IInv, PInv, NEW r \in Runs, pc'[r] = pc[r], mine'[r] = mine[r],
           entryOf'[r] = entryOf[r],
           \A i \in DOMAIN entries : entries[i].state = "done" => entries'[i] = entries[i],
           pc'[r] # "idle"
    PROVE  /\ mine'[r].repo \in Repos /\ mine'[r].version \in DOMAIN RepoVersions[mine'[r].repo]
           /\ pc'[r] = "alone" => mine'[r].repo = Admin
           /\ pc'[r] \in {"waiting", "loading"} => mine'[r].repo # Admin
           /\ pc'[r] = "applied" /\ mine'[r].repo # Admin =>
                 EntryIs(r, "done")' /\ Resolution(r)'.violations = {}
<1>1. pc[r] = "applied" /\ mine[r].repo # Admin =>
         EntryIs(r, "done")' /\ Resolution(r)'.violations = {}
  <2> SUFFICES ASSUME pc[r] = "applied", mine[r].repo # Admin
               PROVE  EntryIs(r, "done")' /\ Resolution(r)'.violations = {}
    OBVIOUS
  <2>1. EntryIs(r, "done") /\ Resolution(r).violations = {}
    BY DEF PInv, JudgedInv
  <2>2. entryOf[r] \in DOMAIN entries /\ entryOf[r] # 0
    BY <2>1 DEF EntryIs, IInv, Types, RunInv
  <2>3. entries'[entryOf[r]] = entries[entryOf[r]]
    BY <2>1, <2>2 DEF EntryIs
  <2> QED
    BY <2>1, <2>2, <2>3, SameResolution DEF EntryIs
<1> QED
  BY <1>1 DEF PInv, JudgedInv

\* A run applies only what its resolution allows.
LEMMA RunJudged ==
    ASSUME IInv, PInv, NEW r \in Runs, RunStep(r)
    PROVE  JudgedInv'
<1>1. \A i \in DOMAIN entries : entries[i].state = "done" => entries'[i] = entries[i]
  BY RunEntryStep
<1>2. /\ DOMAIN pc = Runs /\ DOMAIN mine = Runs /\ DOMAIN entryOf = Runs
      /\ \A q \in Runs : q # r => pc'[q] = pc[q] /\ mine'[q] = mine[q] /\ entryOf'[q] = entryOf[q]
  <2>1. DOMAIN pc = Runs /\ DOMAIN mine = Runs /\ DOMAIN entryOf = Runs
    BY DEF IInv, Types
  <2>3. CASE Start(r)
    BY <2>1, <2>3 DEF Start, Lookup
  <2>4. CASE Begin(r) \/ Refuse(r) \/ Apply(r)
    BY <2>1, <2>4 DEF Begin, Refuse, Apply
  <2>5. CASE CheckRepository(r) \/ ReadSettings(r) \/ ReadPolicy(r) \/ ReadSuborgs(r)
    BY <2>1, <2>5 DEF CheckRepository, ReadSettings, ReadPolicy, ReadSuborgs, Loads, runs
  <2>6. CASE LoadFails(r)
    BY <2>1, <2>6 DEF LoadFails, runs
  <2> QED
    BY <2>3, <2>4, <2>5, <2>6 DEF RunStep
<1> DEFINE Fine(q) ==
             /\ mine'[q].repo \in Repos
             /\ mine'[q].version \in DOMAIN RepoVersions[mine'[q].repo]
             /\ pc'[q] = "alone" => mine'[q].repo = Admin
             /\ pc'[q] \in {"waiting", "loading"} => mine'[q].repo # Admin
             /\ pc'[q] = "applied" /\ mine'[q].repo # Admin =>
                   EntryIs(q, "done")' /\ Resolution(q)'.violations = {}
<1>4. ASSUME NEW q \in Runs, q # r, pc'[q] # "idle" PROVE Fine(q)
  BY <1>1, <1>2, <1>4, OthersJudged
<1>5. ASSUME pc'[r] # "idle" PROVE Fine(r)
  <2>1. CASE Start(r)
    <3>1. PICK t \in Repos : \E v \in DOMAIN RepoVersions[t] :
              /\ mine' = [mine EXCEPT ![r] = [repo |-> t, version |-> v]]
              /\ \/ pc' = [pc EXCEPT ![r] = "refused"]
                 \/ pc' = [pc EXCEPT ![r] = "alone"] /\ adminRepoFor(t) = {}
                 \/ pc' = [pc EXCEPT ![r] = "waiting"] /\ adminRepoFor(t) # {}
      BY <2>1 DEF Start
    <3> QED
      BY <1>2, <3>1 DEF adminRepoFor
  <2>2. CASE Apply(r)
    <3>1. /\ pc'[r] = "applied" /\ UNCHANGED <<mine, entryOf, entries>>
          /\ \E w : Narrowed(r, w).violations = {}
          /\ pc[r] \in {"alone", "waiting", "loading"}
          /\ pc[r] # "alone" => entries[entryOf[r]].state = "done"
      BY <1>2, <2>2 DEF Apply, Answer, cache
    <3>2. /\ mine[r].repo \in Repos /\ mine[r].version \in DOMAIN RepoVersions[mine[r].repo]
          /\ pc[r] = "alone" => mine[r].repo = Admin
      BY <3>1 DEF PInv, JudgedInv
    <3>3. ASSUME mine[r].repo # Admin
          PROVE  EntryIs(r, "done") /\ Resolution(r).violations = {}
      <4>1. EntryIs(r, "done") /\ pc[r] # "idle"
        BY <3>1, <3>2, <3>3 DEF EntryIs, IInv, RunInv
      <4> QED
        BY <3>1, <4>1, Judged
    <3>4. mine[r].repo # Admin => EntryIs(r, "done")' /\ Resolution(r)'.violations = {}
      <4> SUFFICES ASSUME mine[r].repo # Admin
                   PROVE  EntryIs(r, "done")' /\ Resolution(r)'.violations = {}
        OBVIOUS
      <4>1. entryOf[r] # 0
        BY <3>3 DEF EntryIs
      <4> QED
        BY <3>1, <3>3, <4>1, SameResolution DEF EntryIs
    <3> QED
      BY <3>1, <3>2, <3>4
  <2>3. CASE Begin(r) \/ Refuse(r)
    <3>1. /\ UNCHANGED mine /\ pc'[r] \in {"loading", "refused"}
          /\ pc'[r] = "loading" => pc[r] = "waiting"
          /\ pc[r] \in {"waiting", "loading", "alone"}
      BY <1>2, <2>3 DEF Begin, Refuse, Answer
    <3> QED
      BY <3>1 DEF PInv, JudgedInv
  <2>4. CASE \/ CheckRepository(r) \/ ReadSettings(r) \/ ReadPolicy(r) \/ ReadSuborgs(r)
             \/ LoadFails(r)
    <3>1. UNCHANGED <<pc, mine, entryOf>>
      BY <2>4 DEF CheckRepository, ReadSettings, ReadPolicy, ReadSuborgs, Loads, LoadFails, runs
    <3> QED
      BY <1>1, <1>5, <3>1, OthersJudged
  <2> QED
    BY <2>1, <2>2, <2>3, <2>4 DEF RunStep
<1> HIDE DEF Fine
<1>6. \A q \in Runs : pc'[q] # "idle" => Fine(q)
  BY <1>4, <1>5
<1> QED
  BY <1>6 DEF JudgedInv, Fine

\* With stable access, what was read stays readable when the world changes.
LEMMA EnvironmentPInv ==
    ASSUME StableAccess, IInv, PInv, PushOrg \/ AccessChanges \/ Tick
    PROVE  PInv'
<1>1. UNCHANGED <<cached, entries, pc, entryOf, asked, mine, basis>>
  BY DEF PushOrg, AccessChanges, Tick, cache, runs
<1>2. JudgedInv'
  <2> SUFFICES ASSUME NEW q \in Runs, pc'[q] # "idle"
               PROVE  /\ mine'[q].repo \in Repos
                      /\ mine'[q].version \in DOMAIN RepoVersions[mine'[q].repo]
                      /\ pc'[q] = "alone" => mine'[q].repo = Admin
                      /\ pc'[q] \in {"waiting", "loading"} => mine'[q].repo # Admin
                      /\ pc'[q] = "applied" /\ mine'[q].repo # Admin =>
                            EntryIs(q, "done")' /\ Resolution(q)'.violations = {}
    BY DEF JudgedInv
  <2> QED
    BY <1>1, OthersJudged
<1>3. AccessInv'
  BY <1>1 DEF PushOrg, AccessChanges, Tick, PInv, AccessInv
<1>4. ReadInv'
  <2>1. CASE AccessChanges \/ Tick
    BY <1>1, <2>1 DEF AccessChanges, Tick, PInv, ReadInv, loadAdminPolicy, OrgAt
  <2>2. CASE PushOrg
    <3>1. /\ org \in Nat /\ now \in Nat /\ org' = org + 1 /\ Len(since) = org
          /\ \A v \in 1..org : since'[v] = since[v]
          /\ since'[org + 1] = now
      BY <2>2, OrgLayerAssumption DEF PushOrg, IInv, Types
    <3> SUFFICES ASSUME NEW i \in DOMAIN entries, entries[i].state \in {"suborgs", "done"}
                 PROVE  /\ entries[i].policy \in 1..org'
                        /\ loadAdminPolicy(entries[i].policy).ok
                        /\ entries[i].policy < org' =>
                              since'[entries[i].policy + 1] >= entries[i].policyAt
      BY <1>1 DEF ReadInv, loadAdminPolicy, OrgAt
    <3>2. /\ entries[i].policy \in 1..org /\ loadAdminPolicy(entries[i].policy).ok
          /\ entries[i].policy < org => since[entries[i].policy + 1] >= entries[i].policyAt
      BY DEF PInv, ReadInv
    <3>3. entries[i].policyAt \in Nat /\ entries[i].policyAt <= now
      <4>1. entries[i] \in EntryType
        BY DEF IInv, Types
      <4> QED
        BY <4>1 DEF IInv, ClockInv, EntryType
    <3> QED
      BY <3>1, <3>2, <3>3
  <2> QED
    BY <2>1, <2>2
<1> QED
  BY <1>2, <1>3, <1>4 DEF PInv

\* Every step keeps the policy invariant.
LEMMA StepPInv == ASSUME StableAccess PROVE IInv /\ PInv /\ IInv' /\ [Next]_vars => PInv'
<1> SUFFICES ASSUME IInv, PInv, IInv', [Next]_vars PROVE PInv'
  OBVIOUS
<1>1. CASE UNCHANGED vars
  <2>1. UNCHANGED <<org, access, since, entries, pc, entryOf, mine>>
    BY <1>1 DEF vars, cache, runs
  <2>2. ReadInv' /\ AccessInv'
    BY <2>1 DEF PInv, ReadInv, AccessInv, loadAdminPolicy, OrgAt
  <2>3. JudgedInv'
    <3> SUFFICES ASSUME NEW q \in Runs, pc'[q] # "idle"
                 PROVE  /\ mine'[q].repo \in Repos
                        /\ mine'[q].version \in DOMAIN RepoVersions[mine'[q].repo]
                        /\ pc'[q] = "alone" => mine'[q].repo = Admin
                        /\ pc'[q] \in {"waiting", "loading"} => mine'[q].repo # Admin
                        /\ pc'[q] = "applied" /\ mine'[q].repo # Admin =>
                              EntryIs(q, "done")' /\ Resolution(q)'.violations = {}
      BY DEF JudgedInv
    <3> QED
      BY <2>1, OthersJudged
  <2> QED
    BY <2>2, <2>3 DEF PInv
<1>2. ASSUME NEW r \in Runs, RunStep(r) PROVE PInv'
  BY <1>2, RunReadInv, RunJudged DEF PInv
<1> QED
  BY <1>1, <1>2, EnvironmentPInv DEF Next

\* Where access to the admin repository lasts through a load once checked,
\* nothing is applied to a governed repository that no recent policy allows.
THEOREM PolicyGoverns == ASSUME StableAccess PROVE Spec => []PolicyHolds
<1>1. IInv /\ PInv => PolicyHolds
  <2> SUFFICES ASSUME IInv, PInv, NEW r \in Runs, pc[r] = "applied", mine[r].repo # Admin
               PROVE  Allowed(r)
    BY DEF PolicyHolds
  <2> DEFINE e == entries[entryOf[r]]
  <2>1. EntryIs(r, "done") /\ Resolution(r).violations = {}
    BY DEF PInv, JudgedInv
  <2>2. entryOf[r] \in DOMAIN entries /\ e.state = "done"
    BY <2>1 DEF EntryIs, IInv, Types, RunInv
  <2>3. ValidatePolicy(Resolution(r).settings, Own(mine[r].repo, mine[r].version),
                       loadAdminPolicy(e.policy).policy) = {}
    BY <2>1, Judged
  <2>4. /\ e.policy \in 1..org /\ loadAdminPolicy(e.policy).ok
        /\ e.policy < org => since[e.policy + 1] >= e.policyAt
    BY <2>2 DEF PInv, ReadInv
  <2>5. e.policy < org => since[e.policy + 1] + TTL >= asked[r]
    <3>1. /\ e.policyAt \in Nat /\ e.fetched \in Nat /\ TTL \in Nat /\ asked[r] \in Nat
      <4>1. entries[entryOf[r]] \in EntryType
        BY <2>2 DEF IInv, Types
      <4> QED
        BY <4>1, OrgLayerAssumption DEF IInv, Types, EntryType
    <3>2. e.policyAt >= e.fetched /\ e.fetched + TTL >= asked[r]
      BY <2>1, <2>2 DEF IInv, ClockInv, RunInv, EntryIs
    <3>3. e.policy < org => since[e.policy + 1] \in Nat
      <4> HIDE DEF e
      <4>1. org \in Nat /\ Len(since) = org /\ since \in Seq(Nat)
        BY OrgLayerAssumption DEF IInv, Types
      <4> QED
        BY <2>4, <4>1
    <3> HIDE DEF e
    <3> QED
      BY <2>4, <3>1, <3>2, <3>3
  <2> HIDE DEF e
  <2> QED
    BY <2>3, <2>4, <2>5 DEF Allowed
<1>2. Init => PInv
  BY InitPInv
<1>3. IInv /\ PInv /\ IInv' /\ [Next]_vars => PInv'
  BY StepPInv
<1> QED
  BY <1>1, <1>2, <1>3, Invariant, PTL DEF Spec

-----------------------------------------------------------------------------
\* Layers and sections: where each section of a resolution comes from

\* A set of positions that has a member has a last one.
LEMMA LastPosition ==
    ASSUME NEW n \in Nat, NEW S \in SUBSET (1..n), S # {}
    PROVE  \E i \in S : \A j \in S : j <= i
<1> DEFINE less == OpToRel(<, Nat)
           T == {n - i : i \in S}
<1>1. \A i, j \in Nat : i < j => <<i, j>> \in less
  BY DEF OpToRel
<1>2. IsWellFoundedOn(less, Nat)
  BY NatLessThanWellFounded
<1>3. T \in SUBSET Nat /\ T # {}
  <2>1. \A i \in S : i \in 1..n /\ n - i \in Nat
    OBVIOUS
  <2>2. \E i \in S : n - i \in T
    OBVIOUS
  <2> QED
    BY <2>1, <2>2
<1> HIDE DEF less
<1>4. PICK x \in T : \A y \in T : ~(<<y, x>> \in less)
  BY <1>2, <1>3, WFMin
<1>5. \A y \in T : ~(y < x)
  BY <1>1, <1>3, <1>4
<1>6. PICK i \in S : x = n - i
  BY <1>4
<1>7. \A j \in S : j <= i
  BY <1>5, <1>6
<1> QED
  BY <1>7

\* A section that some layer sets is provided by one of those that set it.
LEMMA Provided ==
    ASSUME NEW n \in Nat, NEW L, DOMAIN L = 1..n, NEW k
    PROVE  LET last == CHOOSE i \in Setters(L, k) : \A j \in Setters(L, k) : j <= i
           IN  /\ k \in DOMAIN Resolve(L).settings <=> Setters(L, k) # {}
               /\ Setters(L, k) # {} =>
                     last \in Setters(L, k) /\ Resolve(L).settings[k] = L[last].settings[k]
<1>1. Setters(L, k) \in SUBSET (1..n)
  BY DEF Setters
<1>2. DOMAIN Resolve(L).settings = UNION {DOMAIN L[i].settings : i \in DOMAIN L}
  BY DEF Resolve
<1>3. k \in DOMAIN Resolve(L).settings <=> Setters(L, k) # {}
  BY <1>2 DEF Setters
<1>4. ASSUME Setters(L, k) # {}
      PROVE  \E i \in Setters(L, k) : \A j \in Setters(L, k) : j <= i
  BY <1>1, <1>4, LastPosition
<1>5. ASSUME Setters(L, k) # {}
      PROVE  Resolve(L).settings[k] =
                L[CHOOSE i \in Setters(L, k) : \A j \in Setters(L, k) : j <= i].settings[k]
  BY <1>2, <1>3, <1>5 DEF Resolve
<1> QED
  BY <1>3, <1>4, <1>5

\* Layers that agree on a section resolve it alike.
LEMMA SameSection ==
    ASSUME NEW n \in Nat, NEW L, DOMAIN L = 1..n, NEW M, DOMAIN M = 1..n, NEW k,
           \A i \in 1..n : k \in DOMAIN L[i].settings <=> k \in DOMAIN M[i].settings,
           \A i \in 1..n : k \in DOMAIN L[i].settings => L[i].settings[k] = M[i].settings[k]
    PROVE  /\ k \in DOMAIN Resolve(L).settings <=> k \in DOMAIN Resolve(M).settings
           /\ k \in DOMAIN Resolve(L).settings =>
                 Resolve(L).settings[k] = Resolve(M).settings[k]
<1>1. Setters(L, k) = Setters(M, k)
  BY DEF Setters
<1> DEFINE last(X) == CHOOSE i \in Setters(X, k) : \A j \in Setters(X, k) : j <= i
<1>2. last(L) = last(M)
  BY <1>1
<1>3. /\ k \in DOMAIN Resolve(L).settings <=> Setters(L, k) # {}
      /\ Setters(L, k) # {} =>
            last(L) \in Setters(L, k) /\ Resolve(L).settings[k] = L[last(L)].settings[k]
  BY Provided
<1>4. /\ k \in DOMAIN Resolve(M).settings <=> Setters(M, k) # {}
      /\ Setters(M, k) # {} =>
            last(M) \in Setters(M, k) /\ Resolve(M).settings[k] = M[last(M)].settings[k]
  BY Provided
<1>5. \A i \in Setters(L, k) : i \in 1..n /\ k \in DOMAIN L[i].settings
  BY DEF Setters
<1> HIDE DEF last
<1> QED
  BY <1>1, <1>2, <1>3, <1>4, <1>5

\* The layers over a repository's own settings are the same whatever these are.
LEMMA LayersOf ==
    ASSUME NEW layer, NEW n \in Nat, DOMAIN layer.suborgs = 1..n, NEW rc, NEW repo
    PROVE  LET L == Layers(layer, repo, rc) IN
           /\ DOMAIN L = 1..(n + 2) /\ L[n + 2].settings = repo
           /\ \A i \in 1..(n + 1) :
                 L[i] = IF i = 1 THEN Layer("org", layer.settings)
                        ELSE TierLayer(layer.suborgs[i - 1], rc)
<1> DEFINE tiers == [i \in 1..n |-> TierLayer(layer.suborgs[i], rc)]
           S == {tiers[i] : i \in 1..n} \cup {Layer("org", layer.settings), Layer("repo", repo)}
<1>1. tiers \in Seq(S) /\ Len(tiers) = n
  OBVIOUS
<1>2. <<Layer("org", layer.settings)>> \in Seq(S) /\ <<Layer("repo", repo)>> \in Seq(S)
  OBVIOUS
<1>3. Layers(layer, repo, rc) =
        <<Layer("org", layer.settings)>> \o tiers \o <<Layer("repo", repo)>>
  BY DEF Layers
<1>4. \A i \in 1..n : tiers[i] = TierLayer(layer.suborgs[i], rc)
  OBVIOUS
<1> HIDE DEF tiers, S
<1> QED
  BY <1>1, <1>2, <1>3, <1>4 DEF Layer

\* The settings of a governed repository are its layers'.
LEMMA SettingsOf ==
    ASSUME NEW layer, NEW repo, NEW rc
    PROVE  \E violations : ResolveFor({layer}, repo, rc) =
              [settings |-> Resolve(Layers(layer, repo, rc)).settings,
               provenance |-> Resolve(Layers(layer, repo, rc)).provenance,
               violations |-> violations]
<1>1. {layer} # {} /\ (CHOOSE l \in {layer} : TRUE) = layer
  OBVIOUS
<1> QED
  BY <1>1, Zenon DEF ResolveFor

\* Two settings that agree on section k: both set it alike, or neither does.
Agree(f, g, k) == /\ k \in DOMAIN f <=> k \in DOMAIN g
                  /\ k \in DOMAIN f => f[k] = g[k]

\* Where two versions of a repository agree on a section, their resolutions
\* under one layer do, whichever layer provides it.
LEMMA LayersAgree ==
    ASSUME NEW layer, NEW n \in Nat, DOMAIN layer.suborgs = 1..n, NEW rc,
           NEW f, NEW g, NEW k, Agree(f, g, k)
    PROVE  Agree(Resolve(Layers(layer, f, rc)).settings,
                 Resolve(Layers(layer, g, rc)).settings, k)
<1> DEFINE L == Layers(layer, f, rc)
           M == Layers(layer, g, rc)
<1>1. /\ DOMAIN L = 1..(n + 2) /\ DOMAIN M = 1..(n + 2)
      /\ L[n + 2].settings = f /\ M[n + 2].settings = g
      /\ \A i \in 1..(n + 1) : L[i] = M[i]
  BY LayersOf
<1>2. \A i \in 1..(n + 2) : i = n + 2 \/ i \in 1..(n + 1)
  OBVIOUS
<1>3. n + 2 \in Nat
  OBVIOUS
<1> HIDE DEF L, M
<1>4. \A i \in 1..(n + 2) : Agree(L[i].settings, M[i].settings, k)
  BY <1>1, <1>2 DEF Agree
<1>5. Agree(Resolve(L).settings, Resolve(M).settings, k)
  BY <1>1, <1>3, <1>4, SameSection DEF Agree
<1> QED
  BY <1>5 DEF L, M

\* The file that holds a section.
FileOf(k) == IF k = "topics" THEN "repo" ELSE k

\* A section is set by its file and by no other.
LEMMA SectionFile ==
    ASSUME NEW files, IsDirectory(files), NEW k
    PROVE  LET sets == loadSettingsDir(files).sets
               own  == decodeFile(FileOf(k), files[FileOf(k)]).sets
           IN  /\ k \in DOMAIN sets <=> FileOf(k) \in DOMAIN files /\ k \in DOMAIN own
               /\ k \in DOMAIN sets => sets[k] = own[k]
<1> DEFINE sets(n) == decodeFile(n, files[n]).sets
<1>1. ASSUME NEW n \in DOMAIN files, NEW q \in DOMAIN sets(n) PROVE n = FileOf(q)
  <2>1. n \in FileNames /\ n # "topics"
    BY DEF IsDirectory, FileNames
  <2>2. files[n].kind = "body"
    BY <1>1 DEF IsDirectory, decodeFile, NoSettings
  <2>3. sets(n) = mergeFile(n, files[n].body)
    BY <2>2 DEF decodeFile
  <2>4. CASE n = "repo"
    BY <1>1, <2>2, <2>3, <2>4 DEF mergeFile, IsDirectory, FileOf
  <2>5. CASE n # "repo"
    BY <1>1, <2>1, <2>3, <2>5 DEF mergeFile, FileOf
  <2> QED
    BY <2>4, <2>5
<1> DEFINE keys == UNION {DOMAIN sets(n) : n \in DOMAIN files}
<1>2. loadSettingsDir(files).sets =
        [q \in keys |-> sets(CHOOSE n \in DOMAIN files : q \in DOMAIN sets(n))[q]]
  BY DEF loadSettingsDir
<1> HIDE DEF sets
<1>3. k \in keys <=> FileOf(k) \in DOMAIN files /\ k \in DOMAIN sets(FileOf(k))
  BY <1>1
<1>4. ASSUME k \in keys
      PROVE  (CHOOSE n \in DOMAIN files : k \in DOMAIN sets(n)) = FileOf(k)
  BY <1>1, <1>3, <1>4
<1> HIDE DEF keys
<1>5. k \in keys => loadSettingsDir(files).sets[k] = sets(FileOf(k))[k]
  BY <1>2, <1>4
<1>6. DOMAIN loadSettingsDir(files).sets = keys
  BY <1>2
<1> QED
  BY <1>3, <1>5, <1>6 DEF sets

\* A section whose file did not change is what it was.
LEMMA UnchangedSection ==
    ASSUME NEW F, NEW G, IsDirectory(F), IsDirectory(G), DOMAIN F = DOMAIN G,
           NEW k, FileOf(k) \notin {f \in DOMAIN F : F[f] # G[f]}
    PROVE  Agree(loadSettingsDir(F).sets, loadSettingsDir(G).sets, k)
<1>1. FileOf(k) \in DOMAIN F => F[FileOf(k)] = G[FileOf(k)]
  OBVIOUS
<1> QED
  BY <1>1, SectionFile DEF Agree

\* A run narrowed to the changed files has the sections of each.
LEMMA FilesAreCovered ==
    ASSUME NEW changed, changed # {}, changed \subseteq FileNames,
           NEW k, k \notin AffectedKeys(changed)
    PROVE  FileOf(k) \notin changed
<1>1. AffectedKeys(changed) = UNION {fileToKeys(f) : f \in changed}
  BY DEF AffectedKeys
<1>2. k \in fileToKeys(FileOf(k))
  BY DEF fileToKeys, FileOf
<1> QED
  BY <1>1, <1>2

\* What a run applies is of a version of its repository, and narrowed, if at
\* all, by changes since another.
NarrowInv ==
    \A r \in Runs :
        /\ pc[r] # "idle" =>
              mine[r].repo \in Repos /\ mine[r].version \in DOMAIN RepoVersions[mine[r].repo]
        /\ pc[r] = "applied" /\ basis[r] # 0 =>
              /\ basis[r] \in DOMAIN RepoVersions[mine[r].repo]
              /\ Changed(mine[r].repo, basis[r], mine[r].version) # {}

\* Every step keeps that.
LEMMA StepNarrow == IInv /\ NarrowInv /\ [Next]_vars => NarrowInv'
<1> SUFFICES ASSUME IInv, NarrowInv, [Next]_vars PROVE NarrowInv'
  OBVIOUS
<1>0. /\ pc \in [Runs -> Places] /\ DOMAIN mine = Runs /\ DOMAIN basis = Runs
  BY DEF IInv, Types
<1>1. CASE UNCHANGED <<pc, mine, basis>>
  BY <1>1 DEF NarrowInv, Changed, Files
<1>2. ASSUME NEW r \in Runs, Start(r) PROVE NarrowInv'
  <2>1. PICK t \in Repos : \E v \in DOMAIN RepoVersions[t] :
              mine' = [mine EXCEPT ![r] = [repo |-> t, version |-> v]]
    BY <1>2 DEF Start
  <2>2. /\ mine'[r].repo \in Repos /\ mine'[r].version \in DOMAIN RepoVersions[mine'[r].repo]
        /\ pc'[r] # "applied" /\ UNCHANGED basis
        /\ \A q \in Runs : q # r => mine'[q] = mine[q] /\ pc'[q] = pc[q]
    BY <1>0, <1>2, <2>1 DEF Start
  <2> QED
    BY <2>2 DEF NarrowInv, Changed, Files
<1>3. ASSUME NEW r \in Runs, Apply(r) PROVE NarrowInv'
  <2>1. /\ UNCHANGED mine /\ pc[r] # "idle" /\ pc'[r] = "applied"
        /\ basis'[r] # 0 => /\ basis'[r] \in DOMAIN RepoVersions[mine[r].repo]
                            /\ Changed(mine[r].repo, basis'[r], mine[r].version) # {}
        /\ \A q \in Runs : q # r => basis'[q] = basis[q] /\ pc'[q] = pc[q]
    BY <1>0, <1>3 DEF Apply, Answer
  <2> QED
    BY <2>1 DEF NarrowInv, Changed, Files
<1>4. ASSUME NEW r \in Runs, Begin(r) \/ Refuse(r) PROVE NarrowInv'
  <2>1. /\ UNCHANGED <<mine, basis>> /\ pc[r] # "idle" /\ pc'[r] # "applied"
        /\ \A q \in Runs : q # r => pc'[q] = pc[q]
    BY <1>0, <1>4 DEF Begin, Refuse, Answer
  <2> QED
    BY <2>1 DEF NarrowInv, Changed, Files
<1> QED
  BY <1>1, <1>2, <1>3, <1>4
     DEF Next, RunStep, CheckRepository, ReadSettings, ReadPolicy, ReadSuborgs, Loads, LoadFails,
         PushOrg, AccessChanges, Tick, runs, vars

\* A governed run resolves every version of its repository over one layer.
LEMMA OneLayer ==
    ASSUME IInv, NEW r \in Runs, mine[r].repo \in Repos, entryOf[r] # 0
    PROVE  \E layer :
             /\ \E n \in Nat : DOMAIN layer.suborgs = 1..n
             /\ \A u \in DOMAIN RepoVersions[mine[r].repo] :
                  ResolutionOf(r, u).settings =
                    Resolve(Layers(layer, Own(mine[r].repo, u), Context(mine[r].repo))).settings
<1> DEFINE t == mine[r].repo
           e == entries[entryOf[r]]
           layer == [settings |-> loadSettingsDir(OrgAt(e.settings).files).sets,
                     policy   |-> loadAdminPolicy(e.policy).policy,
                     suborgs  |-> loadSuborgs(e.suborgs).sub]
<1>1. e.settings \in Versions /\ e.policy \in Versions /\ e.suborgs \in Versions
  <2>1. {e.settings, e.policy, e.suborgs} \subseteq 0..org
    BY DEF IInv, Types, RunInv, ClockInv
  <2>2. 0..org \subseteq Versions
    BY OrgLayerAssumption DEF IInv, Types, Versions
  <2> QED
    BY <2>1, <2>2
<1>2. \E n \in Nat : DOMAIN layer.suborgs = 1..n
  <2>1. DOMAIN layer.suborgs = DOMAIN OrgAt(e.suborgs).suborgs
    BY DEF loadSuborgs
  <2>2. CASE e.suborgs = 0
    <3>1. DOMAIN OrgAt(e.suborgs).suborgs = 1..0
      BY <2>2 DEF OrgAt
    <3> QED
      BY <2>1, <3>1
  <2>3. CASE e.suborgs # 0
    <3>1. OrgAt(e.suborgs) = OrgVersions[e.suborgs] /\ e.suborgs \in DOMAIN OrgVersions
      BY <1>1, <2>3, FilesAssumption, OrgLayerAssumption DEF OrgAt, Versions, FilesAssumption
    <3> QED
      BY <2>1, <3>1, FilesAssumption DEF FilesAssumption
  <2> QED
    BY <2>2, <2>3
<1>3. \A u \in DOMAIN RepoVersions[t] :
        ResolutionOf(r, u) = ResolveFor({layer}, Own(t, u), Context(t))
  BY <1>1 DEF ResolutionOf, Resolved
<1> HIDE DEF layer
<1>4. \A repo, rc : ResolveFor({layer}, repo, rc).settings
                      = Resolve(Layers(layer, repo, rc)).settings
  <2> SUFFICES ASSUME NEW repo, NEW rc
               PROVE  ResolveFor({layer}, repo, rc).settings
                        = Resolve(Layers(layer, repo, rc)).settings
    OBVIOUS
  <2>1. PICK violations : ResolveFor({layer}, repo, rc) =
           [settings |-> Resolve(Layers(layer, repo, rc)).settings,
            provenance |-> Resolve(Layers(layer, repo, rc)).provenance,
            violations |-> violations]
    BY SettingsOf
  <2> QED
    BY <2>1
<1>5. \A u \in DOMAIN RepoVersions[t] :
        ResolutionOf(r, u).settings = Resolve(Layers(layer, Own(t, u), Context(t))).settings
  BY <1>3, <1>4
<1> QED
  BY <1>2, <1>5

\* Where nothing governs, the repository's own settings are applied.
LEMMA OwnSettings ==
    ASSUME NEW r, entryOf[r] = 0, NEW v
    PROVE  ResolutionOf(r, v).settings = Own(mine[r].repo, v)
  BY DEF ResolutionOf, ResolveFor, RepoOnly

\* Two versions of a run's repository that agree on a section resolve to the
\* same, governed or not.
LEMMA ResolutionsAgree ==
    ASSUME IInv, NEW r \in Runs, mine[r].repo \in Repos,
           NEW v \in DOMAIN RepoVersions[mine[r].repo],
           NEW w \in DOMAIN RepoVersions[mine[r].repo],
           NEW k, Agree(Own(mine[r].repo, v), Own(mine[r].repo, w), k)
    PROVE  Agree(ResolutionOf(r, v).settings, ResolutionOf(r, w).settings, k)
<1>1. CASE entryOf[r] = 0
  BY <1>1, OwnSettings
<1>2. CASE entryOf[r] # 0
  <2>1. PICK layer :
          /\ \E n \in Nat : DOMAIN layer.suborgs = 1..n
          /\ \A u \in DOMAIN RepoVersions[mine[r].repo] :
               ResolutionOf(r, u).settings =
                 Resolve(Layers(layer, Own(mine[r].repo, u), Context(mine[r].repo))).settings
    BY <1>2, OneLayer
  <2> QED
    BY <2>1, LayersAgree
<1> QED
  BY <1>1, <1>2

\* A part written over settings that agree with the whole on the rest, and cut
\* to its sections, yields the whole.
LEMMA PartOverRest ==
    ASSUME NEW all, all = [k \in DOMAIN all |-> all[k]], NEW before, NEW keys,
           \A k \in DOMAIN all \ keys : Agree(all, before, k)
    PROVE  Only(Overlay(Only(all, keys), before), DOMAIN all) = all
<1>1. /\ DOMAIN Only(all, keys) = DOMAIN all \cap keys
      /\ \A k \in DOMAIN all \cap keys : Only(all, keys)[k] = all[k]
  BY DEF Only, Restrict
<1> DEFINE over == Overlay(Only(all, keys), before)
<1>2. DOMAIN all \subseteq DOMAIN over
  BY <1>1 DEF Overlay, Agree
<1>3. \A k \in DOMAIN all : over[k] = all[k]
  BY <1>1 DEF Overlay, Agree
<1>4. Only(over, DOMAIN all) = [k \in DOMAIN over \cap DOMAIN all |-> over[k]]
  BY DEF Only, Restrict
<1> HIDE DEF over
<1>5. Only(over, DOMAIN all) = all
  BY <1>2, <1>3, <1>4
<1> QED
  BY <1>5 DEF over

\* Settings are functions from sections.
LEMMA ResolutionType ==
    ASSUME IInv, NEW r \in Runs, mine[r].repo \in Repos,
           NEW v \in DOMAIN RepoVersions[mine[r].repo]
    PROVE  LET all == ResolutionOf(r, v).settings IN all = [k \in DOMAIN all |-> all[k]]
<1>1. CASE entryOf[r] = 0
  <2>1. \A files : LET sets == loadSettingsDir(files).sets
                   IN  sets = [k \in DOMAIN sets |-> sets[k]]
    BY DEF loadSettingsDir
  <2> QED
    BY <1>1, <2>1, OwnSettings DEF Own
<1>2. CASE entryOf[r] # 0
  <2>1. PICK layer : ResolutionOf(r, v).settings =
           Resolve(Layers(layer, Own(mine[r].repo, v), Context(mine[r].repo))).settings
    BY <1>2, OneLayer
  <2>2. \A layers : LET sets == Resolve(layers).settings
                    IN  sets = [k \in DOMAIN sets |-> sets[k]]
    BY DEF Resolve
  <2> QED
    BY <2>1, <2>2
<1> QED
  BY <1>1, <1>2

(***************************************************************************)
(* A run narrowed to the files that changed since a version leaves the     *)
(* repository as a run of everything would have, whatever the layers, the  *)
(* files and the versions (selective.go:7-23, resolution.go:60-74).        *)
(***************************************************************************)
THEOREM NarrowingLosesNothing == Spec => []NarrowRunIsEnough
<1>1. ASSUME IInv, NarrowInv, NEW r \in Runs, pc[r] = "applied", basis[r] # 0
      PROVE  Only(Overlay(Narrowed(r, basis[r]).settings, ResolutionOf(r, basis[r]).settings),
                  DOMAIN Resolution(r).settings) = Resolution(r).settings
  <2> DEFINE t == mine[r].repo
             v == mine[r].version
             w == basis[r]
             changed == Changed(t, w, v)
             all == Resolution(r).settings
             before == ResolutionOf(r, w).settings
  <2>1. /\ t \in Repos /\ v \in DOMAIN RepoVersions[t] /\ w \in DOMAIN RepoVersions[t]
        /\ changed # {}
    BY <1>1 DEF NarrowInv
  <2>2. /\ IsDirectory(Files(t, v)) /\ IsDirectory(Files(t, w))
        /\ DOMAIN Files(t, v) = DOMAIN Files(t, w)
    BY <2>1, FilesAssumption DEF FilesAssumption, Files, Repos
  <2>3. changed \subseteq FileNames
    BY <2>2 DEF Changed, IsDirectory
  <2>4. ASSUME NEW k, k \notin AffectedKeys(changed) PROVE Agree(all, before, k)
    <3>1. FileOf(k) \notin changed
      BY <2>1, <2>3, <2>4, FilesAreCovered
    <3>2. Agree(Own(t, v), Own(t, w), k)
      BY <2>2, <3>1, UnchangedSection DEF Own, Changed
    <3> QED
      BY <1>1, <2>1, <3>2, ResolutionsAgree DEF Resolution
  <2>5. Narrowed(r, w).settings = Only(all, AffectedKeys(changed))
    BY <1>1, <2>1 DEF Narrowed, Filtering, Filter
  <2>6. all = [k \in DOMAIN all |-> all[k]]
    BY <1>1, <2>1, ResolutionType DEF Resolution
  <2> HIDE DEF all, before, changed
  <2>7. Only(Overlay(Only(all, AffectedKeys(changed)), before), DOMAIN all) = all
    BY <2>4, <2>6, PartOverRest
  <2> QED
    BY <2>5, <2>7 DEF all, before, changed
<1>2. IInv /\ NarrowInv => NarrowRunIsEnough
  BY <1>1 DEF NarrowRunIsEnough
<1>3. Init => NarrowInv
  BY DEF Init, NarrowInv
<1> QED
  BY <1>2, <1>3, StepNarrow, Invariant, PTL DEF Spec
=============================================================================
