------------------------------ MODULE OrgLayer ------------------------------
(***************************************************************************)
(* The organization's layer over a repository's own settings: the admin    *)
(* repository, the cache that reads it for everybody (config.AdminCache),  *)
(* and runs that resolve, are judged by the policy, and apply.             *)
(*                                                                         *)
(* The admin repository is read in four steps, each at the head of its     *)
(* default branch, while people push to it; the App may lack access to it, *)
(* in which case every file looks absent.  Callers share a load through a  *)
(* Once.  Time is counted in ticks; a step takes none.                     *)
(***************************************************************************)
EXTENDS Settings

CONSTANTS Runs,          \* the runs, each made once, for any repository
          Admin,         \* the name of the admin repository
          OrgVersions,   \* what the admin repository holds, push by push
          RepoVersions,  \* repository -> the versions of its settings files
          TTL,           \* how long a layer is reused
          MaxTime,       \* bound on the clock
          MaxFaults,     \* bound: reads that fail, changes of access
          StableAccess   \* whether access lasts through a load once checked

ASSUME OrgLayerAssumption ==
    /\ TTL \in Nat /\ MaxTime \in Nat /\ MaxFaults \in Nat
    /\ Len(OrgVersions) \in Nat \ {0} /\ StableAccess \in BOOLEAN

\* Every version of a repository says of the same files what they hold, be it
\* that they are absent; pushes and the index of suborgs are lists.
ASSUME FilesAssumption ==
    /\ \A t \in DOMAIN RepoVersions : \A v, w \in DOMAIN RepoVersions[t] :
          /\ IsDirectory(RepoVersions[t][v])
          /\ DOMAIN RepoVersions[t][v] = DOMAIN RepoVersions[t][w]
    /\ DOMAIN OrgVersions = 1..Len(OrgVersions)
    /\ \A v \in DOMAIN OrgVersions :
          LET index == OrgVersions[v].suborgs IN
          Len(index) \in Nat /\ DOMAIN index = 1..Len(index)

VARIABLES now,
          org,           \* the version at the head of the admin repository
          access,        \* whether the App can read the admin repository
          since,         \* org version -> when it was pushed
          cached,        \* the cache's entry, 0 if it has none
          entries,       \* every entry ever made
          pc,            \* run -> where it is
          entryOf,       \* run -> the entry it looked up, 0 for none
          asked,         \* run -> when it looked it up
          mine,          \* run -> its repository and the version it loaded
          basis,         \* run -> the version its list of changes starts from
          faults

cache == <<cached, entries>>
runs == <<pc, entryOf, asked, mine, basis>>
vars == <<now, org, access, since, cache, runs, faults>>

Repos == DOMAIN RepoVersions

Init ==
    /\ now = 0 /\ org = 1 /\ access = TRUE /\ since = <<0>>
    /\ cached = 0 /\ entries = <<>>
    /\ pc = [r \in Runs |-> "idle"] /\ entryOf = [r \in Runs |-> 0]
    /\ asked = [r \in Runs |-> 0] /\ mine = [r \in Runs |-> [repo |-> Admin, version |-> 0]]
    /\ basis = [r \in Runs |-> 0] /\ faults = 0

(*------------------------------- the loader ------------------------------*)

Files(t, v) == RepoVersions[t][v]

\* The files that differ between two versions of a repository.
Changed(t, v, w) ==
    {f \in DOMAIN Files(t, v) : Files(t, v)[f] # Files(t, w)[f]}

\* An entry names the version each part of its layer was read from.
NewEntry == [fetched |-> now, state |-> "new", settings |-> 0, policy |-> 0,
             suborgs |-> 0, policyAt |-> 0]

Expired == cached # 0 /\ now - entries[cached].fetched > TTL

\* The admin repository is not governed by itself.
adminRepoFor(t) == IF t = Admin THEN {} ELSE {Admin}

\* Mutant: an entry lives on for as long as it is asked for.
LookupKeeps(r) ==
    /\ IF cached = 0
       THEN entries' = Append(entries, NewEntry) /\ cached' = Len(entries')
       ELSE UNCHANGED cache
    /\ entryOf' = [entryOf EXCEPT ![r] = cached']

\* For, under the mutex: take the entry, or make one stamped with the clock.
Lookup(r) ==
    /\ IF cached = 0 \/ Expired
       THEN entries' = Append(entries, NewEntry) /\ cached' = Len(entries')
       ELSE UNCHANGED cache
    /\ entryOf' = [entryOf EXCEPT ![r] = cached']

\* A run is of any version, since a request may name its ref.  The repository's
\* own files come first, and a run whose files are bad ends here; then the layer
\* is asked for.
Start(r) ==
    /\ pc[r] = "idle"
    /\ \E t \in Repos : \E v \in DOMAIN RepoVersions[t] :
          /\ mine' = [mine EXCEPT ![r] = [repo |-> t, version |-> v]]
          /\ IF ~loadSettingsDir(Files(t, v)).ok
             THEN pc' = [pc EXCEPT ![r] = "refused"] /\ UNCHANGED <<cache, entryOf>>
             ELSE IF adminRepoFor(t) = {}
             THEN pc' = [pc EXCEPT ![r] = "alone"] /\ UNCHANGED <<cache, entryOf>>
             ELSE pc' = [pc EXCEPT ![r] = "waiting"] /\ Lookup(r)
    /\ asked' = [asked EXCEPT ![r] = now]
    /\ UNCHANGED <<now, org, access, since, basis, faults>>

\* The first to reach the Once loads; the others wait until it is done.
Begin(r) ==
    /\ pc[r] = "waiting" /\ entries[entryOf[r]].state = "new"
    /\ pc' = [pc EXCEPT ![r] = "loading"]
    /\ entries' = [entries EXCEPT ![entryOf[r]].state = "check"]
    /\ UNCHANGED <<now, org, access, since, cached, entryOf, asked, mine,
                   basis, faults>>

\* What a read sees: the head, or no file at all where there is no access.
AdminHead == IF access THEN org ELSE 0

OrgAt(v) == IF v = 0 THEN [files |-> <<>>, policy |-> [kind |-> "absent"], suborgs |-> <<>>]
            ELSE OrgVersions[v]

\* An absent policy constrains nothing; an empty or broken one is an error.
loadAdminPolicy(v) ==
    LET c == OrgAt(v).policy IN
    [ok     |-> c.kind \in {"absent", "body"},
     policy |-> IF c.kind = "body" THEN c.body ELSE NoSettings]

\* The index and each tier's files; names are single, distinct path segments.
loadSuborgs(v) ==
    LET index == OrgAt(v).suborgs
        tier(i) == loadSettingsDir(index[i].files)
    IN  [ok  |-> \A i \in DOMAIN index :
                    /\ index[i].name \notin BadNames
                    /\ \A j \in DOMAIN index : index[j].name = index[i].name => j = i
                    /\ tier(i).ok,
         sub |-> [i \in DOMAIN index |->
                     [name |-> index[i].name, match |-> index[i].match,
                      settings |-> tier(i).sets]]]

\* The next read of the load, in their order.
Loads(r, state, next) ==
    /\ pc[r] = "loading" /\ entries[entryOf[r]].state = state
    /\ entries' = [entries EXCEPT ![entryOf[r]] = next]
    /\ UNCHANGED <<now, org, access, since, cached, runs, faults>>

\* Mutant: the repository itself is not looked at.
CheckNothing(r) == Loads(r, "check", [entries[entryOf[r]] EXCEPT !.state = "settings"])

\* Access to the repository itself is checked, so that having none is an error.
CheckRepository(r) ==
    /\ access
    /\ Loads(r, "check", [entries[entryOf[r]] EXCEPT !.state = "settings"])

ReadSettings(r) ==
    /\ loadSettingsDir(OrgAt(AdminHead).files).ok
    /\ Loads(r, "settings",
             [entries[entryOf[r]] EXCEPT !.state = "policy", !.settings = AdminHead])

ReadPolicy(r) ==
    /\ loadAdminPolicy(AdminHead).ok
    /\ Loads(r, "policy",
             [entries[entryOf[r]] EXCEPT !.state = "suborgs", !.policy = AdminHead,
                                         !.policyAt = now])

ReadSuborgs(r) ==
    /\ loadSuborgs(AdminHead).ok
    /\ Loads(r, "suborgs",
             [entries[entryOf[r]] EXCEPT !.state = "done", !.suborgs = AdminHead])

\* Mutant: a failed load drops whatever entry is cached.
DropAny(r) ==
    /\ entries' = [entries EXCEPT ![entryOf[r]] =
                      [NewEntry EXCEPT !.fetched = entries[entryOf[r]].fetched,
                                       !.state = "failed"]]
    /\ cached' = 0

\* Mutant: a failed load stays cached.
DropNothing(r) ==
    /\ entries' = [entries EXCEPT ![entryOf[r]] =
                      [NewEntry EXCEPT !.fetched = entries[entryOf[r]].fetched,
                                       !.state = "failed"]]
    /\ UNCHANGED cached

\* A file that does not parse, a read that fails, a context that is done: the
\* entry is dropped so that the next caller tries again, and has no layer.
Drop(r) ==
    /\ entries' = [entries EXCEPT ![entryOf[r]] =
                      [NewEntry EXCEPT !.fetched = entries[entryOf[r]].fetched,
                                       !.state = "failed"]]
    /\ cached' = IF cached = entryOf[r] THEN 0 ELSE cached

LoadFails(r) ==
    /\ pc[r] = "loading"
    /\ \/ entries[entryOf[r]].state = "check" /\ ~access /\ UNCHANGED faults
       \/ entries[entryOf[r]].state = "settings" /\ ~loadSettingsDir(OrgAt(AdminHead).files).ok
          /\ UNCHANGED faults
       \/ entries[entryOf[r]].state = "policy" /\ ~loadAdminPolicy(AdminHead).ok /\ UNCHANGED faults
       \/ entries[entryOf[r]].state = "suborgs" /\ ~loadSuborgs(AdminHead).ok /\ UNCHANGED faults
       \/ /\ entries[entryOf[r]].state \in {"check", "settings", "policy", "suborgs"}
          /\ faults < MaxFaults /\ faults' = faults + 1
    /\ Drop(r)
    /\ UNCHANGED <<now, org, access, since, runs>>

(*--------------------------------- the run -------------------------------*)

\* main supplies the repository's name and nothing else to match by.
Context(t) == [repo |-> t, teams |-> {}, properties |-> NoSettings]

Own(t, v) == loadSettingsDir(Files(t, v)).sets

Versions == 0..Len(OrgVersions)

\* What a repository's version resolves to under a layer whose parts are of
\* these versions, and under none.
Resolved ==
    [t \in Repos |-> [v \in DOMAIN RepoVersions[t] |->
        [parts \in Versions \X Versions \X Versions |->
            ResolveFor({[settings |-> loadSettingsDir(OrgAt(parts[1]).files).sets,
                         policy   |-> loadAdminPolicy(parts[2]).policy,
                         suborgs  |-> loadSuborgs(parts[3]).sub]},
                       Own(t, v), Context(t))]]]

\* What version v of the run's repository resolves to under the run's layer.
ResolutionOf(r, v) ==
    LET e == entries[entryOf[r]] IN
    IF entryOf[r] = 0 THEN ResolveFor({}, Own(mine[r].repo, v), Context(mine[r].repo))
    ELSE Resolved[mine[r].repo][v][e.settings, e.policy, e.suborgs]

Resolution(r) == ResolutionOf(r, mine[r].version)

\* A request with a list of files is narrowed to the sections they hold.
Narrowed(r, w) ==
    IF w = 0 THEN Resolution(r)
    ELSE Filtering(Resolution(r), AffectedKeys(Changed(mine[r].repo, w, mine[r].version)))

\* The loader and those who waited get what the entry holds, however old it is
\* by now; an ungoverned run has none to wait for.
Answer(r) == IF pc[r] = "alone" THEN "done"
             ELSE IF pc[r] \in {"waiting", "loading"} THEN entries[entryOf[r]].state
             ELSE "none"

\* No layer, or a violation in any section: nothing is applied.
Refuse(r) ==
    /\ \/ Answer(r) = "failed"
       \/ Answer(r) = "done" /\ Resolution(r).violations # {}
    /\ pc' = [pc EXCEPT ![r] = "refused"]
    /\ UNCHANGED <<now, org, access, since, cache, entryOf, asked, mine, basis, faults>>

\* The settings go to GitHub; the request may say which files changed since an
\* earlier version, and then only their sections go.
Apply(r) ==
    /\ Answer(r) = "done"
    /\ \E w \in {0} \cup DOMAIN RepoVersions[mine[r].repo] :
          /\ w # 0 => Changed(mine[r].repo, w, mine[r].version) # {}
          /\ Narrowed(r, w).violations = {}
          /\ basis' = [basis EXCEPT ![r] = w]
    /\ pc' = [pc EXCEPT ![r] = "applied"]
    /\ UNCHANGED <<now, org, access, since, cache, entryOf, asked, mine, faults>>

(*------------------------------ the environment --------------------------*)

PushOrg ==
    /\ org < Len(OrgVersions)
    /\ org' = org + 1 /\ since' = Append(since, now)
    /\ UNCHANGED <<now, access, cache, runs, faults>>

\* The App loses access to the admin repository, or is given it again.
AccessChanges ==
    /\ StableAccess => \A i \in DOMAIN entries :
                          entries[i].state \notin {"settings", "policy", "suborgs"}
    /\ access' = ~access
    /\ faults < MaxFaults /\ faults' = faults + 1
    /\ UNCHANGED <<now, org, since, cache, runs>>

Tick ==
    /\ now < MaxTime /\ now' = now + 1
    /\ UNCHANGED <<org, access, since, cache, runs, faults>>

RunStep(r) ==
    \/ Start(r) \/ Begin(r)
    \/ CheckRepository(r) \/ ReadSettings(r) \/ ReadPolicy(r) \/ ReadSuborgs(r)
    \/ LoadFails(r) \/ Refuse(r) \/ Apply(r)

Next ==
    \/ \E r \in Runs : RunStep(r)
    \/ PushOrg \/ AccessChanges \/ Tick

Spec == Init /\ [][Next]_vars

(*------------------------------- properties ------------------------------*)

Stages == {"new", "check", "settings", "policy", "suborgs", "done", "failed"}

TypeOK ==
    /\ now \in 0..MaxTime /\ cached \in 0..Len(entries)
    /\ \A i \in DOMAIN entries :
          /\ {entries[i].fetched, entries[i].policyAt} \subseteq 0..now
          /\ entries[i].state \in Stages
          /\ {entries[i].settings, entries[i].policy, entries[i].suborgs} \subseteq 0..org
    /\ \A r \in Runs : /\ entryOf[r] \in 0..Len(entries) /\ asked[r] \in 0..now
                       /\ pc[r] \in {"waiting", "loading"} => entryOf[r] # 0

EntryIs(r, state) == entryOf[r] # 0 /\ entries[entryOf[r]].state = state

\* A run is judged by a policy that was read at most TTL before the run asked
\* for it, however long the load took and whoever made it.
FreshPolicy ==
    \A r \in Runs : pc[r] \in {"refused", "applied"} /\ EntryIs(r, "done") =>
        entries[entryOf[r]].policyAt + TTL >= asked[r]

\* While reads succeed the admin repository is read once per TTL: two loads
\* either start more than TTL apart or the older one failed.  A load that fails
\* late must not drop the entry that has replaced its own.
OneLoadPerTTL ==
    \A i, j \in DOMAIN entries :
        i < j => \/ entries[i].state = "failed"
                 \/ entries[j].fetched - entries[i].fetched > TTL

\* A run that asks after a load failed is not given that failure.
ErrorsNotCached ==
    [][\A r \in Runs : entryOf'[r] # entryOf[r] => entries'[entryOf'[r]].state # "failed"]_vars

\* What a policy in force at some moment between TTL before the run asked and
\* now says of the repository's files and the sections they are merged into.
Allowed(r) ==
    \E v \in 1..org :
        /\ v < org => since[v + 1] + TTL >= asked[r]
        /\ loadAdminPolicy(v).ok
        /\ ValidatePolicy(Resolution(r).settings,
                          Own(mine[r].repo, mine[r].version),
                          loadAdminPolicy(v).policy) = {}

\* Nothing is applied to a governed repository that no recent policy allows:
\* a failed or narrowed run, and a repository the App cannot read, never
\* switch the policy off.
PolicyHolds ==
    \A r \in Runs : pc[r] = "applied" /\ mine[r].repo # Admin => Allowed(r)

\* A run narrowed to the files that changed since a version leaves the
\* repository as a run of everything would have: laid over what that version
\* resolved to under the same layer, it yields the whole resolution, including
\* what falls back to another layer.
NarrowRunIsEnough ==
    \A r \in Runs :
        LET before == ResolutionOf(r, basis[r]).settings
            all    == Resolution(r).settings
        IN  pc[r] = "applied" /\ basis[r] # 0 =>
                Only(Overlay(Narrowed(r, basis[r]).settings, before), DOMAIN all) = all
=============================================================================
