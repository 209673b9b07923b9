------------------------------ MODULE LaneRuns -----------------------------
(***************************************************************************)
(* One lane of one repository over many runs: the read, the plan, the      *)
(* calls that carry the plan out, and the report; people editing the       *)
(* repository, calls that fail before or after they took effect, a hung-up *)
(* context, a process that dies, and the batch record of the cron worker.  *)
(*                                                                         *)
(* The entries of one plan are carried out by concurrent workers, so their *)
(* calls interleave; the calls of one entry keep their order.  At most one *)
(* run of a repository is active (module Reconcile).                       *)
(***************************************************************************)
EXTENDS LaneCalls, Validation

CONSTANTS Configs,     \* lane -> the configurations of its section
          Stores,      \* lane -> the states GitHub may start in
          Edits,       \* lane -> the items people may write by hand
          MaxFaults,   \* bound: calls that fail, hang-ups and crashes
          MaxEdits     \* bound: edits by people

ASSUME LaneRunsAssumption ==
    /\ DOMAIN Configs \subseteq LaneNames
    /\ MaxFaults \in Nat /\ MaxEdits \in Nat

\* Lanes whose items a repository always has.
FixedLanes == {"repository", "actions", "security", "custom_properties"}

\* An item of GitHub's; a repository's topics come with their names.
IsItem(l, w) ==
    /\ DOMAIN w = {"key", "doc"}
    /\ l = "repository" /\ w.key = "topics" => "names" \in DOMAIN w.doc

\* What the schema can decode; what GitHub lists has unique keys, but for the
\* titles of deploy keys.
ASSUME ItemsAssumption ==
    \A l \in DOMAIN Configs :
        /\ \A c \in Configs[l] :
             /\ l # "deploy_keys" => \A k \in DOMAIN c : DOMAIN c[k] \subseteq JSONFields(l, c[k])
             /\ l = "repository" => /\ DOMAIN c \subseteq {"repository", "topics"}
                                    /\ "topics" \in DOMAIN c => DOMAIN c["topics"] = {"names"}
             /\ l \in FixedLanes => \A g \in Stores[l], k \in DOMAIN c : WithKey(g, k) # {}
        /\ \A g \in Stores[l] :
             /\ Len(g) \in Nat /\ DOMAIN g = 1..Len(g)
             /\ \A i \in DOMAIN g : IsItem(l, g[i])
             /\ l # "deploy_keys" => \A i, j \in DOMAIN g : g[i].key = g[j].key => i = j
        /\ \A e \in Edits[l] : IsItem(l, e)

\* The members of an environment's branch policy.
BranchPolicy == {"deployment_branch_policy.protected_branches",
                 "deployment_branch_policy.custom_branch_policies"}

\* A protection record tells its signatures and nothing the program does not
\* know; the ids of an environment's reviewers are numbers.
Legible(l, doc) ==
    /\ l = "branches" => "required_signatures" \in DOMAIN doc /\ DOMAIN doc \subseteq BranchProtection
    /\ l = "environments" /\ "reviewers" \in DOMAIN doc => doc["reviewers"] \subseteq NumericIds

ASSUME LegibleAssumption ==
    \A l \in DOMAIN Configs :
        /\ \A g \in Stores[l] : \A i \in DOMAIN g : Legible(l, g[i].doc)
        /\ \A e \in Edits[l] : Legible(l, e.doc)

\* The types of the schema: a flag is a Boolean, a sub-object is there or is
\* not, and has members only if it is there.
\* A protection record nobody has written has no more than its signatures.
ASSUME SchemaAssumption ==
    /\ \A l \in DOMAIN Configs : \A c \in Configs[l] : \A k \in DOMAIN c : \A p \in DOMAIN c[k] :
          /\ l = "repository" /\ k = "repository" => p \in RepoConfig
          /\ (\/ l = "security"
              \/ l = "webhooks" /\ p = "insecure_ssl"
              \/ l = "branches" /\ p \in BranchFlags) => c[k][p] \in BOOLEAN
          /\ l = "branches" /\ p \in Containers => c[k][p] \in {"on", "off"}
          /\ l = "environments" /\ p \in BranchPolicy \cup {"deployment_branch_policy"} =>
               "deployment_branch_policy" \in DOMAIN c[k] /\ c[k]["deployment_branch_policy"] = "on"
    /\ "branches" \in DOMAIN Configs => DOMAIN Defaults["branches"] = {"required_signatures"}

VARIABLES lane, cfg,   \* the lane under test and its declared section
          github,      \* the repository's items, by id
          batch,       \* the batch record waiting for its run, as a set
          phase,       \* "idle" or "applying"
          plan,        \* the current run's entries, by key
          todo,        \* the calls left of each entry being carried out
          result,      \* the outcome of each such entry, "none" before
          before,      \* GitHub's items when the plan was made
          disturbed,   \* somebody else interfered with the current run
          quiet,       \* undisturbed runs completed in a row, up to 2
          faults, edits

vars == <<lane, cfg, github, batch, phase, plan, todo, result, before,
          disturbed, quiet, faults, edits>>

run == <<phase, plan, todo, result, before>>

none == [p \in {} |-> 0]

\* The settings file a lane's section was loaded from, and what it said.
Section(l) == IF l = "repository" THEN "repo" ELSE l

FileOf(l, c) ==
    CASE l = "repository" ->
            [k \in {IF x = "topics" THEN x ELSE "repo" : x \in DOMAIN c} |->
                IF k = "topics" THEN c[k]["names"] ELSE c["repository"]]
      [] l \in {"actions", "security", "pages", "custom_properties"} -> c[l]
      [] OTHER -> c

Init ==
    /\ lane \in DOMAIN Configs
    /\ cfg \in Configs[lane] /\ Accepted(Section(lane), FileOf(lane, cfg))
    /\ github \in Stores[lane]
    /\ batch = {} /\ phase = "idle"
    /\ plan = none /\ todo = none /\ result = none /\ before = none
    /\ disturbed = FALSE /\ quiet = 0 /\ faults = 0 /\ edits = 0

\* The cron worker reads a batch of repositories before it starts on any.
Prefetch ==
    /\ lane = "repository" /\ phase = "idle" /\ batch = {}
    /\ LET names == IndexBy(github)["topics"].doc["names"] IN
       \E page \in SUBSET names :
          /\ IF Cardinality(names) <= TopicsPage THEN page = names
             ELSE Cardinality(page) = TopicsPage
          /\ batch' = {FetchBatchChunk(github, page)}
    /\ UNCHANGED <<lane, cfg, github, run, disturbed, quiet, faults, edits>>

\* Live state as a run sees it: from the batch record if it has one that can
\* answer for everything declared, else from GitHub.
Seen(records) ==
    LET desired == Desired(lane, cfg) IN
    IF \E p \in records : usablePrefetch(p, desired)
    THEN liveRepoFrom(CHOOSE p \in records : TRUE, desired)
    ELSE Live(lane, cfg, github)

PlanFrom(live) == NamedList(live, Desired(lane, cfg))

\* A run reads live state, makes its plan and hands out the entries.  The
\* cron worker's run has the batch record; one triggered meanwhile has not.
Fetch(records) ==
    /\ phase = "idle"
    /\ phase' = "applying"
    /\ plan' = PlanFrom(Seen(records))
    /\ todo' = [k \in Actionable(plan') |-> Mutate(lane, k, plan'[k], cfg)]
    /\ result' = [k \in Actionable(plan') |->
                     IF Pending(lane, k, plan'[k], cfg) THEN "pending" ELSE "none"]
    /\ before' = github
    /\ disturbed' = (\E p \in records : p.of # github)
    /\ batch' = batch \ records
    /\ UNCHANGED <<lane, cfg, github, quiet, faults, edits>>

Fresh == 1 + (CHOOSE n \in {0} \cup DOMAIN github \cup {plan[k].id : k \in DOMAIN plan} :
                 \A m \in {0} \cup DOMAIN github \cup {plan[k].id : k \in DOMAIN plan} :
                    m <= n)

\* The repository lane writes the settings before the topics; the entries of
\* a list have no order.
MayGo(k) ==
    /\ k \in DOMAIN todo /\ result[k] = "none"
    /\ (k = "topics" /\ "repository" \in DOMAIN result) => result["repository"] # "none"

\* The entry's next call is answered: carried out, or refused, which ends it.
Send(k) ==
    /\ MayGo(k)
    /\ LET c == Head(todo[k]) IN
       IF Accepts(lane, github, c)
       THEN /\ github' = Apply(lane, github, c, Fresh)
            /\ todo' = [todo EXCEPT ![k] = Tail(@)]
            /\ result' = [result EXCEPT ![k] = IF Len(todo[k]) = 1 THEN "ok" ELSE @]
       ELSE /\ result' = [result EXCEPT ![k] = "failed"]
            /\ UNCHANGED <<github, todo>>
    /\ UNCHANGED <<lane, cfg, batch, phase, plan, before, disturbed, quiet, faults, edits>>

\* The call fails on the way there, or its answer is lost on the way back.
CallFails(k) ==
    /\ MayGo(k) /\ faults < MaxFaults
    /\ LET c == Head(todo[k]) IN
       \/ github' = github
       \/ Accepts(lane, github, c) /\ github' = Apply(lane, github, c, Fresh)
    /\ result' = [result EXCEPT ![k] = "failed"]
    /\ disturbed' = TRUE /\ faults' = faults + 1
    /\ UNCHANGED <<lane, cfg, batch, phase, plan, todo, before, quiet, edits>>

\* The context is cancelled: what was not sent never is, and is reported so.
HangUp ==
    /\ phase = "applying" /\ faults < MaxFaults
    /\ \E k \in DOMAIN result : result[k] = "none"
    /\ result' = [k \in DOMAIN result |->
                     IF result[k] = "none" THEN "failed" ELSE result[k]]
    /\ disturbed' = TRUE /\ faults' = faults + 1
    /\ UNCHANGED <<lane, cfg, github, batch, phase, plan, todo, before, quiet, edits>>

Decided == phase = "applying" /\ \A k \in DOMAIN result : result[k] # "none"

EndRun == /\ phase' = "idle" /\ plan' = none /\ todo' = none
          /\ result' = none /\ before' = none /\ disturbed' = FALSE

\* GitHub's ids matter by their order alone: between runs they are numbered
\* anew, which keeps the instance finite.
Renumbered ==
    LET rank(i) == Cardinality({j \in DOMAIN github : j <= i}) IN
    [n \in 1..Cardinality(DOMAIN github) |->
        github[CHOOSE i \in DOMAIN github : rank(i) = n]]

Report ==
    /\ Decided
    /\ quiet' = IF disturbed THEN 0 ELSE IF quiet < 2 THEN quiet + 1 ELSE 2
    /\ github' = Renumbered
    /\ EndRun
    /\ UNCHANGED <<lane, cfg, batch, faults, edits>>

\* The process dies in the middle of a run; nothing is persisted.
Crash ==
    /\ phase = "applying" /\ faults < MaxFaults
    /\ quiet' = 0 /\ faults' = faults + 1 /\ batch' = {}
    /\ EndRun
    /\ UNCHANGED <<lane, cfg, github, edits>>

\* People delete an item, write one by hand, or a new one appears.
Edit ==
    /\ edits < MaxEdits
    /\ \/ /\ lane \in ListingLanes \cup {"branches", "pages"}
          /\ \E i \in DOMAIN github : github' = Restrict(github, DOMAIN github \ {i})
       \/ \E e \in Edits[lane] :
             github' = [i \in DOMAIN github \cup
                              (IF WithKey(github, e.key) = {} THEN {Fresh} ELSE {}) |->
                          IF i \notin DOMAIN github \/ i \in WithKey(github, e.key)
                          THEN e ELSE github[i]]
    /\ github' # github
    /\ edits' = edits + 1 /\ quiet' = 0 /\ disturbed' = (phase = "applying")
    /\ UNCHANGED <<lane, cfg, batch, run, faults>>

Step == Fetch({}) \/ Fetch(batch) \/ Report \/ \E k \in DOMAIN todo : Send(k)

Next ==
    \/ Step
    \/ Prefetch
    \/ \E k \in DOMAIN todo : CallFails(k)
    \/ HangUp
    \/ Crash
    \/ Edit

(*----------------------------- properties --------------------------------*)

\* Every state is of the shape the actions suppose: a run's outcomes are of
\* entries of its plan, and each counter is within its bound.
TypeOK ==
    /\ lane \in DOMAIN Configs /\ cfg \in Configs[lane]
    /\ \A i \in DOMAIN github : i \in Nat \ {0} /\ DOMAIN github[i] = {"key", "doc"}
    /\ \A k \in DOMAIN cfg : lane # "deploy_keys" => DOMAIN cfg[k] \subseteq JSONFields(lane, cfg[k])
    /\ phase \in {"idle", "applying"}
    /\ DOMAIN todo = DOMAIN result /\ DOMAIN result \subseteq DOMAIN plan
    /\ \A k \in DOMAIN plan : plan[k].action \in {"create", "update", "delete", "noop"}
    /\ \A k \in DOMAIN result : result[k] \in {"none", "ok", "failed", "pending"}
    /\ Cardinality(batch) <= 1 /\ quiet \in 0..2
    /\ faults \in 0..MaxFaults /\ edits \in 0..MaxEdits

\* A fresh read finds nothing to do but what waits for a person.
Settled ==
    LET p == PlanFrom(Live(lane, cfg, github)) IN
    \A k \in Actionable(p) : Pending(lane, k, p[k], cfg)

\* Creating Pages takes neither domain nor HTTPS setting, and a renamed deploy
\* key cannot be created while the old one holds its material.
RunsToSettle == IF lane \in {"pages", "deploy_keys"} THEN 2 ELSE 1

\* After that many undisturbed runs the repository is as declared and the next
\* plan is empty: no lane rewrites its settings on every run.
Settles == phase = "idle" /\ quiet >= RunsToSettle => Settled

\* A run nobody disturbs fails nothing: the order of the calls is one GitHub
\* accepts.
UndisturbedSucceeds ==
    Decided /\ ~disturbed /\ lane # "deploy_keys" =>
        \A k \in DOMAIN result : result[k] # "failed"

\* A declared item that a run deleted, to create it anew, and that is missing
\* at its end is reported as failed, never as applied.
MissingIsReported ==
    Decided /\ edits = 0 =>
        \A k \in DOMAIN result :
            (result[k] = "ok" /\ k \in DOMAIN cfg) => WithKey(github, k) # {}

\* The fields a call for an item replaces as a whole.
Replaced ==
    CASE lane = "branches" -> BranchProtection \ {"required_signatures"}
      [] lane = "environments" -> Environment
      [] lane = "autolinks" -> Autolink
      [] OTHER -> {}

\* What a write may set that the plan does not show: the fields it replaces
\* that the desired document does not state, and whether a reviewer may be
\* the author, which GitHub tells only where there are reviewers.
Unshown(k) ==
    Replaced \ ((IF k \in DOMAIN cfg THEN DOMAIN Desired(lane, cfg)[k] ELSE {})
                \ {"prevent_self_review"})

\* An item as a run that declared every field would read it.
View(l, w) == IF l = "actions" THEN w
              ELSE Decode(l, [p \in JSONFields(l, w) |-> 0], w)

\* The fields of k's item that the run changed, if one item has that key.
Written(k) ==
    UNION {LET old == View(lane, before[i].doc)  new == View(lane, github[j].doc) IN
           Fields(old, new) \cup Fields(new, old)
           : i \in WithKey(before, k), j \in WithKey(github, k)}

\* What k's entry says is all that the run changed of k's item, but for hidden.
Shown(k, hidden) ==
    \/ k \in DOMAIN plan /\ plan[k].action = "delete"
    \/ Cardinality(WithKey(before, k)) # 1
    \/ Written(k) \ hidden \subseteq
          IF k \in DOMAIN plan THEN plan[k].changes ELSE {}

\* The dry run shows what the apply changes: every declared field that changes
\* is in the plan, a field nobody declared changes only where a call replaces
\* the record it is in, and no item the plan does not name is touched.
PlanShowsWrites ==
    Decided /\ ~disturbed =>
        \A k \in {before[i].key : i \in DOMAIN before} : Shown(k, Unshown(k))

\* The same without an exception, as config/schema.go:175-177 puts it.
PlanShowsEveryWrite ==
    Decided /\ ~disturbed =>
        \A k \in {before[i].key : i \in DOMAIN before} : Shown(k, {})

\* A plan made from a batch record still true of GitHub is the plan a read
\* would have given, so a record that lacks fields or topics is not used.
PlanIsTrue ==
    [][phase = "idle" /\ phase' = "applying" /\ ~disturbed' =>
          Actionable(plan') = Actionable(PlanFrom(Live(lane, cfg, github)))]_vars

\* Once people stop editing and GitHub answers, the runs bring the repository
\* to what is declared, and it stays there.
EventuallySettles == <>[]Settled

Spec == Init /\ [][Next]_vars

\* Runs keep being triggered, calls are answered and runs end.
FairSpec == Spec /\ WF_vars(Step)
=============================================================================
