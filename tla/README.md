# repositories-settings: a verification project

TLA+ models of the service in `src/`, which keeps the settings of GitHub
repositories in step with the `.github/settings/*.yml` files in them. Each
module is written from the Go source. TLC checks small instances of the
modules; TLAPS proves most of the safety properties for every value of the
constants. Paths below are relative to `src/internal/` unless they say
otherwise.

1. [The system](#1-the-system)
2. [The modules](#2-the-modules)
3. [What the runs check](#3-what-the-runs-check)
4. [Where the code and its documentation disagree](#4-where-the-code-and-its-documentation-disagree)
5. [What is proved](#5-what-is-proved)
6. [Fairness](#6-fairness)
7. [What is abstracted](#7-what-is-abstracted)
8. [What is not modelled](#8-what-is-not-modelled)

## 1. The system

One process serves GitHub's webhooks and a small HTTP API. A delivery loads
settings, runs a reconcile under a per-repository lock, and answers with a
report. It keeps no state on disk; what must survive is on GitHub.

```
delivery ──► settings loader ──► RepoLock ──► policy gate ──► Phase A ──► Phase B ──► report
(server)      (config)           (ghclient)    (reconciler)   (1 lane)    (n lanes)   (+ sticky comment)
                   │                                              │           │
                   └───────────────── GitHub client ──────────────┴───────────┘
                        rate limiter ► conditional GET ► auth ► metrics ► net/http
```

| Component | State it keeps | Operations | Hard behaviour | What makes it correct |
|---|---|---|---|---|
| Reconcile pipeline (`reconciler/reconciler.go`, `ghclient/repo_lock.go`) | one mutex per repository; per run: results of its lanes | lock, refuse, Phase A, Phase B, join, report | concurrent deliveries, lanes in parallel, failures and panics, callers that hang up, answers that are lost, crashes | reconciles of a repository are serial; Phase A ends before Phase B; the report is complete; only permitted writes are sent |
| Deliveries (`server/webhook.go`, `api.go`) | none | push, pull_request, issue_comment, `/api/reconcile`, `/api/check`, `/api/validate` | a delivery's context dies with its connection | dry runs never write; apply uses the default branch |
| Settings loader, policy, selection (`config/loader.go`, `resolution.go`, `policy.go`, `validate.go`, `selective.go`) | none | fetch, decode, validate, merge, judge, narrow | files of one load may come from different commits; load precedes lock; narrowing must not drop a violation | what is applied is what the branch says and the policy allows |
| Org layer (`config/admin_cache.go`, `org.go`) | one entry per org with a `sync.Once` and a TTL | For, LoadAdmin | the first caller loads for all; pushes, failures and lost access in the middle of a load | nobody keeps a failure or a layer beyond its TTL; the policy is never switched off |
| Diff and lanes (`diff/diff.go`, `applier/*`, `ghapi/*`) | none | Fields, NamedList, one Run per lane | delete-then-create updates, endpoints that replace whole records, several calls for one entry, partial failure | a second run finds nothing to do; what is lost is reported; the plan shows what is written |
| Rate limiter (`ghclient/ratelimit.go`) | queue, two pools, semaphore, wake channel | Schedule, dispatcher, UpdateFromResponse, Stop | wake-ups, back-off, late answers, abandoned requests | bounded concurrency, priority order, nobody waits for ever |
| Conditional GET (`ghclient/transport.go`, `cache.go`) | LRU of tagged bodies | GET, write, 304, invalidation | look-up before and after the request; late answers | no read goes back further than the reads it overlaps with |
| Fan-out (`conc/conc.go`, `applier/helpers.go`, `branches.go`) | result and error slots shared without a lock | feed, run, drain, join | cancellation in the middle | one outcome per item, none lost |
| Sticky comment (`server/prcomments.go`, `commands.go`) | none (the comment on GitHub) | list, edit or create; commands; authorization of apply | deliveries for one pull request overlap, come late, out of order or again | one comment, the newest plan, no review skipped |
| App authentication (`ghclient/auth.go`) | JWT, installation and token caches, one flight group | AppJWT, InstallationID, InstallationToken | shared flights, the first caller's context, expiry, reinstallation | a call's credentials are still accepted when it arrives; an error heals |
| OIDC and authorization (`oidc/*.go`, `server/auth.go`) | key cache per issuer | verify, fetch keys, check scope, check an apply | key rotation, concurrent fetches, repositories that change under a token | a withdrawn key dies; an apply is of the repository and branch its token names |
| Batch worker (`worker/worker.go`) | none | batches with a prefetch | the prefetch is older than the lock | as the pipeline; `cmd/repo-settings` constructs none today |
| HTTP server (`server/server.go`, `health.go`) | none | serve, shut down | ten seconds for reconciles that may take minutes | – |
| Formats, logging, metrics, wiring | counters | pure functions, start-up | – | covered by unit tests |

`PROJECT.json` lists the same components with their files and what is modelled
of each, and every behaviour that is hard to test, at its line, with the
properties that would catch it going wrong ("hazards").

## 2. The modules

| Module | Models | Composition |
|---|---|---|
| `SerialReconcile` | what the lock promises: a reconcile is one step | abstract specification |
| `Reconcile` | deliveries, loading, lock, gate, phases, lanes, writes at GitHub, hang-ups, lost answers, crash | implements `SerialReconcile` |
| `RateLimiter` | Schedule, the dispatcher, request goroutines, pools | |
| `FanOut` | conc.Map in a lane's Run | |
| `ConditionalGet` | the conditional GET layer and its LRU | |
| `StickyComment` | comment deliveries of one pull request | |
| `Documents` | diff.Fields, SingleResource, NamedList, indexing | operators |
| `Validation` | what each settings file may say | operators over `Documents` |
| `Lanes` | what each of the fifteen lanes declares and reads, the batch record | operators over `Documents` |
| `LaneCalls` | how a lane encodes an item, the calls of one plan entry, what GitHub does with a call | operators over `Lanes` |
| `LaneRuns` | many runs of one lane against a repository people edit | composes `LaneCalls` and `Validation` |
| `Settings` | files to sections, suborg matching, merge, policy rules, selection | operators over `Validation` |
| `OrgLayer` | the admin cache, its loads, and the runs it governs | composes it with `Settings` |
| `AppAuth` | JWT, installation and token caches with their flights | |
| `Authorization` | claims, subjects, scope, who may apply | operators |
| `Access` | requests, the verifier's key cache, the check of an apply | composes it with `Authorization` |
| `ReconcileProofs`, `RateLimiterProofs`, `FanOutProofs`, `StickyCommentProofs`, `OrgLayerProofs`, `AccessProofs`, `LaneRunsProofs` | theorems | EXTEND the model |
| `ClientProofs` | theorems about `ConditionalGet` and `AppAuth` | EXTENDS both, which share no state |
| `MCReconcile`, `MCRateLimiter`, `MCConditionalGet`, `MCStickyComment`, `MCLaneRuns`, `MCOrgLayer`, `MCAccess` | constants of the instances TLC checks | EXTEND the model |

The parts meet at the run. `Reconcile` has the lock and the phases and treats a
lane as one read and one write; `LaneRuns` opens one lane under that lock;
`FanOut` opens the way a lane carries out its plan; `OrgLayer` and `Access`
open what happens before the lock is asked for; `AppAuth`, `RateLimiter` and
`ConditionalGet` are under every call a lane makes.

**Reconcile.** `job[r]` is what delivery `r` asks for: a name as the caller
spelled it, dry or not, a ref, the selected lanes. `Push`, `Request` and
`Check` are the handlers that reach `reconcile`; `LoadFile` is one goroutine of
`loadSettingsDir`, which reads the branch *as it is then*. `PhaseA` is the
lock, the gate and the start of the repository lane in one step: between taking
the lock and starting the lane the code does nothing another goroutine sees.
`Refuse` is the blocked run, which takes the lock and gives it back without
touching anything. A lane reads (`ReadLive`) and, when live state differs and
the run is real, sends one write; `wire[r][l]` follows that write through
GitHub, apart from the goroutine that sent it, because a write whose caller
hung up is still executed (`ghclient/ratelimit.go:161-164`), and so is one whose
connection breaks or whose gateway answers 502 (`LaneLosesWrite`: the write
*strays*, the lane is a failure and the run goes on). What a lane makes of GitHub is
`OneRun[l][v][w]`, which is `v` for most; a declared secret nobody has uploaded is
left for another system, so a lane that lacks nothing else ends as "pending", a
success without a write (`Awaiting`, `applier/applier.go:22-31`), and a dry run's
difference is "planned". `began` is a history variable: live state when the run took
the lock. `Crash` loses every run and the lock and leaves writes on the wire.

**RateLimiter.** The queue is sorted by a total order, so it is the set of
queued calls with `Before`. The dispatcher is cut where the code lets go of the
mutex or waits: take a slot, pick, give the slot back, sleep, probe. A request
is stamped (`Arrive`) before the queue's mutex is taken (`Enqueue`), kicks
after it was released (`Kick`), and its goroutine frees the slot, kicks and
closes `done` in three steps. `UpdateFromResponse` is in `Respond`: fresh
headers, a `Retry-After`, or an answer without either.

**FanOut.** The feeder runs on the lane's goroutine; the jobs channel is
unbuffered, so a send is a worker's receive (`Send`). Which branch the feeder's
select takes when both are ready is open, and so is whether a mutation whose
context is done reached GitHub. `Discards` is the branches lane, which drops
`Map`'s errors; the other lanes name the items that were not sent.

**ConditionalGet.** Paths are sequences of segments, so `pathsRelated` is
prefix in either direction. A body is a version of its URL and the ETag names
both. The LRU is a set of entries with a rank, 1 for the most recently used:
`ToFront` is `MoveToFront` or `PushFront` and the eviction of what falls behind
`Cap`. A read is three steps (look up and ask, GitHub compares, use the answer);
the second look-up on a 304 is in the third. `Changes[w]` says, independently of
`pathsRelated`, which bodies a write changes at GitHub: any, since a team is
bound with `PUT /orgs/{org}/teams/{slug}/repos/...` and read under `/repos/...`
(`applier/teams.go:14-44`). `began`, `with`, `dropped` and `since` are histories of the
reads under way.

**StickyComment.** Commits are numbered as they are pushed. A push (`Push`) and the
delivery that tells of it are steps of their own: `PullRequest(d, sha)` carries
any commit that has been pushed, so deliveries come late, out of order and again. A
delivery loads, reconciles, lists the comments and then edits or creates; a body is
what it says and the commit it is about.

**LaneRuns.** `lane` and `cfg` are the lane and its declared section, which the
validation of its file accepts. `github` is the repository's items under their numeric ids.
`Fetch` is the lane's read and the plan `NamedList` makes of it; `Mutate` gives
each entry of the plan the calls the code makes for it, and `todo` is what is left of
them. Entries are carried out by the fan-out's workers, so `Send(k)` of
different entries interleave; the repository lane alone writes its settings
before its topics. `Accepts` and `Apply` are GitHub: a second item under a taken
key, key material that is in use, an allow-list while the mode is not
"selected" are refused; a "put" replaces the whole record. `CallFails` loses the
call or its answer, `HangUp` cancels the context, `Crash` ends the process, and
`Edit` is somebody at the web page. `batch` is the record `FetchBatchChunk` read
for the cron worker before any run; `usablePrefetch` decides whether a run may use it.
`quiet` counts the runs in a row that nothing disturbed.

**Settings, OrgLayer.** A file is absent, empty, broken or a body.
`loadSettingsDir`, `Match`, `Merge`, `ResolveFor`, `ValidatePolicy`,
`AffectedKeys` and `Filtering` are the functions of those names. An entry of `entries` is
one `adminCacheEntry`: when it was made, how far its load has come, and the version
each of its parts was read from; `cached` is the one the map holds. `Start` is the
look-up under the mutex, `Begin` enters the Once, the four reads are
`CheckRepository`, `ReadSettings`, `ReadPolicy` and `ReadSuborgs`, each at
the head as it is then. A run without access finds every file absent.

**AppAuth.** `flight[0]` is the installation look-up, `flight[i]` the mint for
installation `i`. The first caller sends, the others wait, all get the same
outcome, and `FlightFails` covers the done context of the one who sent. Neither flight
looks at the cache again inside (`ghclient/auth.go:108-111`, `167-169`), so who missed the
cache before a flight ended and comes after it starts another. Ages grow by `Tick`,
which waits only for a call that has been on its way for `Transit`.

**Authorization, Access.** `Claims` of a token are a record; a subject is a
sequence of segments, so that a reusable workflow's claim can name more than one
repository. `served[h]` is the request a handler serves: `Arrive`, `Cached` or
`Join` (the verifier's look at its key set, or a seat in the fetch),
`RequireApply` (the read of the repository before an apply), the run. `keySet`
is the cached key set with its age, `flight` the shared fetch. The issuer may
rotate and withdraw keys, and a repository may be made again or rename its branch
(`Metadata`) between any two steps.

Definitions marked `mutant` are plausible bugs of the operation next to them.
They are used by no specification; each shows that one property notices the bug.

## 3. What the runs check

| Run (cfg) | Question | Instance |
|---|---|---|
| `reconcile` (`MCReconcile`) | Is the report complete and true, are writes permitted, is a reconcile one step (`IsSerial`), does every delivery end? | 2 deliveries, 1 repository, 3 lanes (the repository, secrets of which one is not uploaded, one disabled), 2 versions (one breaks the policy, one is legal and unmanages a lane), failing loads and lanes |
| `faults` (`MCReconcileFaults`) | What do lock, phases and report promise when callers hang up, answers are lost and the process crashes? | the same, whole directory, two spellings of the name, hang-ups, writes that stray and a crash; the deliveries are symmetric |
| `stale` (`MCReconcileStale`) | see section 4; ends in a violation | 2 deliveries, 3 versions of which the last is like the first, no faults |
| `limiter` (`MCRateLimiter`) | Slots, budgets, wake-ups, order, Retry-After | 3 calls (urgent and lazy REST, one GraphQL), 2 slots, budgets 2 and 1, every kind of answer |
| `limiter_live` (`MCRateLimiterLive`) | Does every call run, does Stop free everybody? | 2 calls of one pool, 1 slot, budget 1, callers that give up, Stop |
| `fanout` (`FanOut`) | One outcome per item, one writer per slot, a complete and true report, no deadlock | 4 items, 3 workers, cancellation, failing mutations, a panic |
| `cache` (`MCConditionalGet`) | How old may a body be, and what loses one between a read's question and its 304? | 5 reads: a list (three times), its second page, another list; a write beneath the list, a change of the list by anybody else, lost answers; LRU of 2 |
| `sticky` (`MCStickyComment`) | Do reruns edit in place, does a newer plan stay, is review never skipped? | 3 symmetric deliveries, 3 commits (one broken), pages of 2 comments, late and repeated deliveries, every call may fail |
| `lanes` (`MCLaneRuns`) | Does a run make the repository what is declared, does the next one do nothing, is what is lost reported, is what is written shown? | each of the 15 lanes, with one to four sections and up to 16 initial stores; 2 faults, 2 edits, any number of runs |
| `org` (`MCOrgLayer`) | Is the policy fresh and never switched off, is the admin repository read once per TTL, is a failure given to later callers, does a narrowed run suffice? | 3 symmetric runs, 2 versions of the admin repository, 2 of the governed one, TTL of 1 tick, clock to 2, one fault; access lasts through a load (`StableAccess`) |
| `app_auth` (`AppAuth`) | Is a reused JWT accepted when it arrives, do calls work again after a reinstallation? | 2 callers, 2 installations, installation TTL 2, token life 3, margin 1, JWT reused for 2 of its 3 ticks, 1 tick to GitHub, one fault |
| `access` (`MCAccess`) | Is an apply of the repository and branch its token names, how long does a withdrawn key live, is a new key known in the end? | 2 handlers, 5 kinds of request, 2 keys, a repository made again, TTL and fetch timeout of 1, one fault |

Why the bounds are enough. Every race in the pipeline is between the holder of
a lock and one other run, so two deliveries show it; the proofs remove the bound
for the invariants. Three lanes are the Phase A lane, one of Phase B and a
disabled one. Two versions suffice for "older" and "newer"; `stale` has a third, so that
both versions are pushed. In the limiter a
second slot lets a request be in flight while the dispatcher backs off, two
pools let one be empty while the other is not, and budgets of one or two make
exhaustion and refill happen in every behaviour; `Refill` and `Threshold` stand for
5000 and 100 and keep their order. Four items are more than three workers, so
items wait in the feeder when the context is done. Three URLs over an LRU of two
evict, and a body needs only two versions to be stale. Pages of two
comments make the marked comment move to a later page. Two keys, `a` and `b`,
in a lane's list give every pair of entries (create, update, delete, no-op) and
one item whose key is taken; two faults lose a call and its repair, or a call and
the process; the number of runs is not bounded, because GitHub's ids are
renumbered between runs. In `org` a loader, one who waits for it and one who comes a
TTL later are three runs. In `app_auth` one caller sends and one waits, and two
installations are the one that was cached and the one that replaced it. In
`access` one key is withdrawn while the other signs. `MaxVersion`, `MaxPush`,
`MaxTime`, `MaxFaults`, `MaxEdits`, `MaxInstalls`, `Keys` and the sets of calls, runs
and deliveries are the only bounds on unbounded data; each is a guard of
the actions that count. Ages are cut off where they stop mattering.

`CHECK_DEADLOCK FALSE` where work ends: once every delivery, call or item is over the
model has nothing left to do. That nobody is stuck *before* that is
`EveryRunEnds`, `EveryCallRuns` and `LaneEnds`. `lanes` and `access` never end and
are checked for deadlock.

Type invariants are in no cfg: the proof modules prove them.

What the less obvious properties say:

- `IsSerial`: GitHub's state seen through the lock (live state as it was when the
  holder began, until it lets go) changes only as one whole reconcile would
  change it. A dry run that did not wait for the lock breaks it.
- `SuccessMeansApplied`: when a run reports no failure, every selected, managed
  and enabled lane is *at the moment the lock is given back* what one run makes of what
  GitHub had when the lock was taken. That is what the files say, but for what a lane
  leaves to another system (a declared secret that was not uploaded) or to a second
  run (Pages, `Settles` below). The files are those the run loaded: whether they were ever
  one commit's is not part of it.
- `WritesAreReported`: a write that may still change GitHub after its run is over was
  reported as failed (or the process died), and what was reported as applied has
  landed. That such writes exist, and land under another holder of the lock, is section 4.
- `PhaseOrder`: while the answer to the repository lane's write is awaited, no other
  lane has begun. It does not speak of a write that strays: the run goes on, and Phase B
  may overlap with it.
- `NoLostWakeup`: the dispatcher may sleep or back off with work it could do only
  while a kick is coming.
- `RetryAfterHonoured`: after a Retry-After nothing is sent to the pool before it
  has passed or a later answer of the pool has arrived.
- `OneOutcomeEach`, `WrittenOnce`: the two slices `Map` shares without a lock are
  written once per index, by the feeder or by one worker.
- `FreshRead`: a read returns a body of its own URL that is no older than itself, or than
  the oldest of the reads of that URL that were under way when it began.
- `BareAnswersHaveACause`: a read whose 304 finds nothing in the cache was overtaken by a
  write above or beneath it, or by as many other URLs as the cache has room for (10000).
- `NewestPlanStays`: a delivery that was handled alone, and does not come late, never
  shows an older plan over a newer one, whatever order those before it came in.
- `Settles`: after a run nobody disturbed, a fresh read finds nothing to do, so no lane
  rewrites its settings on every run (sections that do, section 4, are not in the instance). Pages and deploy keys need two runs: creating
  Pages takes neither domain nor HTTPS setting, and a renamed deploy key cannot be
  created while the old name holds its material.
- `UndisturbedSucceeds`: nothing fails unless somebody interferes, so the order of
  the calls is one GitHub accepts (all lanes but deploy keys, for that reason).
- `MissingIsReported`: a declared item that a delete-and-create lost is not
  reported as applied.
- `PlanShowsWrites`: what a run changes of an item was in its plan, except the
  fields in `Unshown`, which section 4 accounts for.
- `PlanIsTrue`: a batch record that is still true of GitHub gives the plan a read
  would have given, so one that lacks fields or topics is not used.
- `PolicyHolds`: what is applied to a governed repository is allowed by some policy
  in force since a TTL before the run asked, judged from the
  repository's *whole* files and layers, not from the narrowed selection.
- `NarrowRunIsEnough`: a run narrowed to the files that changed since a version,
  laid over what that version resolved to under the same layer, yields the whole
  resolution, sections that fall back to the organization's included.
- `OneLoadPerTTL`: a load that fails late must not drop the entry that has replaced its
  own; if it does, the admin repository is read twice within a TTL.
- `ApplyIsCurrent`: at some moment since the request came the repository had the
  numbers and the default branch the token names. A token outlives a repository
  that is deleted and made again.
- `JWTAccepted`: a JWT is signed once and shared by look-ups and mints until eight minutes
  after (`ghclient/auth.go:79,93`); the call that carries it is on its way for a while and
  finds it alive. What a token minted late in a shared flight has left when it is handed
  out is checked by nobody, and no property speaks of it.
- `Recovers`, `RotationHeals`: a cached installation or key set that has become
  wrong fails calls only until it has aged out.

## 4. Where the code and its documentation disagree

`stale` / `InSync` is a run that ends in a violation. Settings are loaded before
the lock is taken (`server/webhook.go:122`, `127`). The repository is as versions 0 and 2
of the files say; version 1 says otherwise. The run of the first push loads version 1. The
run of the second loads version 2, takes the lock, finds nothing to do and is over. Then the
first takes the lock and applies version 1. Both report success, and the newest push is
undone. `src/README.md:484`: "The push to the default branch applies the configuration."
Each run of the trace has loaded one whole version. A load is also not one step
(`config/loader.go:46`): its files are fetched at the branch's name, and a push in between
gives a run settings no commit ever had. `InSync` leaves such runs out, so it does not fail
for that reason.

Six more cfgs are kept beside the runs. TLC finds each of them violated; each
checks one statement against what the code does, most of them the documentation's own.

- `MCReconcileHangUp` / `WorkIsSerialized`. `ghclient/repo_lock.go:8-9`: "RepoLock
  serializes per-repo work so concurrent reconciles for the same (owner, repo)
  don't race against each other." When a caller's connection ends, `Schedule`
  returns and its request goes on (`ghclient/ratelimit.go:161-164`). The run ends and
  gives the lock back; the write lands while another run holds the lock. A connection
  that breaks while GitHub executes the write (`LaneLosesWrite`) does the same.
- `MCRateLimiterBare` / `EveryCallRuns`. `ghclient/ratelimit.go:124`: "Blocks until
  fn has run (or until ctx is cancelled)." A pool is refilled or probed only when an
  answer named a reset time. With answers that carry no rate-limit headers the
  starting budget is never replaced and every call after it waits until its
  caller gives up.
- `FanOutBranches` / `EveryItemNamed`. `applier/helpers.go:58-61` says why the
  unsent mutations must be named. The branches lane discards the errors of `conc.Map`
  (`applier/branches.go:67`); a branch that was never sent becomes an empty result.
- `MCStickyCommentTwo` / `OneSticky`. `src/README.md:394`: "The bot maintains one
  **sticky comment** per PR". Look-up and creation are two calls; two deliveries both
  find nothing and both create.
- `MCStickyCommentLate` / `NewestPlanAlwaysStays`, which is `NewestPlanStays` without its
  exception for late deliveries (the documentation promises no order; a reader of the pull
  request expects it). The commit of a check is the payload's
  (`server/webhook.go:138-141`), whatever the head is by then: a `synchronize` that GitHub
  sends late, out of order or again puts the plan of its commit in place of the newer one,
  and nothing brings the newer one back until the next push or "recheck".
- `MCOrgLayerAccess` / `PolicyHolds`. `config/org.go:72-74`: "A missing or
  inaccessible configured admin repository is an error so a permissions mistake
  cannot disable policy." The check is one call and the reads are later ones; access that is
  lost in between makes `policy.yml` look absent, and an absent policy
  allows everything until the entry expires. The run `org` and the theorem
  `PolicyGoverns` assume that access lasts through a load (`StableAccess`).

These follow from the models by inspection and have no cfg.

- Policy. `config/policy.go:165-168` looks for a disabled setting in the
  repository's layer. A repository that declares a security section without the locked
  setting replaces the organization's section as a whole, and the setting is
  dropped without a violation.
- An environment's reviewer whose id is not a number is left out of the call
  (`ghapi/convert.go:224`: "validation rejects this before we get here");
  `config/validate.go:97-99` checks only how many there are.
- A `secrets.yml` that holds nothing but its version is accepted and deletes every
  secret (`config/validate.go:197-206`, `config/loader.go:164-167`); most other list files
  must name at least one item.
- What a plan does not show (`Unshown`; `config/schema.go:175-177` says the dry-run
  "shows exactly what the apply will write"): the fields of an autolink, an environment
  or a branch protection that the desired document does not state are reset by the call that
  replaces the record (an autolink's `is_alphanumeric`, an environment's undeclared
  settings, members of a branch's review, status-check and restriction records). So is
  whether a reviewer may be the author, declared or not, since GitHub tells it only where there are
  reviewers.
  `PlanShowsEveryWrite` states the comment; TLC finds it violated on the instance of `lanes`.
- An allow-list declared without `allowed_actions: selected` is refused by GitHub in
  every run in which the mode is another. An environment comes back only as the rules
  GitHub made of it: a declared `wait_timer: 0`, or `prevent_self_review` without reviewers,
  has no rule and differs on every run. A deploy key's material is never compared. Of
  several deploy keys with one title a run sees and deletes the last one listed, so n of an undeclared
  title take n runs, and of two declared keys with one material the second is refused on every
  run (GitHub keeps materials unique, not titles). The logins of collaborators are
  compared with their case. A topic listed twice, a list in another order and ruleset
  parameters that are partly stated differ on every run.
- `Budget` refills a pool of 100 or less whose reset time has passed, so the
  one-request budget of `ProbeReset` is replaced by 5000 in the next pick. A quota
  answer that arrives after a Retry-After sets the budget again.
- A read may return a body older than itself: a 200 stored late by another read of the
  URL, between a read's question and its 304, is returned in place of the body that was
  validated. `FreshRead` bounds how far back that goes. And `Substitute` returns no body
  when the entry was dropped in between, so the caller gets the bare 304, which the SDK
  makes an error; `BareAnswersHaveACause` says when.
- `InvalidatePath` drops what is above or beneath a write, which is not all that the write
  changes: a team's binding and a comment's edit (`ghapi/routes.go`) change lists at
  unrelated paths. No stale body comes of it, since the tag is sent along and GitHub
  answers with the new body; the entry is only not dropped ahead of time.

## 5. What is proved

Every theorem is `Spec => []Inv`, `Spec => [][A]_vars` or, for `Serializable`,
`Spec => Serial!SSpec`, for every value of the constants that satisfies the module's
assumptions (named `...Assumption`), which TLC evaluates in the runs. In each module
the invariant `IInv` is shown to hold at the start and to be kept by every
action, one lemma or step per action; the theorems follow from it.

| Module | Theorems |
|---|---|
| `ReconcileProofs` | `TypeCorrect`, `MutualExclusion`, `LateWritesAreReported`, `PhasesInOrder`, `WritesAreAllowed`, `ReportsAreComplete`, `LockSerializesWork`, `SuccessIsApplied`, `Serializable` |
| `RateLimiterProofs` | `TypeCorrect`, `ConcurrencyBounded`, `NoWakeupLost`, `PriorityOrder`, `RetryAfterIsHonoured` |
| `FanOutProofs` | `TypeCorrect`, `OneOutcomePerItem`, `ReportsAreTrue`, `NothingDropped`, `SlotsWrittenOnce` |
| `ClientProofs` | `TypeCorrect`, `ReadsAreFresh`, `BareAnswersAreExplained`, `AuthTypeCorrect`, `JWTsAreAccepted` |
| `StickyCommentProofs` | `TypeCorrect`, `ReviewStays`, `CommentsAreEdited`, `PlansDoNotGoBack` |
| `OrgLayerProofs` | `LoadsAreApart`, `PolicyIsFresh`, `FailuresAreNotGiven`, `PolicyGoverns`, `NarrowingLosesNothing` |
| `AccessProofs` | `TypeCorrect`, `AppliesAreCurrent`, `WithdrawnKeysDie` |
| `LaneRunsProofs` | `TypeCorrect`, `NothingIsLostSilently`, `RecordsAreTrue`, `UndisturbedRunsSucceed`, `LanesSettle`, `PlansShowWrites` |

Some theorems need more than their module assumes, and say so in an `ASSUME` of
their own:

- `NobodyLeaves` (`LockSerializesWork`, `SuccessIsApplied`, `Serializable`): nobody
  hangs up, no answer is lost while GitHub executes the write, and the process does not
  die. Otherwise a write on the wire may land
  while another run holds the lock, and the three are false
  (`MCReconcileHangUp`, section 4). Loads, reads and writes may still fail, and people
  may still push.
- `StableAccess` (`PolicyGoverns`): access to the admin repository, once checked, lasts
  through the load; otherwise the theorem is false (section 4).
- `EnvironmentsCanBeTold` (`LanesSettle`): a declared environment has no timer of zero, no
  `prevent_self_review` without reviewers and no reviewer whose id is not a number. What
  GitHub makes of the others is not read back, and they differ on every run (section 4).
- `[]TitlesAreKeys` (`LanesSettle`; says nothing of other lanes than deploy keys): no two
  deploy keys of the repository share a title, and none has the declared material of one title
  under another declared title. The declared materials are then all different where they are used.
  It is about what people add; without it two runs need not suffice (section 4): TLC finds a
  counterexample when the stores of `MCLaneRuns` are given three keys of one title. A rename is not excluded: the old title is undeclared.
- `ListsNameTheirMode` (`UndisturbedRunsSucceed`, `LanesSettle`): an actions section that states an
  allow-list also states `allowed_actions: selected`. The validator looks at
  the mode's spelling only (`config/validate.go:158-170`); without the hypothesis GitHub
  refuses the list on every run in which the mode there is another (section 4).

Five assumptions say what the constants stand for rather than what their type is.
`NoJobAssumption` (`Reconcile`): an unloaded delivery is no request. `FilesAssumption`
(`OrgLayer`): all versions of a repository are about the same files, absent ones
included, since the loader reads a fixed list of names (`config/loader.go`).
`ItemsAssumption` (`LaneRuns`): a section has the fields its schema decodes; what
GitHub lists has unique keys, except the titles of deploy keys; the lanes that
address one fixed resource always find it.
`SchemaAssumption` (`LaneRuns`): the types `config/schema.go` gives the fields whose
values a lane translates (security flags, `insecure_ssl`, a protection's flags and
records), that an environment's branch policy has members only where it is declared,
that the repository section holds the repository's fields, and that a protection rule made by
signing alone has nothing else set. `LegibleAssumption` (`LaneRuns`): GitHub reports of a
protection rule whether signatures are required, and otherwise fields the program
knows; the ids of an environment's reviewers are numbers.

**Reconcile.** `IInv` is `TypeOK` with `LockInv` (the lock of a spelling is held
exactly by the run under it, and runs under the lock of one lower-cased name are
one run; it uses only that lower-casing is idempotent) and `RunInv` (at each place
a run can stand, which of its lanes may have started, what each may have
reported, and where its write may be). None of the properties is inductive
alone: `PhaseOrder`, for instance, needs that in Phase A no other lane has started,
and that the repository lane is over before Phase B; `WritesAreReported` that a lane that is
over with its write on the way has reported a failure, which no step afterwards changes.

`SerialInv` is what the lock buys. `EffectOK(r, l)`: since `r` took the lock, lane `l`
is at GitHub as it was then until `r`'s own write lands; only a difference is written;
and the report agrees with what was found and done. It is inductive because a
write of anyone else would need a run under the same lock, or one that left its write
behind. It
gives `WorkIsSerialized` and `SuccessMeansApplied`, and with them the refinement: the
end of a run (`Finish`, or `Refuse` for a blocked one) is the one serial step, the last
load of a delivery is its submission, and every other action is a stutter, because the
mapping shows of a repository under the lock what its holder found.

**RateLimiter.** `SlotInv`: the semaphore holds one token per running request
and one when the dispatcher is between taking it and using it; `TypeOK` alone cannot
show that a token given back was there. `FreshInv`: a call that was not
queued has no request. `WakeInv`: `NoLostWakeup` one step earlier, also while
the dispatcher has decided to wait and still holds its slot. `QuietInv`: a
pool that was told to wait has no budget left and its reset is ahead; late answers
of requests that left before keep it, because fresh headers end the wait and others
do not touch the budget.

**FanOut.** `WorkerInv` (workers hold different items, all of them sent),
`ItemInv` (for each item, who is responsible for its two slots and what they
hold) and `StageInv` (what each stage of the lane knows about the feeder and the
workers). `SlotsWrittenOnce` is an action property from the same invariant.
`NothingDropped` is for the lanes that look at `Map`'s errors.

**ConditionalGet** (`ClientProofs`). `CacheInv`: an entry holds a body of its own URL that
GitHub had. `ReadOK`: what the cache has for the URL of a read under way is what the read
asked with, or was stored by a read that began no earlier than the oldest it joined
(`NotBehind`); and what GitHub answered is no older than the read. `KeepOK`: the entry a
read asked with is there, behind no other URLs than those read since, until a related write
drops it or they are as many as the cache has room for. Evictions and invalidations only
take entries away. Much of the proof is the LRU: putting an entry in front keeps one entry
per URL and per rank, and what it pushes out was behind `Cap` others.

**StickyComment.** `DeliveryInv` (what a delivery has behind it where it is),
`BodyInv` (a body speaks of the commit that was loaded), `AloneInv` (a delivery
handled alone is the only one, and unless it came late what it loaded is as new as any plan
on the pull request) and `SeenInv` (a marked
comment stays, so whoever found one edits it).

**OrgLayer.** `CacheInv`: the cached entry is the newest and has not failed; where
none is cached, the newest has. With `ClockInv` (a policy is read after its entry was made)
and `RunInv` it gives the first three theorems. `PolicyGoverns` needs `PInv`:
a policy that was read was at the head then, a load past its check has access,
and a run that applied has a loaded entry under which nothing is violated; narrowing a
run changes nothing about that judgement. `NarrowInv`, for `NarrowingLosesNothing`:
a run is of a version its repository had, and one that applied narrowed did so by what
changed since another. The rest is about operators: a section is set by
one file (`FileOf`), the files that did not change agree, two directories that
agree on a section's file resolve it alike under one layer, and what a narrowed
selection leaves out falls back to the organization's sections as a whole run's would.

**AppAuth** (`ClientProofs`). `AuthInv` is the invariant. `FlightInv`: a flight that was answered carries an installation,
one to GitHub a JWT young enough. `JWTsAreAccepted`: signed less than `JWTReuse` ago and
under way for `Transit` at most, no call is refused for the age of its JWT.

**Access.** `KeyInv`: how long ago any key the service holds may have been
withdrawn, where it is: published, in the fetch, in the cache. A key is
accepted at most `TTL + FetchTimeout` after its withdrawal because the two ages
add up. `RequestOK`: what has been established of a request at each place, and
that it stays so when the repository changes, because what the repository was remains
among what it has been since the request came.

**LaneRuns.** The proof is for all fifteen lanes at once. Lemmas say of the lanes'
calls what the invariants need: what a declared entry is sent writes only items of
its own key, builds last, and deletes only to create again (`Suits`, shown for each
lane's `Mutate`). `IInv` has a part for each thing a step could break: `IdsInv` (an id
GitHub gives out is new to the plan too), `StoreInv` (keys stay unique), `BatchInv` (a
complete record has all the topics), `PlanInv` (an id in the plan is of its entry's key
as long as there is an item with that id), `CallsInv` (what is left of an entry's calls: the last one builds
what is declared), `AppliedInv` (a declared entry reported as applied is there).
`RecordsAreTrue` is an action property: of a record that is usable and still true,
`NamedList` makes the same entries to act on as of a read.

`UndisturbedRunsSucceed` has two invariants of its own. `ReadyInv`: the next call of
each entry finds what it supposes, a create nothing under its key, an update or a
delete its own item, and the calls of other entries, in whatever order the workers
send them, touch other keys. `ModeInv`, for the actions lane: the call that states
an allow-list comes after the one that states the mode (`ModeFirst`, a lemma about
`Mutate`). Neither follows from the other parts: both were checked by TLC on
the instance of `MCLaneRuns` before they were proved.

`LanesSettle` is `Settles` in all lanes. `SettleInv` says of every key of an
undisturbed run: GitHub has it as declared, or its entry is still to be sent, and what
is left of the entry's calls states every declared field that GitHub does not say yet
(`Left`). A call keeps that because what GitHub makes of it says what the call states and
keeps the rest (`PutTells`), and because the calls of other entries touch other keys
(`ReadyInv`). At the end nothing is left, so a read finds no difference
(`DeclaredIsSettled`). The per-lane part is `Carries`, shown for each `Mutate` of the
lanes whose declared fields GitHub tells one by one (`FieldLanes`): a call states no field
wrongly, one that makes an item anew states them all. Three lanes are different. An
environment is one `put`, and what is read of it afterwards follows from the rules GitHub
makes of it (`EnvironmentIsTold`). Of Pages, `Met` asks no more of the first run than that
there is a site; the second one then only updates. Deploy keys have `KeyInv`:
the first run deletes every key that is not declared, and since an undeclared key may hold the
material of a declared one, only from the second run on does the entry of a declared key go through
(`Turn`: the old key is there to be deleted, or gone and nobody holds its material).
TLC checked `SettleInv` and `KeyInv` on instances before they were proved. A list
is a set or one value in the model, so the theorem does not speak of what differs on every
run by its text alone (section 4: a topic listed twice, a list in another order, ruleset
parameters partly stated, a login's case).

`PlansShowWrites` compares the items before a run (`before`) with those at its end, as a run
that declared every field would read them (`View`). `ShowInv` holds while a run is
undisturbed. An item without an entry is as it was. For an entry that updates, every
field outside its `changes` and `Unshown` reads as it did (`Covered`); that a later call keeps
this needs to know that the declared fields outside `changes` were read as they are
declared (`AsRead`: the plan is made of a true read or record) and that every call still
to be sent states nothing but what is declared, or replaces the whole record (`Faithful`).
An entry that deletes shows everything, one that creates had no item. `LegibleInv` carries
what `LegibleAssumption` says of GitHub's documents to all later ones and to the calls on the way:
without it a `put` could bring back a document that reads as something else. The
lemma per lane says of each `Mutate` that its calls are `Faithful`.

Only model-checked: `InSync`, which is false (section 4), and liveness (`EveryRunEnds`,
`EveryCallRuns`, `StopFreesCallers`, `LaneEnds`, `EventuallySettles`, `Recovers`, `RotationHeals`). The provers do no
liveness under fairness and no ENABLED, and no induction over data, so what the merge
or the diff computes for every input is outside them too.

## 6. Fairness

- Goroutines are scheduled: weak fairness of every step a goroutine can take on its
  own (loading, phases, lanes, dispatcher, workers, feeder, handlers, callers).
- GitHub answers: weak fairness of `Network`, `Respond` and of the workers. The
  code sets no HTTP timeout (`cmd/repo-settings/main.go` builds the client without
  one), so a call GitHub never answers holds the lock until the connection breaks.
  The liveness properties say nothing about that case. In `AppAuth` the answers are
  strongly fair, because the state of a flight may change and come back while a
  look-up is under way; in `Access` a fetch has a timeout of its own (`FetchFails`).
- The per-repository mutex: strong fairness of `Locking`. `sync.Mutex` hands itself
  to a waiter that has starved for a millisecond, so a waiter is not passed by for
  ever.
- Time passes: weak fairness of `TimerFires` (through `Dispatcher`), `ResetPasses`
  and of the clock of `AppAuth`; strong fairness of the clock of `Access`, which a
  fetch at its timeout stops for a moment, again and again.
- `LaneRuns`: weak fairness of `Step` says that the calls of a run are answered,
  that runs end, and that *runs keep being triggered*. The last is an assumption about the
  repository and its hooks: the service itself starts none, since the cron worker is not
  wired.
- `Access` and `AppAuth` need callers that keep coming, since nothing refreshes a
  cache unless somebody asks.
- Nothing makes a delivery arrive in `Reconcile`, a caller give up, the process crash,
  the limiter stop, a person edit, a key rotate or an App be uninstalled.

## 7. What is abstracted

- In `Reconcile` a lane is one read and one write; a lane of several writes that
  stops in the middle leaves the value `Partial`. `LaneRuns` has the sequences. Nobody
  but the service changes a repository's settings during a run in
  `Reconcile`; in `LaneRuns` people do.
- In `Reconcile` the layers and the merge are reduced to the files a run reads and
  the set of values the policy forbids, and the admin layer's failure is `LoadFails`.
  `OrgLayer` has them in full; there a run's own files and its look-up in the cache are
  one step, since the order of the two shows in no property.
- Documents are maps from field paths to values; a nested object is flattened.
  Values are compared by equality, so the coercion of numbers that JSON and YAML
  decode differently is left out, and so are the tags of the SDK's types outside
  this repository. A listing is read at one instant: pages that shift between two requests
  are not modelled. A file's lists are keyed, so a key declared twice is not a file of the
  model; the code takes the last.
- The patterns of names are a set of bad names; globs of suborgs are the sets of names
  they match.
- The limiter's durations are gone: a timer may fire at any moment, a reset time is
  ahead until it is passed. The secondary budget is not modelled: the code
  counts it and never reads it. Jitter only changes durations.
- Where a time matters it is an age or a count of ticks, and a step takes none. A JWT's
  call reaches GitHub within `Transit`; one that takes longer is refused, and the caller
  asks again.
- The admin cache is keyed by the admin repository's name. Where `ORG_ADMIN_REPO` is a bare
  name its owner is the target's as the delivery spelled it (`config/admin_cache.go:70`,
  `126`), so two spellings of one owner have an entry each and load twice within a TTL.
  `OrgLayer` has one spelling, and `OneLoadPerTTL` is about that.
- One organization in `AppAuth` and `OrgLayer`, one issuer in `Access`: the caches are
  maps and their entries do not touch each other. Every request of `Access` names a
  repository GitHub knows; for others the metadata read fails, which is `faults`.
- Bodies of comments are a kind and a commit; the syntax of commands is reduced
  to the command it yields. A bot's own comment event, which the handler drops,
  is not an arrival. Comments on a pull request are not deleted.

## 8. What is not modelled

- `server/server.go`, `health.go`: routing, rate limits by address, body limits and the ten
  seconds of shutdown. The effect of a shutdown that is too short is `Crash`.
- `worker/worker.go`: the loop over batches and its semaphore; no process constructs it.
  What makes it different from a delivery, the record read ahead of the lock, is
  in `LaneRuns`.
- Webhook signatures and the verification of a JWT's signature are assumed to be
  right; which key verifies a token is in `Access`. Discovery and the pinning of the
  issuer's host are what `FetchServed` answers.
- Start-up (`cmd/repo-settings`), which builds the parts once from the environment, the
  parsing of the deny-set's variable included.
- Markdown, route labels, strict YAML decoding, commands' syntax, logs and metrics: text, with no state that
  the properties tell apart.
- A steady stream of urgent requests starves the others (`ghclient/ratelimit.go:146`), and
  a GitHub call that is never answered holds its repository (`ghclient/client.go:60`):
  both are so by construction of the code and no property says otherwise.

What could follow: `LaneRuns` composed with `FanOut` for lanes whose plan is longer
than the worker pool, and the number of runs that deploy keys of one title take.
