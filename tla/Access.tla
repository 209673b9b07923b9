------------------------------- MODULE Access -------------------------------
(***************************************************************************)
(* API requests on their way to a run: the issuer's keys, which the        *)
(* verifier caches and fetches once for many (internal/oidc/oidc.go), the  *)
(* caller's identity, its scope, and for an apply what the repository is   *)
(* at the moment (internal/server/auth.go, api.go).                        *)
(*                                                                         *)
(* Meanwhile the issuer rotates its keys, and the repository's default     *)
(* branch is renamed or the repository deleted and made again.  Time is    *)
(* kept as ages, counted in ticks.                                         *)
(***************************************************************************)
EXTENDS Authorization

CONSTANTS Handlers,      \* the requests served at a time
          Requests,      \* what may be asked: [bearer, claims, repo, dry]
          Metadata,      \* repository -> what it is, change by change
          TTL,           \* how long a key set is reused
          FetchTimeout,  \* how long a fetch of keys may take
          Keys,          \* how many signing keys the issuer ever has
          MaxFaults      \* bound: fetches and reads that fail

ASSUME AccessAssumption ==
    /\ {TTL, FetchTimeout, Keys, MaxFaults} \subseteq Nat
    /\ TTL > 0 /\ FetchTimeout > 0 /\ Keys > 0
    /\ \A q \in Requests : \E r \in DOMAIN Metadata : SameRepository(r, q.repo)

VARIABLES published,   \* the keys the issuer publishes
          newest,      \* the key it signs with
          withdrawn,   \* key -> ticks since it was withdrawn
          keySet,      \* the verifier's cached set [keys, age], none with no key
          flight,      \* the fetch under way [stage, keys, age]
          meta,        \* repository -> how often it has changed
          served,      \* handler -> the request it serves: where that is, what it
                       \* asks, the key its token is signed with (0 with none)
                       \* and how often its repository had changed when it came
          faults

vars == <<published, newest, withdrawn, keySet, flight, meta, served, faults>>

verifier == <<keySet, flight>>
issuer == <<published, newest, withdrawn>>

Long == TTL + FetchTimeout

Grounded == [stage |-> "none", keys |-> {}, age |-> 0]

Idle == [pc |-> "idle", kid |-> 0, arrived |-> 0,
         request |-> [bearer |-> "", claims |-> <<>>, repo |-> <<"", "">>, dry |-> TRUE]]

Init ==
    /\ published = {1} /\ newest = 1 /\ withdrawn = [k \in 1..Keys |-> 0]
    /\ keySet = [keys |-> {}, age |-> 0] /\ flight = Grounded
    /\ meta = [r \in DOMAIN Metadata |-> 1]
    /\ served = [h \in Handlers |-> Idle] /\ faults = 0

\* The repository GitHub knows by a name of any case.
Known(repo) == CHOOSE r \in DOMAIN Metadata : SameRepository(r, repo)

Request(h) == served[h].request

At(h, places) == served[h].pc \in places

Now(h) == Metadata[Known(Request(h).repo)][meta[Known(Request(h).repo)]]

(*------------------------------- the request -----------------------------*)

\* Where a request is next; an answered one is gone.
Moved(s, to) == IF to = "idle" THEN Idle ELSE [s EXCEPT !.pc = to]

Goes(h, to) == served' = [served EXCEPT ![h] = Moved(@, to)]

Callers(h) == authorize(Request(h).bearer, ParseGitHubIdentity(Request(h).claims))

\* After authentication: the scope, and for an apply what the repository is.
\* A refusal is answered at once.
Admitted(h) ==
    IF \A c \in Callers(h) : ~scopedTo(c, Request(h).repo) THEN "idle"
    ELSE IF Request(h).dry THEN "running"
    ELSE IF \A c \in Callers(h) : c.kind # "oidc" THEN "running"
    ELSE "checking"

\* Signature, claims and identity, given the issuer's keys.
Verified(h, keys) == IF served[h].kid \in keys THEN Admitted(h) ELSE "unknownKey"

\* A workflow's token is signed with a key the issuer has or has had.
Arrive(h) ==
    /\ At(h, {"idle"})
    /\ \E q \in Requests, k \in 1..newest :
          served' = [served EXCEPT ![h] =
              [pc |-> "authenticating", request |-> q, arrived |-> meta[Known(q.repo)],
               kid |-> IF OIDC /\ q.bearer = "jwt" THEN k ELSE 0]]
    /\ UNCHANGED <<issuer, verifier, meta, faults>>

\* Without a token to verify: the static secret, or nobody.
ByOtherMeans(h) ==
    /\ At(h, {"authenticating"}) /\ served[h].kid = 0
    /\ Goes(h, Admitted(h))
    /\ UNCHANGED <<issuer, verifier, meta, faults>>

\* Mutant: a key set once fetched is never fetched again.
cachedForever == keySet.keys # {}

cached == keySet.keys # {} /\ keySet.age < TTL

\* keysFor: a set in the cache, or a seat in the flight that fetches one.
Cached(h) ==
    /\ At(h, {"authenticating"}) /\ served[h].kid # 0
    /\ Goes(h, IF cached THEN Verified(h, keySet.keys) ELSE "missed")
    /\ UNCHANGED <<issuer, verifier, meta, faults>>

\* Who starts a flight looks at the cache once more.
Join(h) ==
    /\ At(h, {"missed"})
    /\ IF flight.stage = "none" /\ cached
       THEN Goes(h, Verified(h, keySet.keys)) /\ UNCHANGED flight
       ELSE /\ Goes(h, "fetching")
            /\ flight' = IF flight.stage = "none" THEN [Grounded EXCEPT !.stage = "sent"]
                         ELSE flight
    /\ UNCHANGED <<issuer, keySet, meta, faults>>

Aboard(To(_)) ==
    served' = [h \in Handlers |-> IF At(h, {"fetching"}) THEN Moved(served[h], To(h))
                                 ELSE served[h]]

\* The set is stored and stamped when it is here, and everyone aboard has it.
FetchReturns ==
    /\ flight.stage = "answered"
    /\ keySet' = [keys |-> flight.keys, age |-> 0]
    /\ Aboard(LAMBDA h : Verified(h, flight.keys))
    /\ flight' = Grounded
    /\ UNCHANGED <<issuer, meta, faults>>

\* The timeout, a call that fails, the first caller's context: none has keys,
\* and every request aboard is refused.
FetchFails ==
    /\ flight.stage # "none"
    /\ IF flight.age = FetchTimeout THEN UNCHANGED faults
       ELSE faults < MaxFaults /\ faults' = faults + 1
    /\ Aboard(LAMBDA h : "idle")
    /\ flight' = Grounded
    /\ UNCHANGED <<issuer, keySet, meta>>

\* An apply asks GitHub what the repository is, and is answered or not.
RequireApply(h) ==
    /\ At(h, {"checking"})
    /\ \/ /\ Goes(h, IF \E c \in Callers(h) : requireApply(c, Now(h)) THEN "running"
                     ELSE "idle")
          /\ UNCHANGED faults
       \/ faults < MaxFaults /\ faults' = faults + 1 /\ Goes(h, "idle")
    /\ UNCHANGED <<issuer, verifier, meta>>

\* The run (module Reconcile), or the refusal of the key, is over.
Answer(h) ==
    /\ At(h, {"running", "unknownKey"})
    /\ Goes(h, "idle")
    /\ UNCHANGED <<issuer, verifier, meta, faults>>

(*------------------- the issuer, GitHub and the clock --------------------*)

\* The issuer's discovery document, and the keys on the host it names.
FetchServed ==
    /\ flight.stage = "sent"
    /\ flight' = [flight EXCEPT !.stage = "answered", !.keys = published]
    /\ UNCHANGED <<issuer, keySet, meta, served, faults>>

Rotate ==
    /\ newest < Keys
    /\ newest' = newest + 1 /\ published' = published \cup {newest'}
    /\ UNCHANGED <<withdrawn, verifier, meta, served, faults>>

Withdraw ==
    /\ \E k \in published \ {newest} : published' = published \ {k}
    /\ UNCHANGED <<newest, withdrawn, verifier, meta, served, faults>>

Change(r) ==
    /\ meta[r] < Len(Metadata[r])
    /\ meta' = [meta EXCEPT ![r] = @ + 1]
    /\ UNCHANGED <<issuer, verifier, served, faults>>

More(n, bound) == IF n < bound THEN n + 1 ELSE bound

\* A fetch ends at its timeout.
Tick ==
    /\ flight.age < FetchTimeout
    /\ flight' = IF flight.stage = "none" THEN flight ELSE [flight EXCEPT !.age = @ + 1]
    /\ keySet' = [keySet EXCEPT !.age = More(@, TTL)]
    /\ withdrawn' = [k \in 1..Keys |->
                        IF k \in published \/ k > newest THEN 0
                        ELSE More(withdrawn[k], Long + 1)]
    /\ UNCHANGED <<published, newest, meta, served, faults>>

Step(h) == \/ Arrive(h) \/ ByOtherMeans(h) \/ Cached(h) \/ Join(h)
           \/ RequireApply(h) \/ Answer(h)

Next ==
    \/ \E h \in Handlers : Step(h)
    \/ FetchReturns \/ FetchFails \/ FetchServed
    \/ Rotate \/ Withdraw \/ \E r \in DOMAIN Metadata : Change(r)
    \/ Tick

Spec == Init /\ [][Next]_vars

\* Requests are served and keep coming, fetches end, the clock goes on.
FairSpec ==
    /\ Spec
    /\ \A h \in Handlers : WF_vars(Step(h))
    /\ WF_vars(FetchReturns) /\ WF_vars(FetchFails) /\ SF_vars(Tick)

(*------------------------------- properties ------------------------------*)

\* No token is accepted that is signed with a key withdrawn longer ago than a
\* key set is reused and a fetch may take: retiring a key works within an hour.
KeysAreRecent ==
    [][\A h \in Handlers :
          /\ At(h, {"authenticating", "missed", "fetching"})
          /\ served'[h].pc \in {"running", "checking"} /\ served[h].kid # 0
          => withdrawn[served[h].kid] <= Long]_vars

\* A workflow's run acts on the repository that minted its token.  An apply is
\* moreover of a trusted event, and at some moment since the request came the
\* repository was the one the token names, and its ref the default branch.
ApplyIsCurrent ==
    \A h \in Handlers :
        LET r == Known(Request(h).repo)  claims == Request(h).claims IN
        At(h, {"running"}) /\ OIDC /\ Request(h).bearer = "jwt" =>
            /\ SameRepository(claims["repository"], r)
            /\ ~Request(h).dry =>
                  /\ claims["event_name"] \in TrustedEvents
                  /\ \E n \in served[h].arrived..meta[r] :
                        LET was == Metadata[r][n] IN
                        <<claims["ref"], claims["repository_id"],
                          claims["repository_owner_id"]>>
                        = <<was.branch, was.id, was.ownerId>>

\* Once the issuer stops rotating, its newest key is known: a token signed with
\* it is not refused for ever because an older set is cached.
RotationHeals ==
    <>[](\A h \in Handlers : At(h, {"unknownKey"}) => served[h].kid # newest)
=============================================================================
