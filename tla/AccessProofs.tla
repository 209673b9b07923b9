---------------------------- MODULE AccessProofs ----------------------------
(***************************************************************************)
(* Safety of Access for every number of requests in service, every set of  *)
(* requests and repositories, and every lifetime of a key set.             *)
(***************************************************************************)
EXTENDS Access, TLAPS

Places == {"idle", "authenticating", "missed", "fetching", "checking", "running", "unknownKey"}

Ages == 0 .. Long + 1

KeyTypes ==
    /\ newest \in 1..Keys
    /\ published \subseteq 1..newest
    /\ withdrawn \in [1..Keys -> Ages]
    /\ keySet \in [keys : SUBSET (1..Keys), age : 0..TTL]
    /\ flight \in [stage : {"none", "sent", "answered"}, keys : SUBSET (1..Keys),
                   age : 0..FetchTimeout]

Service == [pc : Places, kid : 0..Keys, arrived : Nat, request : Requests \cup {Idle.request}]

TypeOK ==
    /\ KeyTypes
    /\ meta \in [DOMAIN Metadata -> Nat]
    /\ served \in [Handlers -> Service]
    /\ faults \in Nat

\* How long ago the keys that the service holds may have been withdrawn: those
\* published now are not, a set that was fetched is no older than its fetch, and
\* a set in the cache no older than the fetch and its age.
KeyInv ==
    /\ \A k \in 1..Keys : k \in published \/ k > newest => withdrawn[k] = 0
    /\ flight.stage = "answered" => \A k \in flight.keys : withdrawn[k] <= flight.age
    /\ keySet.age < TTL => \A k \in keySet.keys : withdrawn[k] <= keySet.age + FetchTimeout

\* What is known of a request s: it was made, and it came when its repository
\* had changed at most as often as now; once admitted, a workflow's is of the
\* repository that minted its token; and an apply that runs was current.
RequestOK(s, m) ==
    s.pc # "idle" =>
        /\ s.request \in Requests
        /\ s.arrived <= m[Known(s.request.repo)]
        /\ s.pc \in {"checking", "running"} /\ OIDC /\ s.request.bearer = "jwt" =>
              SameRepository(s.request.claims["repository"], Known(s.request.repo))
        /\ s.pc = "running" /\ OIDC /\ s.request.bearer = "jwt" /\ ~s.request.dry =>
              /\ s.request.claims["event_name"] \in TrustedEvents
              /\ \E n \in s.arrived..m[Known(s.request.repo)] :
                    <<s.request.claims["ref"], s.request.claims["repository_id"],
                      s.request.claims["repository_owner_id"]>>
                    = <<Metadata[Known(s.request.repo)][n].branch,
                        Metadata[Known(s.request.repo)][n].id,
                        Metadata[Known(s.request.repo)][n].ownerId>>

RequestInv == \A h \in Handlers : RequestOK(served[h], meta)

IInv == TypeOK /\ KeyInv /\ RequestInv

-----------------------------------------------------------------------------

\* What the constants are assumed to be.
LEMMA Bounds ==
    /\ TTL \in Nat /\ FetchTimeout \in Nat /\ Keys \in Nat /\ MaxFaults \in Nat
    /\ 0 < TTL /\ 0 < FetchTimeout /\ 0 < Keys
    /\ Long \in Nat /\ Long = TTL + FetchTimeout
BY AccessAssumption DEF Long

\* The repository a request is about is one GitHub knows.
LEMMA KnownOne ==
    ASSUME NEW q \in Requests
    PROVE  Known(q.repo) \in DOMAIN Metadata /\ SameRepository(Known(q.repo), q.repo)
<1>1. \E r \in DOMAIN Metadata : SameRepository(r, q.repo)
  BY AccessAssumption
<1> QED
  BY <1>1 DEF Known

\* An idle handler is served nothing.
LEMMA IdleType == Idle \in Service /\ Idle.pc = "idle"
<1>1. 0 \in 0..Keys /\ 0 \in Nat /\ Idle.request \in Requests \cup {Idle.request}
  BY Bounds
<1> QED
  BY <1>1 DEF Idle, Service, Places

\* At the start nobody is served and no keys are held.
LEMMA InitInv == Init => IInv
<1> SUFFICES ASSUME Init PROVE IInv
  OBVIOUS
<1>1. 0 \in Ages /\ 0 \in 0..TTL /\ 0 \in 0..FetchTimeout /\ 1 \in 1..Keys
  BY Bounds DEF Ages
<1>2. KeyTypes
  BY <1>1 DEF Init, KeyTypes, Grounded
<1>4. TypeOK
  BY <1>2, IdleType DEF Init, TypeOK
<1>5. KeyInv
  BY <1>1, Bounds DEF Init, KeyInv, Grounded
<1>6. RequestInv
  BY IdleType DEF Init, RequestInv, RequestOK
<1> QED
  BY <1>4, <1>5, <1>6 DEF IInv

\* A workflow that is let in past authentication has a token of the repository
\* it asks for, and is not running yet unless it asks for a plan.
LEMMA AdmittedOK ==
    ASSUME NEW h \in Handlers, Request(h) \in Requests
    PROVE  /\ Admitted(h) \in {"idle", "running", "checking"}
           /\ Admitted(h) # "idle" /\ OIDC /\ Request(h).bearer = "jwt" =>
                 /\ SameRepository(Request(h).claims["repository"], Known(Request(h).repo))
                 /\ Admitted(h) = "running" => Request(h).dry
<1>1. Admitted(h) \in {"idle", "running", "checking"}
  BY DEF Admitted
<1> SUFFICES ASSUME Admitted(h) # "idle", OIDC, Request(h).bearer = "jwt"
             PROVE  /\ SameRepository(Request(h).claims["repository"], Known(Request(h).repo))
                    /\ Admitted(h) = "running" => Request(h).dry
  BY <1>1
<1> DEFINE q == Request(h)  ids == ParseGitHubIdentity(q.claims)
<1>2. Callers(h) = {[kind |-> "oidc", identity |-> i] : i \in ids}
  BY DEF Callers, authorize
<1>3. PICK c \in Callers(h) : scopedTo(c, q.repo)
  BY DEF Admitted
<1>4. PICK i \in ids : c = [kind |-> "oidc", identity |-> i]
  BY <1>2, <1>3
<1>5. i.repository = q.claims["repository"] /\ i.id > 0
  BY <1>4 DEF ParseGitHubIdentity
<1>6. i # NoIdentity
  <2>1. NoIdentity.id = 0 /\ ~(0 > 0)
    BY DEF NoIdentity
  <2> QED
    BY <1>5, <2>1
<1>7. SameRepository(q.claims["repository"], q.repo)
  BY <1>3, <1>4, <1>5, <1>6 DEF scopedTo
<1>8. SameRepository(q.claims["repository"], Known(q.repo))
  BY <1>7, KnownOne DEF SameRepository, EqualFold
<1>9. \A d \in Callers(h) : d.kind = "oidc"
  BY <1>2
<1>10. Admitted(h) = "running" => q.dry
  BY <1>3, <1>9 DEF Admitted
<1> QED
  BY <1>8, <1>10

\* One request moves, and the others stay: the new state of h is s.
OneMoves(h, s) ==
    /\ s \in Service /\ RequestOK(s, meta)
    /\ served' = [served EXCEPT ![h] = s]
    /\ UNCHANGED <<issuer, meta>>

\* What a request becomes when it goes on to a place where nothing more is known.
LEMMA MovedOK ==
    ASSUME NEW s \in Service, NEW to \in Places, NEW m, RequestOK(s, m), s.pc # "idle",
           to \in {"checking", "running"} =>
              /\ OIDC /\ s.request.bearer = "jwt" =>
                    SameRepository(s.request.claims["repository"], Known(s.request.repo))
              /\ to = "running" /\ OIDC /\ s.request.bearer = "jwt" => s.request.dry
    PROVE  Moved(s, to) \in Service /\ RequestOK(Moved(s, to), m)
<1>1. CASE to = "idle"
  BY <1>1, IdleType DEF Moved, RequestOK
<1>2. CASE to # "idle"
  <2> DEFINE n == [s EXCEPT !.pc = to]
  <2>1. /\ n \in Service /\ n.pc = to /\ n.request = s.request /\ n.arrived = s.arrived
        /\ Moved(s, to) = n
    BY <1>2 DEF Service, Moved
  <2> HIDE DEF n
  <2> QED
    BY <2>1 DEF RequestOK
<1> QED
  BY <1>1, <1>2

\* Where a verified request goes.
LEMMA VerifiedOK ==
    ASSUME IInv, NEW h \in Handlers, served[h].pc # "idle", NEW keys
    PROVE  /\ Moved(served[h], Verified(h, keys)) \in Service
           /\ RequestOK(Moved(served[h], Verified(h, keys)), meta)
           /\ Moved(served[h], Admitted(h)) \in Service
           /\ RequestOK(Moved(served[h], Admitted(h)), meta)
<1>1. served[h] \in Service /\ RequestOK(served[h], meta) /\ Request(h) \in Requests
  BY DEF IInv, TypeOK, RequestInv, RequestOK, Request
<1>2. /\ Admitted(h) \in Places
      /\ Admitted(h) \in {"checking", "running"} =>
           /\ OIDC /\ served[h].request.bearer = "jwt" =>
                 SameRepository(served[h].request.claims["repository"],
                                Known(served[h].request.repo))
           /\ Admitted(h) = "running" /\ OIDC /\ served[h].request.bearer = "jwt" =>
                 served[h].request.dry
  BY <1>1, AdmittedOK DEF Request, Places
<1>3. Verified(h, keys) = Admitted(h) \/ Verified(h, keys) = "unknownKey"
  BY DEF Verified
<1>4. "unknownKey" \in Places \ {"checking", "running"}
  BY DEF Places
<1> QED
  BY <1>1, <1>2, <1>3, <1>4, MovedOK

\* A step of one request.
LEMMA OneMovesInv ==
    ASSUME IInv, NEW h \in Handlers, NEW s, OneMoves(h, s), KeyTypes', KeyInv', faults' \in Nat
    PROVE  IInv'
<1>1. TypeOK'
  BY DEF OneMoves, IInv, TypeOK
<1>2. meta' = meta /\ \A g \in Handlers : served'[g] = IF g = h THEN s ELSE served[g]
  BY DEF OneMoves, IInv, TypeOK
<1>3. ASSUME NEW g \in Handlers PROVE RequestOK(served'[g], meta')
  <2>1. RequestOK(served[g], meta) /\ RequestOK(s, meta)
    BY DEF IInv, RequestInv, OneMoves
  <2>2. CASE g = h
    BY <1>2, <2>1, <2>2
  <2>3. CASE g # h
    BY <1>2, <2>1, <2>3
  <2> QED
    BY <2>2, <2>3
<1>4. RequestInv'
  BY <1>3 DEF RequestInv, RequestOK
<1> QED
  BY <1>1, <1>4 DEF IInv

\* A request comes, or one is answered.
LEMMA ArriveInv == ASSUME IInv, NEW h \in Handlers, Arrive(h) PROVE IInv'
<1>1. PICK q \in Requests, k \in 1..newest :
         served' = [served EXCEPT ![h] =
              [pc |-> "authenticating", request |-> q, arrived |-> meta[Known(q.repo)],
               kid |-> IF OIDC /\ q.bearer = "jwt" THEN k ELSE 0]]
  BY DEF Arrive
<1> DEFINE s == [pc |-> "authenticating", request |-> q, arrived |-> meta[Known(q.repo)],
                 kid |-> IF OIDC /\ q.bearer = "jwt" THEN k ELSE 0]
<1>2. /\ UNCHANGED <<published, newest, withdrawn, keySet, flight, meta, faults>>
      /\ KeyTypes' /\ KeyInv' /\ faults' \in Nat
  BY DEF Arrive, IInv, TypeOK, issuer, verifier, KeyTypes, KeyInv
<1>3. meta[Known(q.repo)] \in Nat
  BY KnownOne DEF IInv, TypeOK
<1>4. k \in 0..Keys /\ 0 \in 0..Keys
  BY Bounds DEF IInv, TypeOK, KeyTypes
<1>5. s \in Service
  BY <1>3, <1>4 DEF Service, Places
<1>6. RequestOK(s, meta)
  BY <1>3 DEF RequestOK
<1>7. OneMoves(h, s)
  <2> HIDE DEF s
  <2> QED
    BY <1>1, <1>2, <1>5, <1>6 DEF OneMoves, issuer, s
<1> HIDE DEF s
<1> QED
  BY <1>2, <1>7, OneMovesInv

\* The steps of a request that leave the verifier as it is.
LEMMA GoInv ==
    ASSUME IInv, NEW h \in Handlers, NEW to, Goes(h, to), UNCHANGED <<issuer, meta>>,
           Moved(served[h], to) \in Service, RequestOK(Moved(served[h], to), meta),
           KeyTypes', KeyInv', faults' \in Nat
    PROVE  IInv'
<1>1. OneMoves(h, Moved(served[h], to))
  BY DEF OneMoves, Goes, IInv, TypeOK
<1> QED
  BY <1>1, OneMovesInv

\* A look at the cache and a seat in the flight.
LEMMA KeysForInv ==
    ASSUME IInv, NEW h \in Handlers, ByOtherMeans(h) \/ Cached(h) \/ Join(h)
    PROVE  IInv'
<1>1. served[h].pc # "idle"
  BY DEF ByOtherMeans, Cached, Join, At
<1>2. \A to \in {"missed", "fetching"} :
         Moved(served[h], to) \in Service /\ RequestOK(Moved(served[h], to), meta)
  <2>1. served[h] \in Service /\ RequestOK(served[h], meta)
    BY DEF IInv, TypeOK, RequestInv
  <2>2. \A to \in {"missed", "fetching"} : to \in Places \ {"checking", "running"}
    BY DEF Places
  <2> QED
    BY <1>1, <2>1, <2>2, MovedOK
<1>3. UNCHANGED <<issuer, keySet, meta, faults>> /\ faults' \in Nat
  BY DEF ByOtherMeans, Cached, Join, verifier, IInv, TypeOK
<1>4. CASE ByOtherMeans(h) \/ Cached(h)
  <2>1. KeyTypes' /\ KeyInv'
    BY <1>3, <1>4 DEF ByOtherMeans, Cached, verifier, issuer, IInv, TypeOK, KeyTypes, KeyInv
  <2>2. \/ Goes(h, Admitted(h)) \/ Goes(h, Verified(h, keySet.keys)) \/ Goes(h, "missed")
    BY <1>4 DEF ByOtherMeans, Cached
  <2> QED
    BY <1>1, <1>2, <1>3, <2>1, <2>2, VerifiedOK, GoInv
<1>5. CASE Join(h)
  <2>1. flight' \in {flight, [Grounded EXCEPT !.stage = "sent"]}
    BY <1>5 DEF Join
  <2>2. KeyTypes' /\ KeyInv'
    <3>1. KeyTypes /\ KeyInv /\ UNCHANGED <<published, newest, withdrawn, keySet>>
      BY <1>3 DEF issuer, IInv, TypeOK
    <3>2. CASE flight' = flight
      BY <3>1, <3>2 DEF KeyTypes, KeyInv
    <3>3. CASE flight' = [Grounded EXCEPT !.stage = "sent"]
      <4>1. flight' = [stage |-> "sent", keys |-> {}, age |-> 0]
        BY <3>3 DEF Grounded
      <4>2. flight'.stage # "answered"
        BY <4>1
      <4>3. flight' \in [stage : {"none", "sent", "answered"}, keys : SUBSET (1..Keys),
                         age : 0..FetchTimeout]
        BY <4>1, Bounds
      <4> QED
        BY <3>1, <4>2, <4>3 DEF KeyTypes, KeyInv
    <3> QED
      BY <2>1, <3>2, <3>3
  <2>3. \/ Goes(h, Verified(h, keySet.keys)) \/ Goes(h, "fetching")
    BY <1>5 DEF Join
  <2> QED
    BY <1>1, <1>2, <1>3, <2>2, <2>3, VerifiedOK, GoInv
<1> QED
  BY <1>4, <1>5

\* An apply asks what the repository is, and an answer is given.
LEMMA AnswerInv ==
    ASSUME IInv, NEW h \in Handlers, RequireApply(h) \/ Answer(h)
    PROVE  IInv'
<1> DEFINE s == served[h]  r == Known(s.request.repo)
<1>1. /\ s \in Service /\ RequestOK(s, meta) /\ s.pc # "idle"
      /\ s.request \in Requests /\ r \in DOMAIN Metadata
      /\ meta[r] \in Nat /\ s.arrived \in Nat /\ s.arrived <= meta[r]
  <2>1. s \in Service /\ RequestOK(s, meta) /\ s.pc # "idle"
    BY DEF IInv, TypeOK, RequestInv, RequireApply, Answer, At
  <2>2. s.request \in Requests /\ r \in DOMAIN Metadata
    BY <2>1, KnownOne DEF RequestOK
  <2> QED
    BY <2>1, <2>2 DEF RequestOK, Service, IInv, TypeOK
<1>2. /\ UNCHANGED <<issuer, verifier, meta>> /\ faults' \in Nat
      /\ KeyTypes' /\ KeyInv'
  <2>1. UNCHANGED <<issuer, verifier, meta>> /\ faults' \in {faults, faults + 1}
    BY DEF RequireApply, Answer
  <2>2. UNCHANGED <<published, newest, withdrawn, keySet, flight>>
    BY <2>1 DEF issuer, verifier
  <2>3. KeyTypes' /\ KeyInv'
    BY <2>2 DEF IInv, TypeOK, KeyTypes, KeyInv
  <2> QED
    BY <2>1, <2>3 DEF IInv, TypeOK
<1>3. Moved(s, "idle") \in Service /\ RequestOK(Moved(s, "idle"), meta)
  BY <1>1, MovedOK DEF Places
<1>4. CASE Goes(h, "idle")
  BY <1>2, <1>3, <1>4, GoInv
<1>5. CASE ~Goes(h, "idle")
  <2>1. /\ RequireApply(h) /\ s.pc = "checking" /\ Goes(h, "running")
        /\ \E c \in Callers(h) : requireApply(c, Now(h))
    BY <1>5 DEF RequireApply, Answer, At
  <2> DEFINE n == [s EXCEPT !.pc = "running"]
  <2>2. /\ n \in Service /\ n.pc = "running" /\ n.request = s.request
        /\ n.arrived = s.arrived /\ Moved(s, "running") = n
    BY <1>1 DEF Service, Places, Moved
  <2>3. ASSUME OIDC, s.request.bearer = "jwt"
        PROVE  /\ s.request.claims["event_name"] \in TrustedEvents
               /\ <<s.request.claims["ref"], s.request.claims["repository_id"],
                     s.request.claims["repository_owner_id"]>>
                   = <<Metadata[r][meta[r]].branch, Metadata[r][meta[r]].id,
                       Metadata[r][meta[r]].ownerId>>
    <3>1. Callers(h) = {[kind |-> "oidc", identity |-> i] :
                          i \in ParseGitHubIdentity(s.request.claims)}
      BY <2>3 DEF Callers, authorize, Request
    <3>2. PICK i \in ParseGitHubIdentity(s.request.claims) :
             requireApply([kind |-> "oidc", identity |-> i], Now(h))
      BY <2>1, <3>1
    <3>3. /\ i.event = s.request.claims["event_name"] /\ i.ref = s.request.claims["ref"]
          /\ i.id = s.request.claims["repository_id"]
          /\ i.ownerId = s.request.claims["repository_owner_id"]
      BY <3>2 DEF ParseGitHubIdentity
    <3>4. /\ i.event \in TrustedEvents /\ i.ref = Now(h).branch
          /\ i.id = Now(h).id /\ i.ownerId = Now(h).ownerId
      BY <3>2 DEF requireApply
    <3>5. Now(h) = Metadata[r][meta[r]]
      BY DEF Now, Request
    <3> QED
      BY <3>3, <3>4, <3>5
  <2>4. meta[r] \in s.arrived..meta[r]
    BY <1>1
  <2>5. OIDC /\ s.request.bearer = "jwt" =>
          SameRepository(s.request.claims["repository"], r)
    BY <1>1, <2>1 DEF RequestOK
  <2> HIDE DEF n
  <2>6. RequestOK(n, meta)
    BY <1>1, <2>2, <2>3, <2>4, <2>5 DEF RequestOK
  <2> QED
    BY <1>2, <2>1, <2>2, <2>6, GoInv
<1> QED
  BY <1>4, <1>5

\* A flight that ends answers those aboard, or lets them go on with its keys.
LEMMA AboardInv ==
    ASSUME IInv, NEW keys, meta' = meta, served' = [h \in Handlers |-> served'[h]],
           \A h \in Handlers :
              \/ served'[h] = served[h]
              \/ /\ At(h, {"fetching"})
                 /\ served'[h] \in {Moved(served[h], "idle"), Moved(served[h], Verified(h, keys))}
    PROVE  served' \in [Handlers -> Service] /\ RequestInv'
<1>1. ASSUME NEW h \in Handlers
      PROVE  served'[h] \in Service /\ RequestOK(served'[h], meta)
  <2>1. served[h] \in Service /\ RequestOK(served[h], meta)
    BY DEF IInv, TypeOK, RequestInv
  <2>2. CASE served'[h] # served[h]
    <3>1. served[h].pc # "idle"
      BY <2>2 DEF At
    <3>2. CASE served'[h] = Moved(served[h], Verified(h, keys))
      BY <3>1, <3>2, VerifiedOK
    <3>3. CASE served'[h] = Moved(served[h], "idle")
      BY <2>1, <3>1, <3>3, MovedOK DEF Places
    <3> QED
      BY <2>2, <3>2, <3>3
  <2> QED
    BY <2>1, <2>2
<1>2. served' \in [Handlers -> Service]
  BY <1>1
<1>3. RequestInv'
  BY <1>1 DEF RequestInv, RequestOK
<1> QED
  BY <1>2, <1>3

\* The end of a flight.
LEMMA FetchInv == ASSUME IInv, FetchReturns \/ FetchFails PROVE IInv'
<1>1. served' \in [Handlers -> Service] /\ RequestInv'
  <2>1. CASE FetchReturns
    <3>1. served' = [h \in Handlers |-> IF At(h, {"fetching"})
                       THEN Moved(served[h], Verified(h, flight.keys)) ELSE served[h]]
      BY <2>1 DEF FetchReturns, Aboard
    <3>2. meta' = meta
      BY <2>1 DEF FetchReturns
    <3> QED
      BY <3>1, <3>2, AboardInv
  <2>2. CASE FetchFails
    <3>1. served' = [h \in Handlers |-> IF At(h, {"fetching"})
                       THEN Moved(served[h], "idle") ELSE served[h]]
      BY <2>2 DEF FetchFails, Aboard
    <3>2. meta' = meta
      BY <2>2 DEF FetchFails
    <3> QED
      BY <3>1, <3>2, AboardInv
  <2> QED
    BY <2>1, <2>2
<1>2. /\ UNCHANGED <<published, newest, withdrawn, meta>> /\ flight' = Grounded
      /\ faults' \in {faults, faults + 1}
      /\ \/ keySet' = keySet
         \/ keySet' = [keys |-> flight.keys, age |-> 0] /\ flight.stage = "answered"
  BY DEF FetchReturns, FetchFails, issuer
<1>3. flight'.stage = "none" /\ KeyTypes'
  BY <1>2, Bounds DEF IInv, TypeOK, KeyTypes, Grounded
<1>4. KeyInv'
  <2>1. CASE keySet' = keySet
    BY <1>2, <1>3, <2>1 DEF IInv, KeyInv
  <2>2. CASE keySet' = [keys |-> flight.keys, age |-> 0] /\ flight.stage = "answered"
    <3>1. \A k \in flight.keys : withdrawn[k] <= 0 + FetchTimeout
      <4>1. flight.age \in 0..FetchTimeout
        BY DEF IInv, TypeOK, KeyTypes
      <4> SUFFICES ASSUME NEW k \in flight.keys PROVE withdrawn[k] <= 0 + FetchTimeout
        OBVIOUS
      <4>2. withdrawn[k] <= flight.age
        BY <2>2 DEF IInv, KeyInv
      <4>3. withdrawn[k] \in Nat
        BY Bounds DEF IInv, TypeOK, KeyTypes, Ages
      <4> QED
        BY <4>1, <4>2, <4>3, Bounds
    <3> QED
      BY <1>2, <1>3, <2>2, <3>1 DEF IInv, KeyInv
  <2> QED
    BY <1>2, <2>1, <2>2
<1>5. TypeOK'
  BY <1>1, <1>2, <1>3 DEF IInv, TypeOK
<1> QED
  BY <1>1, <1>4, <1>5 DEF IInv

\* The issuer answers, rotates its keys and withdraws them.
LEMMA IssuerInv == ASSUME IInv, FetchServed \/ Rotate \/ Withdraw PROVE IInv'
<1> USE DEF IInv, TypeOK, KeyTypes, KeyInv
<1>1. UNCHANGED <<withdrawn, keySet, meta, served, faults>>
  BY DEF FetchServed, Rotate, Withdraw, issuer, verifier
<1>2. RequestInv'
  BY <1>1 DEF RequestInv, RequestOK
<1>3. CASE FetchServed
  <2>1. /\ UNCHANGED <<published, newest>> /\ flight.stage = "sent"
        /\ flight' = [flight EXCEPT !.stage = "answered", !.keys = published]
    BY <1>3 DEF FetchServed, issuer
  <2>2. published \subseteq 1..Keys
    BY Bounds
  <2>3. /\ flight' \in [stage : {"none", "sent", "answered"}, keys : SUBSET (1..Keys),
                         age : 0..FetchTimeout]
        /\ flight'.keys = published /\ flight'.age = flight.age
    BY <2>1, <2>2
  <2>4. \A k \in flight'.keys : withdrawn[k] <= flight'.age
    BY <2>2, <2>3, Bounds
  <2> QED
    BY <1>1, <1>2, <2>1, <2>3, <2>4
<1>4. CASE Rotate
  <2>1. /\ newest < Keys /\ newest' = newest + 1 /\ published' = published \cup {newest + 1}
        /\ flight' = flight
    BY <1>4 DEF Rotate, verifier
  <2>2. newest' \in 1..Keys /\ published' \subseteq 1..newest'
    BY <2>1, Bounds
  <2>3. \A k \in 1..Keys : k \in published' \/ k > newest' => withdrawn[k] = 0
    BY <2>1, Bounds
  <2> QED
    BY <1>1, <1>2, <2>1, <2>2, <2>3
<1>5. CASE Withdraw
  <2>1. newest' = newest /\ published' \subseteq published /\ flight' = flight
    BY <1>5 DEF Withdraw, verifier
  <2> QED
    BY <1>1, <1>2, <2>1
<1> QED
  BY <1>3, <1>4, <1>5

\* A repository changes: what it was stays among what it has been.
LEMMA ChangeInv == ASSUME IInv, NEW r \in DOMAIN Metadata, Change(r) PROVE IInv'
<1>1. UNCHANGED <<published, newest, withdrawn, keySet, flight, served, faults>>
  BY DEF Change, issuer, verifier
<1>2. /\ meta' \in [DOMAIN Metadata -> Nat]
      /\ \A x \in DOMAIN Metadata : meta[x] \in Nat /\ meta'[x] \in Nat /\ meta[x] <= meta'[x]
  BY DEF Change, IInv, TypeOK
<1>3. ASSUME NEW h \in Handlers PROVE RequestOK(served[h], meta')
  <2> DEFINE s == served[h]  x == Known(s.request.repo)
  <2> SUFFICES ASSUME s.pc # "idle" PROVE RequestOK(s, meta')
    BY DEF RequestOK
  <2>1. RequestOK(s, meta) /\ s.request \in Requests /\ s.arrived \in Nat
    BY DEF IInv, TypeOK, RequestInv, RequestOK, Service
  <2>2. meta[x] \in Nat /\ meta'[x] \in Nat /\ meta[x] <= meta'[x]
    BY <1>2, <2>1, KnownOne
  <2>3. s.arrived..meta[x] \subseteq s.arrived..meta'[x] /\ (s.arrived <= meta[x] => s.arrived <= meta'[x])
    BY <2>1, <2>2
  <2> HIDE DEF s, x
  <2> QED
    BY <2>1, <2>3 DEF RequestOK, x
<1>4. RequestInv'
  BY <1>1, <1>3 DEF RequestInv, RequestOK
<1> QED
  BY <1>1, <1>2, <1>4 DEF IInv, TypeOK, KeyTypes, KeyInv

\* The clock ages what is held no faster than what was withdrawn.
LEMMA TickInv == ASSUME IInv, Tick PROVE IInv'
<1>1. UNCHANGED <<published, newest, meta, served, faults>>
  BY DEF Tick
<1>2. RequestInv'
  BY <1>1 DEF IInv, RequestInv, RequestOK
<1>3. /\ withdrawn' \in [1..Keys -> Ages]
      /\ \A k \in 1..Keys : /\ withdrawn[k] \in Nat /\ withdrawn'[k] \in Nat
                            /\ withdrawn'[k] <= withdrawn[k] + 1
                            /\ k \in published \/ k > newest => withdrawn'[k] = 0
  <2>1. withdrawn' = [k \in 1..Keys |-> IF k \in published \/ k > newest THEN 0
                                       ELSE More(withdrawn[k], Long + 1)]
    BY DEF Tick
  <2>2. \A k \in 1..Keys : withdrawn[k] \in Nat /\ withdrawn[k] <= Long + 1
    BY Bounds DEF IInv, TypeOK, KeyTypes, Ages
  <2>3. \A k \in 1..Keys : /\ More(withdrawn[k], Long + 1) \in Ages
                           /\ More(withdrawn[k], Long + 1) <= withdrawn[k] + 1
    BY <2>2, Bounds DEF Ages, More
  <2>4. 0 \in Ages /\ Ages \subseteq Nat /\ \A n \in Nat : 0 <= n + 1
    BY Bounds DEF Ages
  <2> QED
    BY <2>1, <2>2, <2>3, <2>4
<1>4. /\ keySet'.keys = keySet.keys /\ keySet'.age = More(keySet.age, TTL)
      /\ keySet.age \in 0..TTL /\ keySet.keys \subseteq 1..Keys /\ keySet'.age \in 0..TTL
      /\ keySet'.age < TTL => keySet.age < TTL /\ keySet'.age = keySet.age + 1
      /\ keySet' \in [keys : SUBSET (1..Keys), age : 0..TTL]
  <2>1. keySet \in [keys : SUBSET (1..Keys), age : 0..TTL]
    BY DEF IInv, TypeOK, KeyTypes
  <2>2. keySet' = [keySet EXCEPT !.age = More(keySet.age, TTL)]
    BY DEF Tick
  <2>3. /\ More(keySet.age, TTL) \in 0..TTL
        /\ More(keySet.age, TTL) < TTL => keySet.age < TTL /\ More(keySet.age, TTL) = keySet.age + 1
    BY <2>1, Bounds DEF More
  <2> QED
    BY <2>1, <2>2, <2>3
<1>5. /\ flight' \in [stage : {"none", "sent", "answered"}, keys : SUBSET (1..Keys),
                      age : 0..FetchTimeout]
      /\ flight'.stage = "answered" =>
            /\ flight.stage = "answered" /\ flight'.keys = flight.keys
            /\ flight'.age = flight.age + 1 /\ flight.age \in Nat
      /\ flight.keys \subseteq 1..Keys
  <2>1. flight \in [stage : {"none", "sent", "answered"}, keys : SUBSET (1..Keys),
                   age : 0..FetchTimeout]
    BY DEF IInv, TypeOK, KeyTypes
  <2>2. /\ flight.age < FetchTimeout
        /\ flight' = IF flight.stage = "none" THEN flight ELSE [flight EXCEPT !.age = flight.age + 1]
    BY DEF Tick
  <2>3. flight.age + 1 \in 0..FetchTimeout /\ flight.age \in Nat
    BY <2>1, <2>2, Bounds
  <2> QED
    BY <2>1, <2>2, <2>3
<1>6. TypeOK'
  BY <1>1, <1>3, <1>4, <1>5 DEF IInv, TypeOK, KeyTypes
<1>7. flight'.stage = "answered" => \A k \in flight'.keys : withdrawn'[k] <= flight'.age
  <2> SUFFICES ASSUME flight'.stage = "answered", NEW k \in flight'.keys
               PROVE  withdrawn'[k] <= flight'.age
    OBVIOUS
  <2>1. k \in 1..Keys /\ withdrawn[k] <= flight.age
    BY <1>5 DEF IInv, KeyInv
  <2> QED
    BY <1>3, <1>5, <2>1
<1>8. keySet'.age < TTL => \A k \in keySet'.keys : withdrawn'[k] <= keySet'.age + FetchTimeout
  <2> SUFFICES ASSUME keySet'.age < TTL, NEW k \in keySet'.keys
               PROVE  withdrawn'[k] <= keySet'.age + FetchTimeout
    OBVIOUS
  <2>1. k \in 1..Keys /\ withdrawn[k] <= keySet.age + FetchTimeout
    BY <1>4 DEF IInv, KeyInv
  <2> QED
    BY <1>3, <1>4, <2>1, Bounds
<1>9. KeyInv'
  BY <1>1, <1>3, <1>7, <1>8 DEF KeyInv
<1> QED
  BY <1>2, <1>6, <1>9 DEF IInv

\* Every step keeps the invariant.
LEMMA StepInv == IInv /\ [Next]_vars => IInv'
<1> SUFFICES ASSUME IInv, [Next]_vars PROVE IInv'
  OBVIOUS
<1>1. CASE UNCHANGED vars
  <2>1. RequestInv'
    BY <1>1 DEF vars, IInv, RequestInv, RequestOK
  <2> QED
    BY <1>1, <2>1 DEF vars, IInv, TypeOK, KeyTypes, KeyInv
<1>2. CASE Next
  BY <1>2, ArriveInv, KeysForInv, AnswerInv, FetchInv, IssuerInv, ChangeInv, TickInv
     DEF Next, Step
<1> QED
  BY <1>1, <1>2

\* The inductive invariant.
THEOREM Invariant == Spec => []IInv
BY InitInv, StepInv, PTL DEF Spec

\* Type correctness; in particular every request is of a repository that was
\* there when it came.
THEOREM TypeCorrect == Spec => []TypeOK
<1>1. IInv => TypeOK
  BY DEF IInv
<1> QED
  BY <1>1, Invariant, PTL

\* A run acts on the repository that minted its token, and an apply on what that
\* repository was since the request came (server/auth.go:108-132).
THEOREM AppliesAreCurrent == Spec => []ApplyIsCurrent
<1>1. IInv => ApplyIsCurrent
  <2> SUFFICES ASSUME IInv, NEW h \in Handlers, At(h, {"running"}), OIDC,
                      Request(h).bearer = "jwt"
               PROVE  LET r == Known(Request(h).repo)  claims == Request(h).claims IN
                      /\ SameRepository(claims["repository"], r)
                      /\ ~Request(h).dry =>
                            /\ claims["event_name"] \in TrustedEvents
                            /\ \E n \in served[h].arrived..meta[r] :
                                  LET was == Metadata[r][n] IN
                                  <<claims["ref"], claims["repository_id"],
                                    claims["repository_owner_id"]>>
                                  = <<was.branch, was.id, was.ownerId>>
    BY DEF ApplyIsCurrent
  <2>1. RequestOK(served[h], meta)
    BY DEF IInv, RequestInv
  <2> QED
    BY <2>1 DEF RequestOK, Request, At
<1> QED
  BY <1>1, Invariant, PTL

\* A key that was withdrawn is accepted no longer than a cached set and a fetch
\* may last (oidc/oidc.go:276-326).
THEOREM WithdrawnKeysDie == Spec => KeysAreRecent
<1>1. ASSUME IInv, [Next]_vars, NEW h \in Handlers,
             At(h, {"authenticating", "missed", "fetching"}),
             served'[h].pc \in {"running", "checking"}, served[h].kid # 0
      PROVE  withdrawn[served[h].kid] <= Long
  <2> DEFINE kid == served[h].kid
  <2>1. served'[h] # served[h]
    BY <1>1 DEF At
  <2>2. /\ kid \in 1..Keys /\ withdrawn[kid] \in Nat
        /\ keySet.age \in 0..TTL /\ flight.age \in 0..FetchTimeout
    BY <1>1, Bounds DEF IInv, TypeOK, KeyTypes, Service, Ages
  <2>3. ASSUME NEW keys, served'[h] = Moved(served[h], Verified(h, keys)) PROVE kid \in keys
    <3>1. Verified(h, keys) \in {"running", "checking"}
      <4>1. served[h] \in Service
        BY <1>1 DEF IInv, TypeOK
      <4>2. Verified(h, keys) # "idle" => served'[h] = [served[h] EXCEPT !.pc = Verified(h, keys)]
        BY <2>3 DEF Moved
      <4>3. Verified(h, keys) # "idle" => served'[h].pc = Verified(h, keys)
        BY <4>1, <4>2 DEF Service
      <4>4. Verified(h, keys) = "idle" => served'[h].pc = "idle"
        BY <2>3, IdleType DEF Moved
      <4> QED
        BY <1>1, <4>3, <4>4
    <3> QED
      BY <3>1 DEF Verified
  <2>4. CASE cached /\ served'[h] = Moved(served[h], Verified(h, keySet.keys))
    <3>1. kid \in keySet.keys /\ keySet.age < TTL
      BY <2>3, <2>4 DEF cached
    <3>2. withdrawn[kid] <= keySet.age + FetchTimeout
      BY <1>1, <3>1 DEF IInv, KeyInv
    <3> QED
      BY <2>2, <3>1, <3>2, Bounds
  <2>5. CASE flight.stage = "answered" /\ served'[h] = Moved(served[h], Verified(h, flight.keys))
    <3>1. kid \in flight.keys
      BY <2>3, <2>5
    <3>2. withdrawn[kid] <= flight.age
      BY <1>1, <2>5, <3>1 DEF IInv, KeyInv
    <3> QED
      BY <2>2, <3>2, Bounds
  <2>6. \/ cached /\ served'[h] = Moved(served[h], Verified(h, keySet.keys))
        \/ flight.stage = "answered" /\ served'[h] = Moved(served[h], Verified(h, flight.keys))
    <3>1. CASE FetchReturns
      BY <1>1, <2>1, <3>1 DEF FetchReturns, Aboard
    <3>2. CASE FetchFails
      <4>1. served'[h] = served[h] \/ served'[h] = Idle
        BY <3>2 DEF FetchFails, Aboard, Moved
      <4> QED
        BY <1>1, <2>1, <4>1, IdleType
    <3>3. CASE ~(FetchReturns \/ FetchFails)
      <4>1. PICK g \in Handlers : Step(g)
        BY <1>1, <2>1, <3>3 DEF Next, vars, FetchServed, Rotate, Withdraw, Change, Tick
      <4>2. g = h
        BY <1>1, <2>1, <4>1 DEF Step, Arrive, ByOtherMeans, Cached, Join, RequireApply, Answer,
                                Goes, IInv, TypeOK
      <4>3. \/ Goes(h, Verified(h, keySet.keys)) /\ cached
            \/ Goes(h, "missed") \/ Goes(h, "fetching")
        BY <1>1, <4>1, <4>2 DEF Step, Arrive, ByOtherMeans, Cached, Join, RequireApply, Answer, At
      <4>4. served[h] \in Service /\ served \in [Handlers -> Service]
        BY <1>1 DEF IInv, TypeOK
      <4>5. ~Goes(h, "missed") /\ ~Goes(h, "fetching")
        BY <1>1, <4>4 DEF Goes, Moved, Service
      <4> QED
        BY <4>3, <4>4, <4>5 DEF Goes
    <3> QED
      BY <3>1, <3>2, <3>3
  <2> QED
    BY <2>4, <2>5, <2>6
<1>2. IInv /\ [Next]_vars =>
        [\A h \in Handlers :
            /\ At(h, {"authenticating", "missed", "fetching"})
            /\ served'[h].pc \in {"running", "checking"} /\ served[h].kid # 0
            => withdrawn[served[h].kid] <= Long]_vars
  BY <1>1
<1> QED
  BY <1>2, Invariant, PTL DEF Spec, KeysAreRecent
=============================================================================
